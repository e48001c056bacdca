------------------------------- MODULE Buffer ------------------------------
(***************************************************************************)
(* Buffer (io/buffer.cpp): a chain of fixed-size blocks with a read and a  *)
(* write position, and the total number of readable bytes.                 *)
(*                                                                         *)
(* The chain is a sequence of blocks, head_ first; a pointer to a block is *)
(* its position.  A block is what has been written to it and its read_idx; *)
(* its write_idx is the length of what has been written.  Blocks are never *)
(* freed before the Buffer is.  The methods are functions of the object.   *)
(***************************************************************************)
EXTENDS Integers, Sequences, SequencesExt

CONSTANTS
    Byte,           \* the bytes
    kBlockSize,     \* size of a block (4096)
    MaxChunk,       \* bound on the bytes one call adds
    MaxBlocks       \* bound on the length of the chain

ASSUME BlockAssumption == kBlockSize \in Nat \ {0}
ASSUME BoundAssumption == MaxChunk \in Nat /\ MaxBlocks \in Nat \ {0}

VARIABLES
    buf,            \* the object: blocks, read_block_, write_block_, size_
    op              \* history: the last call, see ByteQueue

vars == <<buf, op>>

Smaller(m, n) == IF m < n THEN m ELSE n

EmptyBlock == [data |-> <<>>, read_idx |-> 0]
Readable(block) == Len(block.data) - block.read_idx
Writable(block) == kBlockSize - Len(block.data)
ReadableBytes(block) == SubSeq(block.data, block.read_idx + 1, Len(block.data))

NewBuffer == [blocks |-> <<EmptyBlock>>, read_block_ |-> 1, write_block_ |-> 1, size_ |-> 0]

ReadBlock(b) == b.blocks[b.read_block_]
WriteBlock(b) == b.blocks[b.write_block_]

\* Every readable byte from the read block on, in order.
Content(b) ==
    FlattenSeq([i \in DOMAIN b.blocks |->
                   IF i < b.read_block_ THEN <<>> ELSE ReadableBytes(b.blocks[i])])

-----------------------------------------------------------------------------
(* Writing.                                                                *)

\* Move write_block_ to the next block, allocated if there is none.
NextWriteBlock(b) ==
    [b EXCEPT !.write_block_ = @ + 1,
              !.blocks = IF b.write_block_ = Len(@) THEN Append(@, EmptyBlock) ELSE @]

\* begin_write(): a block with room.
BeginWrite(b) == IF Writable(WriteBlock(b)) = 0 THEN NextWriteBlock(b) ELSE b

\* memcpy() of s into the write block, which has room for it.
CopyIn(b, s) ==
    [b EXCEPT !.blocks[b.write_block_].data = @ \o s, !.size_ = @ + Len(s)]

\* append(): copy as much as fits, go on in the next block; here one byte at
\* a time.
AppendTo(b, s) ==
    LET after[i \in 0..Len(s)] ==
            IF i = 0 THEN b ELSE CopyIn(BeginWrite(after[i - 1]), <<s[i]>>)
    IN  after[Len(s)]

\* has_written() for bytes s put where begin_write() said, clamped to the room
\* there is.
HasWritten(b, s) == CopyIn(b, SubSeq(s, 1, Smaller(Len(s), Writable(WriteBlock(b)))))

\* ensure_writable(): at most one block further.
EnsureWritable(b, len) == IF Writable(WriteBlock(b)) >= len THEN b ELSE NextWriteBlock(b)

-----------------------------------------------------------------------------
(* Reading.                                                                *)

\* Consume up to n bytes of the read block.
ConsumeInBlock(b, n) ==
    [b EXCEPT !.blocks[b.read_block_].read_idx = @ + n, !.size_ = @ - n]

\* Wrong on purpose: a block is left only when something was consumed in it.
ConsumeStepStuck(st) ==
    LET b == st.b
        n == Smaller(st.remaining, Readable(ReadBlock(b)))
        after == ConsumeInBlock(b, n)
    IN  IF st.remaining = 0 \/ b.read_block_ = b.write_block_ \/ n = 0 THEN st
        ELSE [b |-> IF Readable(ReadBlock(after)) = 0
                    THEN [after EXCEPT !.read_block_ = @ + 1] ELSE after,
              remaining |-> st.remaining - n]

\* One turn of retrieve()'s loop: consume in the read block, leave it when it
\* is used up; nothing once the write block is reached.
ConsumeStep(st) ==
    LET b == st.b
        n == Smaller(st.remaining, Readable(ReadBlock(b)))
        after == ConsumeInBlock(b, n)
    IN  IF st.remaining = 0 \/ b.read_block_ = b.write_block_ THEN st
        ELSE [b |-> IF Readable(ReadBlock(after)) = 0
                    THEN [after EXCEPT !.read_block_ = @ + 1] ELSE after,
              remaining |-> st.remaining - n]

\* The loop, which leaves a block or ends in each turn.
ConsumeLoop(b, n) ==
    LET most == b.write_block_ - b.read_block_ + 1
        turns[k \in 0..most] ==
            IF k = 0 THEN [b |-> b, remaining |-> n] ELSE ConsumeStep(turns[k - 1])
    IN  turns[most]

\* The loop, and what is left to be consumed in the write block.
Consume(b, n) ==
    LET last == ConsumeLoop(b, n)
    IN  ConsumeInBlock(last.b, Smaller(last.remaining, Readable(ReadBlock(last.b))))

\* read_n(): the first n bytes, or nothing if there are fewer.
ReadN(b, n) == IF n > b.size_ THEN <<>> ELSE SubSeq(Content(b), 1, n)

\* retrieve_all(): every block reset, none freed.
ResetAll(b) ==
    [b EXCEPT !.blocks = [i \in DOMAIN @ |-> EmptyBlock],
              !.read_block_ = 1, !.write_block_ = 1, !.size_ = 0]

\* Wrong on purpose: compaction starts to write where the old data ends.
CompactNoReset(b) ==
    IF b.read_block_ # 1 /\ b.size_ > 0
    THEN AppendTo([b EXCEPT !.read_block_ = 1, !.write_block_ = 1, !.size_ = 0],
                  ReadN(b, b.size_))
    ELSE b

\* The last part of retrieve(): what is left moves to the front of the chain,
\* unless nothing is left.
Compact(b) ==
    IF b.read_block_ # 1 /\ b.size_ > 0 THEN AppendTo(ResetAll(b), ReadN(b, b.size_)) ELSE b

\* retrieve()
RetrieveFrom(b, n) == IF n = 0 THEN b ELSE Compact(Consume(b, Smaller(n, b.size_)))

\* peek(), peek_data() and peek_size(): the readable bytes of the read block.
Peek(b) == IF b.size_ = 0 THEN <<>> ELSE ReadableBytes(ReadBlock(b))

-----------------------------------------------------------------------------
Init == buf = NewBuffer /\ op = <<"new">>

Chunks == BoundedSeq(Byte, MaxChunk)

AppendData(s) ==
    /\ buf' = AppendTo(buf, s)
    /\ op' = <<"write", s>>

\* begin_write(), a read of the socket into the space it gives, has_written().
ReadSocket(s) ==
    /\ Len(s) <= Writable(WriteBlock(BeginWrite(buf)))
    /\ buf' = HasWritten(BeginWrite(buf), s)
    /\ op' = <<"write", s>>

Ensure(len) ==
    /\ buf' = EnsureWritable(buf, len)
    /\ op' = <<"write", <<>>>>

Retrieve(n) ==
    /\ buf' = RetrieveFrom(buf, n)
    /\ op' = <<"retrieve", n>>

RetrieveAll ==
    /\ buf' = ResetAll(buf)
    /\ op' = <<"retrieve_all">>

WithinBounds == Len(buf'.blocks) <= MaxBlocks

Next ==
    \/ \E s \in Chunks : AppendData(s) /\ WithinBounds
    \/ \E s \in Chunks : ReadSocket(s) /\ WithinBounds
    \/ \E len \in 1..(kBlockSize + 1) : Ensure(len) /\ WithinBounds
    \/ \E n \in 0..(buf.size_ + 1) : Retrieve(n)
    \/ RetrieveAll

Spec == Init /\ [][Next]_vars

-----------------------------------------------------------------------------
(* Properties.                                                             *)

\* The object has its type: positions inside the chain, blocks no fuller than
\* kBlockSize, no block read beyond what was written to it.
TypeOK ==
    /\ Len(buf.blocks) \in 1..MaxBlocks
    /\ buf.read_block_ \in 1..Len(buf.blocks)
    /\ buf.write_block_ \in 1..Len(buf.blocks)
    /\ buf.size_ \in Nat
    /\ \A i \in DOMAIN buf.blocks :
          /\ buf.blocks[i].data \in Seq(Byte)
          /\ Len(buf.blocks[i].data) <= kBlockSize
          /\ buf.blocks[i].read_idx \in 0..Len(buf.blocks[i].data)

\* The chain is in order, and of its type: reading has not passed writing, the
\* blocks behind the read position are used up and the blocks ahead of the write
\* position are empty, so that none is ever entered with old data in it; and
\* size_ is the number of bytes in between.
ChainInOrder ==
    /\ TypeOK
    /\ buf.read_block_ <= buf.write_block_
    /\ \A i \in DOMAIN buf.blocks :
          /\ i < buf.read_block_ => Readable(buf.blocks[i]) = 0
          /\ i > buf.write_block_ => buf.blocks[i] = EmptyBlock
    /\ buf.size_ = Len(Content(buf))

\* Buffer is a queue of bytes (module ByteQueue): through any sequence of
\* appends, socket reads, partial and excessive retrieves, block changes and
\* compactions, no byte is lost, duplicated or moved out of order.
Queue == INSTANCE ByteQueue WITH content <- Content(buf)

ImplementsByteQueue == Queue!Spec

=============================================================================
