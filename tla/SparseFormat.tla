---------------------------- MODULE SparseFormat ----------------------------
(***************************************************************************)
(* The layout of an Android sparse file: a file header, then per extent a  *)
(* chunk with its header, a don't-care chunk for every gap, and a crc chunk *)
(* at the end when asked for.  And the bytes of an image: a byte is         *)
(* modelled by where it comes from; Hole stands for a zero byte nobody wrote. *)
(***************************************************************************)
EXTENDS BackedBlocks, Sums

CONSTANTS
  HeaderLen,                 \* sizeof(sparse_header_t)
  ChunkHeaderLen,            \* sizeof(chunk_header_t)
  WordLen                    \* sizeof(uint32_t): a fill value, the crc

ASSUME FormatAssumption ==
  {HeaderLen, ChunkHeaderLen} \subseteq Nat /\ WordLen \in Nat \ {0}

EndBlockFloor(x) ==                     \* mutant: rounds up by adding one
  x.block + x.len \div BlockSize + 1

EndBlock(x) == x.block + NBlocks(x)

\* last_block of the loops over a list, when they reach position i.
LastBlock(list, i) == IF i = 1 THEN 0 ELSE EndBlock(list[i-1])

Gap(list, i) == list[i].block > LastBlock(list, i)

EndGap(list) == LastBlock(list, Len(list) + 1) < Blocks

\* Mutant: the length is not rounded to blocks.
ChunkLenUnpadded(x) == ChunkHeaderLen + IF x.type = "fill" THEN WordLen ELSE x.len

\* What one extent takes (write_sparse_fill_chunk, write_sparse_data_chunk).
ChunkLen(x) ==
  ChunkHeaderLen + IF x.type = "fill" THEN WordLen ELSE BlockSize * NBlocks(x)

\* The same with the don't-care chunk in front of it.
StoredLen(list, i) == ChunkLen(list[i]) + IF Gap(list, i) THEN ChunkHeaderLen ELSE 0

\* What the loop of write_all_blocks writes.
ChunksLen(list) == Total([i \in 1 .. Len(list) |-> StoredLen(list, i)])

\* sparse_file_len of a cookie that holds the list, in the sparse format.
FileLen(list, crc) ==
  HeaderLen + ChunksLen(list)
    + (IF EndGap(list) THEN ChunkHeaderLen ELSE 0)
    + (IF crc THEN ChunkHeaderLen + WordLen ELSE 0)

\* Byte k of an extent, counted from 0; a fill word is four equal bytes.
ByteOf(x, k) == IF x.type = "fill" THEN <<x.type, x.src>> ELSE <<x.type, x.src, x.off + k>>

\* Byte k of the image a list describes, counted from 1.
ByteAt(list, k) ==
  LET Start(x) == x.block * BlockSize
      holders  == {x \in ToSet(list) : Start(x) < k /\ k =< Start(x) + x.len}
  IN IF holders = {} THEN Hole
     ELSE LET x == CHOOSE x \in holders : TRUE IN ByteOf(x, k - 1 - Start(x))

\* The bytes of the image of a cookie.
Image(s) == [k \in 1 .. s.len |-> ByteAt(s.list, k)]
=============================================================================
