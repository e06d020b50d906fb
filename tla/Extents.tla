------------------------------ MODULE Extents ------------------------------
(***************************************************************************)
(* What a sparse file cookie of libsparse is about: extents of an image.   *)
(* An extent places `len` bytes of some source at image block `block`.     *)
(* The unit the properties tell apart is the CELL, the content one image   *)
(* block receives; the bytes inside a cell are never looked at.            *)
(***************************************************************************)
EXTENDS Integers

CONSTANTS
  BlockSize,   \* block_size of the cookie, in bytes
  UIntMod,     \* number of values of the C type `unsigned int` (2^32)
  Blocks,      \* the image is made of the blocks 0 .. Blocks-1
  Srcs,        \* buffers, file names, descriptors and fill values
  Inputs,      \* the arguments of the sparse_file_add_* calls that are made
  NULL,        \* the null pointer
  Hole         \* the content of a block no extent covers

ASSUME SizesAssumption ==
  /\ BlockSize \in Nat \ {0}
  /\ UIntMod \in Nat \ {0}
  /\ Blocks \in Nat \ {0}

Types == {"data", "file", "fd", "fill"}

U(n) == n % UIntMod                    \* the value an unsigned int keeps

DivRoundUp(n, d) == U(n + d - 1) \div d

AlignDown(n, d) == d * (n \div d)

NBlocks(x) == DivRoundUp(x.len, BlockSize)

Covered(x) == x.block .. x.block + NBlocks(x) - 1

\* The content block b receives from extent x, which covers it: a fill is the
\* same everywhere, any other source is read at the offset that belongs to b.
\* The last block of x may hold fewer than BlockSize bytes.
CellOf(x, b) ==
  LET skipped == (b - x.block) * BlockSize
      left    == x.len - skipped
  IN [type  |-> x.type,
      src   |-> x.src,
      off   |-> IF x.type = "fill" THEN 0 ELSE x.off + skipped,
      bytes |-> IF left < BlockSize THEN left ELSE BlockSize]

UInt == 0 .. UIntMod-1

\* The arguments of a sparse_file_add_* call.
Requests == [type : Types, src : Srcs, off : Nat, len : UInt, block : UInt]

\* Not empty, and ends inside the image.
WellPlaced(x) == x.len > 0 /\ x.block * BlockSize + x.len =< Blocks * BlockSize

\* What callers respect; a fill has no offset into anything.
ASSUME InputsAssumption ==
  /\ Inputs \subseteq Requests
  /\ \A x \in Inputs : WellPlaced(x) /\ (x.type = "fill" => x.off = 0)
=============================================================================
