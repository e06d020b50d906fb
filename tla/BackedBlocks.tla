---------------------------- MODULE BackedBlocks ----------------------------
(***************************************************************************)
(* backed_block.c: the singly linked list of extents behind a cookie.      *)
(*                                                                         *)
(* A list is the record [list, last_used].  `list` is the chain of nodes   *)
(* from data_blocks along next; a node carries the address `id` it was     *)
(* allocated at, so that the cached pointer last_used can be told apart    *)
(* from the node it should point to.  NULL is the null pointer.            *)
(***************************************************************************)
EXTENDS Extents, Sequences, SequencesExt

CONSTANT Addr                \* the addresses calloc can return

ASSUME NullIsNoAddress == NULL \notin Addr

Nodes == [id : Addr, type : Types, src : Srcs, off : Nat, len : UInt, block : UInt]

EmptyList == [list |-> <<>>, last_used |-> NULL]

Node(x, id) ==
  [id |-> id, type |-> x.type, src |-> x.src, off |-> x.off, len |-> x.len, block |-> x.block]

Ids(bbl) == {bbl.list[i].id : i \in DOMAIN bbl.list}

\* Mutant: the offsets of two pieces of a file are not compared.
MergeableAnyOffset(a, b) ==
  /\ a.type = b.type
  /\ U(a.block + a.len \div BlockSize) = b.block
  /\ a.type # "data"
  /\ a.src = b.src

\* merge_bb: b can be swallowed by its predecessor a.  The length of a is
\* rounded DOWN to blocks, and data blocks are never merged.
Mergeable(a, b) ==
  /\ a.type = b.type
  /\ U(a.block + a.len \div BlockSize) = b.block
  /\ a.type # "data"
  /\ a.src = b.src
  /\ a.type # "fill" => a.off + a.len = b.off

Merged(a, b) == [a EXCEPT !.len = U(a.len + b.len)]

\* merge_bb on the nodes at i and i+1, when both exist.
MergeAt(list, i) ==
  IF i < Len(list) /\ Mergeable(list[i], list[i+1])
  THEN RemoveAt([list EXCEPT ![i] = Merged(list[i], list[i+1])], i + 1)
  ELSE list

\* Mutant: the search starts at last_used wherever the new block belongs.
SearchFromCache(bbl, new) ==
  LET cached == {i \in DOMAIN bbl.list : bbl.list[i].id = bbl.last_used}
  IN IF cached # {} THEN CHOOSE i \in cached : TRUE ELSE 1

\* queue_bb: the search for the predecessor starts at last_used when the new
\* block lies behind it, at the head otherwise ...
SearchStart(bbl, new) ==
  LET cached == {i \in DOMAIN bbl.list :
                   bbl.list[i].id = bbl.last_used /\ new.block > bbl.list[i].block}
  IN IF cached # {} THEN CHOOSE i \in cached : TRUE ELSE 1

\* ... and stops at the first node whose successor is not below the new block.
Predecessor(bbl, new) ==
  CHOOSE i \in SearchStart(bbl, new) .. Len(bbl.list) :
    /\ i = Len(bbl.list) \/ bbl.list[i+1].block >= new.block
    /\ \A j \in SearchStart(bbl, new) .. i-1 : bbl.list[j+1].block < new.block

BeforeHead(bbl, new) == bbl.list = <<>> \/ bbl.list[1].block > new.block

\* Mutant: last_used is the new node even when that was merged away.
QueueAfterForgets(bbl, new) ==
  LET at == Predecessor(bbl, new)
  IN [list      |-> MergeAt(MergeAt(InsertAt(bbl.list, at + 1, new), at + 1), at),
      last_used |-> new.id]

QueueAfter(bbl, new) ==
  LET at      == Predecessor(bbl, new)
      forward == MergeAt(InsertAt(bbl.list, at + 1, new), at + 1)
  IN [list      |-> MergeAt(forward, at),
      last_used |-> IF Mergeable(forward[at], forward[at+1])
                    THEN forward[at].id
                    ELSE new.id]

\* A node that becomes the head is not merged and last_used keeps its value.
Queue(bbl, new) ==
  IF BeforeHead(bbl, new)
  THEN [bbl EXCEPT !.list = <<new>> \o @]
  ELSE QueueAfter(bbl, new)

\* The assert(a->block < b->block) of the two merge_bb calls of queue_bb.
QueueAsserts(bbl, new) ==
  \/ BeforeHead(bbl, new)
  \/ LET at == Predecessor(bbl, new)
     IN /\ at < Len(bbl.list) => new.block < bbl.list[at+1].block
        /\ bbl.list[at].block < new.block

\* backed_block_split of the node at i: max_len is rounded down to blocks, the
\* rest goes to a new node.  A node that is short enough stays whole.
SplitsAtEnd(bbl, i, max_len) ==         \* mutant: >= for >
  bbl.list[i].len >= AlignDown(max_len, BlockSize)

Splits(bbl, i, max_len) == bbl.list[i].len > AlignDown(max_len, BlockSize)

SplitHead(bb, max_len) == [bb EXCEPT !.len = AlignDown(max_len, BlockSize)]

\* Mutants: the cut is rounded up; the rest keeps the place or the offset.
RestRoundedUp(bb, max_len, id) ==
  LET keep == BlockSize * DivRoundUp(max_len, BlockSize)
  IN [bb EXCEPT !.id    = id,
                !.len   = bb.len - keep,
                !.block = U(bb.block + keep \div BlockSize),
                !.off   = IF bb.type = "fill" THEN @ ELSE @ + keep]

RestInPlace(bb, max_len, id) ==
  [RestRoundedUp(bb, AlignDown(max_len, BlockSize), id) EXCEPT !.block = bb.block]

RestSameOffset(bb, max_len, id) ==
  [RestRoundedUp(bb, AlignDown(max_len, BlockSize), id) EXCEPT !.off = bb.off]

SplitRest(bb, max_len, id) ==
  LET keep == AlignDown(max_len, BlockSize)
  IN [bb EXCEPT !.id    = id,
                !.len   = bb.len - keep,
                !.block = U(bb.block + keep \div BlockSize),
                !.off   = IF bb.type = "fill" THEN @ ELSE @ + keep]

Split(bbl, i, max_len, id) ==
  IF Splits(bbl, i, max_len)
  THEN LET bb    == bbl.list[i]
           heads == [bbl.list EXCEPT ![i] = SplitHead(bb, max_len)]
       IN [bbl EXCEPT !.list = InsertAt(heads, i + 1, SplitRest(bb, max_len, id))]
  ELSE bbl

\* The image a list stands for.
ImageOf(list) ==
  [b \in 0 .. Blocks-1 |->
     LET holders == {i \in DOMAIN list : b \in Covered(list[i])}
     IN IF holders = {} THEN Hole ELSE CellOf(list[CHOOSE i \in holders : TRUE], b)]

\* The order every traversal of the list relies on: ascending and disjoint.
Ascending(list) ==
  \A i, j \in DOMAIN list : i < j => list[i].block + NBlocks(list[i]) =< list[j].block

=============================================================================
