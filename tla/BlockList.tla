----------------------------- MODULE BlockList -----------------------------
(***************************************************************************)
(* One sparse file cookie while it is being filled: the backed block list  *)
(* of backed_block.c under the operations of its owner.  sparse_file_add_* *)
(* (sparse.c) queues an extent, sparse_file_resparse splits one in place.  *)
(* The user keeps the rule of sparse.h: a region is not added twice.       *)
(***************************************************************************)
EXTENDS BackedBlocks

CONSTANT MaxLens             \* the length limits backed_block_split is given

ASSUME SplitsAssumption == \A m \in MaxLens : m \in Nat /\ m >= BlockSize

VARIABLES
  bbl,                       \* the list: [list, last_used]
  status                     \* "aborted" once an assert of merge_bb failed

vars == <<bbl, status>>

Init == bbl = EmptyList /\ status = "ok"

Unused(x) == \A i \in DOMAIN bbl.list : Covered(bbl.list[i]) \cap Covered(x) = {}

\* sparse_file_add_data, _file, _fd and _fill: allocate a node and queue it.
Add(x, id) ==
  /\ status = "ok"
  /\ Unused(x)
  /\ id \notin Ids(bbl)
  /\ IF QueueAsserts(bbl, Node(x, id))
     THEN bbl' = Queue(bbl, Node(x, id)) /\ UNCHANGED status
     ELSE status' = "aborted" /\ UNCHANGED bbl

\* backed_block_split: cut the extent at i after max_len bytes.
SplitAt(i, max_len, id) ==
  /\ status = "ok"
  /\ id \notin Ids(bbl)
  /\ Splits(bbl, i, max_len)
  /\ bbl' = Split(bbl, i, max_len, id)
  /\ UNCHANGED status

Next ==
  \/ \E x \in Inputs, id \in Addr : Add(x, id)
  \/ \E i \in DOMAIN bbl.list, m \in MaxLens, id \in Addr : SplitAt(i, m, id)

Spec == Init /\ [][Next]_vars
-----------------------------------------------------------------------------
\* Every node is a node of the heap with fields of their C types.
TypeOK ==
  /\ bbl \in [list : Seq(Nodes), last_used : Addr \cup {NULL}]
  /\ status \in {"ok", "aborted"}

\* The list stays in ascending block order and no two extents overlap, whatever
\* the order of the additions, merges and splits: the count of chunks, the
\* writer and resparse traverse it once and rely on that.
Ordered == Ascending(bbl.list)

\* Every extent holds something and ends inside the image.
Placed == \A i \in DOMAIN bbl.list : WellPlaced(bbl.list[i])

\* The cached last_used never points to a node that merge_bb freed.
LastUsedLive == bbl.last_used # NULL => bbl.last_used \in Ids(bbl)

\* No order of legal additions makes assert(a->block < b->block) fail.
NeverAborts == status = "ok"

\* What the user sees: a map from blocks to contents, to which an addition
\* gives exactly the blocks of its region.  Merging and splitting are invisible.
Map == INSTANCE BlockMap WITH img <- ImageOf(bbl.list)

\* Every step of the list is a step of that map or none.
RefinesMap == Map!Spec
=============================================================================
