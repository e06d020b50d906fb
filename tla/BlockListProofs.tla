-------------------------- MODULE BlockListProofs --------------------------
(***************************************************************************)
(* What holds of BlockList for every image, block size and choice of       *)
(* inputs, as long as the length of the image in bytes fits the unsigned   *)
(* int that carries the length of an extent.                               *)
(***************************************************************************)
EXTENDS BlockList, BackedBlocksProofs

-----------------------------------------------------------------------------
(* The inductive invariant: all the safety invariants together.  Order     *)
(* needs placement (no wrap around), the assert needs order, and the cache *)
(* needs the search of queue_bb to end at a node of the list.              *)
IInv == TypeOK /\ Placed /\ Ordered /\ LastUsedLive /\ NeverAborts

LEMMA InitIInv == Init => IInv
<1> SUFFICES ASSUME Init PROVE IInv OBVIOUS
<1>1. bbl = [list |-> <<>>, last_used |-> NULL] /\ status = "ok"
  BY DEF Init, EmptyList
<1>2. <<>> \in Seq(Nodes) /\ DOMAIN bbl.list = {}
  BY <1>1
<1>3. TypeOK
  BY <1>1, <1>2 DEF TypeOK
<1> QED BY <1>1, <1>2, <1>3 DEF IInv, Placed, Ordered, Ascending, LastUsedLive, NeverAborts

LEMMA NextIInv == IInv /\ [Next]_vars => IInv'
<1> SUFFICES ASSUME IInv, [Next]_vars PROVE IInv' OBVIOUS
<1>1. /\ bbl \in [list : Seq(Nodes), last_used : Addr \cup {NULL}]
      /\ status = "ok" /\ GoodList(bbl.list)
      /\ bbl.last_used # NULL => bbl.last_used \in Ids(bbl)
  BY DEF IInv, TypeOK, Placed, Ordered, LastUsedLive, NeverAborts, GoodList
<1>2. ASSUME bbl' \in [list : Seq(Nodes), last_used : Addr \cup {NULL}],
             status' = "ok", GoodList(bbl'.list),
             bbl'.last_used # NULL => bbl'.last_used \in Ids(bbl')
      PROVE  IInv'
  <2>1. LastUsedLive'
    BY <1>2 DEF LastUsedLive, Ids
  <2> QED BY <1>2, <2>1 DEF IInv, TypeOK, Placed, Ordered, NeverAborts, GoodList
<1>3. ASSUME NEW x \in Inputs, NEW id \in Addr, Add(x, id) PROVE IInv'
  <2> DEFINE new == Node(x, id)
  <2>1. /\ x \in [type : Types, src : Srcs, off : Nat, len : UInt, block : UInt]
        /\ WellPlaced(x)
    BY InputsAssumption DEF Requests
  <2>2. new \in Nodes /\ new.len = x.len /\ new.block = x.block
    BY <2>1 DEF Node, Nodes
  <2>3. WellPlaced(new) /\ Covered(new) = Covered(x)
    BY <2>1, <2>2 DEF WellPlaced, Covered, NBlocks
  <2> HIDE DEF new
  <2>4. \A i \in DOMAIN bbl.list : Covered(bbl.list[i]) \cap Covered(new) = {}
    BY <1>3, <2>3 DEF Add, Unused
  <2>5. /\ QueueAsserts(bbl, new)
        /\ GoodList(Queue(bbl, new).list)
        /\ Queue(bbl, new) \in [list : Seq(Nodes), last_used : Addr \cup {NULL}]
        /\ Queue(bbl, new).last_used # NULL => Queue(bbl, new).last_used \in Ids(Queue(bbl, new))
    BY <1>1, <2>2, <2>3, <2>4, QueueFacts
  <2>6. bbl' = Queue(bbl, new) /\ status' = "ok"
    BY <1>1, <1>3, <2>5 DEF Add, new
  <2> QED BY <1>2, <2>5, <2>6
<1>4. ASSUME NEW i \in DOMAIN bbl.list, NEW m \in MaxLens, NEW id \in Addr, SplitAt(i, m, id)
      PROVE  IInv'
  <2> DEFINE next == Split(bbl, i, m, id)
  <2>1. m \in Nat /\ m >= BlockSize
    BY SplitsAssumption
  <2>2. /\ GoodList(next.list)
        /\ next \in [list : Seq(Nodes), last_used : Addr \cup {NULL}]
        /\ next.last_used # NULL => next.last_used \in Ids(next)
    BY <1>1, <2>1, SplitFacts
  <2>3. bbl' = next /\ status' = "ok"
    BY <1>1, <1>4 DEF SplitAt
  <2> QED BY <1>2, <2>2, <2>3
<1>5. CASE UNCHANGED vars
  BY <1>1, <1>2, <1>5 DEF vars
<1> QED BY <1>3, <1>4, <1>5 DEF Next

(* The invariant holds in every reachable state.                           *)
THEOREM Invariance == Spec => []IInv
BY InitIInv, NextIInv, PTL DEF Spec

(* The heap keeps its shape: nodes of C-typed fields, one cached pointer.  *)
THEOREM TypeCorrect == Spec => []TypeOK
<1>1. IInv => TypeOK BY DEF IInv
<1> QED BY <1>1, Invariance, PTL

(* The list of backed_block.c stays in ascending order without overlap     *)
(* under any sequence of additions, merges and splits.                     *)
THEOREM AlwaysOrdered == Spec => []Ordered
<1>1. IInv => Ordered BY DEF IInv
<1> QED BY <1>1, Invariance, PTL

(* No merge or split makes an extent empty or moves its end out of the     *)
(* image.                                                                  *)
THEOREM AlwaysPlaced == Spec => []Placed
<1>1. IInv => Placed BY DEF IInv
<1> QED BY <1>1, Invariance, PTL

(* The cached pointer last_used is never left on a node merge_bb freed.    *)
THEOREM LastUsedAlwaysLive == Spec => []LastUsedLive
<1>1. IInv => LastUsedLive BY DEF IInv
<1> QED BY <1>1, Invariance, PTL

(* The assert of merge_bb holds for every user who adds no region twice.   *)
THEOREM AssertHolds == Spec => []NeverAborts
<1>1. IInv => NeverAborts BY DEF IInv
<1> QED BY <1>1, Invariance, PTL

-----------------------------------------------------------------------------
(* The list implements the map from blocks to contents.                    *)

LEMMA AddImage ==
  ASSUME IInv, NEW x \in Inputs, NEW id \in Addr, Add(x, id)
  PROVE  Map!Put(x)
<1> DEFINE new == Node(x, id)
<1>1. GoodList(bbl.list) /\ status = "ok"
  BY DEF IInv, TypeOK, Placed, Ordered, NeverAborts, GoodList
<1>2. /\ x \in [type : Types, src : Srcs, off : Nat, len : UInt, block : UInt]
      /\ WellPlaced(x)
  BY InputsAssumption DEF Requests
<1>3. new \in Nodes /\ new.len = x.len /\ new.block = x.block
  BY <1>2 DEF Node, Nodes
<1>4. new.type = x.type /\ new.src = x.src /\ new.off = x.off
  BY <1>2 DEF Node
<1>5. WellPlaced(new) /\ Covered(new) = Covered(x)
  BY <1>2, <1>3 DEF WellPlaced, Covered, NBlocks
<1> HIDE DEF new
<1>6. \A b : CellOf(new, b) = CellOf(x, b)
  BY <1>3, <1>4 DEF CellOf
<1>7. \A i \in DOMAIN bbl.list : Covered(bbl.list[i]) \cap Covered(new) = {}
  BY <1>5 DEF Add, Unused
<1>8. QueueAsserts(bbl, new) /\ GoodList(Queue(bbl, new).list)
  <2>1. /\ bbl \in [list : Seq(Nodes), last_used : Addr \cup {NULL}]
        /\ bbl.last_used # NULL => bbl.last_used \in Ids(bbl)
    BY DEF IInv, TypeOK, LastUsedLive
  <2> QED BY <1>1, <1>3, <1>5, <1>7, <2>1, QueueFacts
<1>9. bbl' = Queue(bbl, new)
  BY <1>8 DEF Add, new
<1>10. /\ \A b \in Covered(new) : ImageOf(bbl.list)[b] = Hole
       /\ ImageOf(Queue(bbl, new).list) =
            [b \in 0 .. Blocks-1 |->
               IF b \in Covered(new) THEN CellOf(new, b) ELSE ImageOf(bbl.list)[b]]
  BY <1>1, <1>3, <1>5, <1>7, <1>8, QueueImage
<1>11. ImageOf(bbl'.list) =
         [b \in 0 .. Blocks-1 |->
            IF b \in Covered(x) THEN CellOf(x, b) ELSE ImageOf(bbl.list)[b]]
  BY <1>5, <1>6, <1>9, <1>10
<1>12. Map!Covered(x) = Covered(x) /\ \A b : Map!CellOf(x, b) = CellOf(x, b)
  BY DEF Map!Covered, Map!NBlocks, Map!DivRoundUp, Map!U, Map!CellOf,
         Covered, NBlocks, DivRoundUp, U, CellOf
<1> QED BY <1>5, <1>10, <1>11, <1>12 DEF Map!Put

LEMMA SplitKeepsImage ==
  ASSUME IInv, IInv', NEW i \in DOMAIN bbl.list, NEW m \in MaxLens, NEW id \in Addr, SplitAt(i, m, id)
  PROVE  ImageOf(bbl.list)' = ImageOf(bbl.list)
<1> DEFINE next == Split(bbl, i, m, id)
<1>1. /\ bbl \in [list : Seq(Nodes), last_used : Addr \cup {NULL}]
      /\ GoodList(bbl.list) /\ GoodList(bbl'.list)
  BY DEF IInv, TypeOK, Placed, Ordered, GoodList
<1>2. m \in Nat /\ bbl' = next
  BY SplitsAssumption DEF SplitAt
<1>3. GoodList(next.list)
  BY <1>1, <1>2
<1>4. ImageOf(next.list) = ImageOf(bbl.list)
  BY <1>1, <1>2, <1>3, SplitImage
<1> QED BY <1>2, <1>4

(* The list of backed_block.c, with its cached pointer, merges and splits, *)
(* implements a map from image blocks to contents in which an addition     *)
(* fills the blocks of its region and changes no other: every step of the  *)
(* list is a step of the map or leaves the map as it is.                   *)
THEOREM ImplementsMap == Spec => RefinesMap
<1>1. Init => Map!Init
  <2> SUFFICES ASSUME Init PROVE ImageOf(bbl.list) = [b \in 0 .. Blocks-1 |-> Hole]
    BY DEF Map!Init
  <2>1. DOMAIN bbl.list = {}
    BY DEF Init, EmptyList
  <2> QED BY <2>1 DEF ImageOf
<1>2. IInv /\ IInv' /\ [Next]_vars => [Map!Next]_(ImageOf(bbl.list))
  <2> SUFFICES ASSUME IInv, IInv', [Next]_vars
               PROVE  Map!Next \/ ImageOf(bbl.list)' = ImageOf(bbl.list)
    OBVIOUS
  <2>1. ASSUME NEW x \in Inputs, NEW id \in Addr, Add(x, id) PROVE Map!Next
    BY <2>1, AddImage DEF Map!Next
  <2>2. ASSUME NEW i \in DOMAIN bbl.list, NEW m \in MaxLens, NEW id \in Addr, SplitAt(i, m, id)
        PROVE  ImageOf(bbl.list)' = ImageOf(bbl.list)
    BY <2>2, SplitKeepsImage
  <2>3. CASE UNCHANGED vars
    BY <2>3 DEF vars
  <2> QED BY <2>1, <2>2, <2>3 DEF Next
<1> QED BY <1>1, <1>2, Invariance, PTL DEF Spec, RefinesMap, Map!Spec
=============================================================================
