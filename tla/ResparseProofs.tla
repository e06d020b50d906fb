--------------------------- MODULE ResparseProofs ---------------------------
(***************************************************************************)
(* What holds of sparse_file_resparse for every image and every size       *)
(* limit, also when mappings and splits fail: the lists keep their shape,  *)
(* and none is left with a cached pointer to an extent that is in another. *)
(* With room for eight blocks in a file no extent is empty.                *)
(*                                                                         *)
(* The second part is about the files that are handed out.  Nothing is     *)
(* lost: whatever was handed out, put aside or given back, and whichever   *)
(* mapping or split failed, they together hold every block of the image    *)
(* once; without a failed mapping, in the order of the image.  As long as  *)
(* no split fails none of them is as long as max_len, and all but the last *)
(* use seven eighths of the room for chunks.                               *)
(*                                                                         *)
(* The last part is about the two passes: where the first one ends its     *)
(* files the second one does, so it returns as many, and leaves nothing.   *)
(***************************************************************************)
EXTENDS Resparse, BackedBlocksProofs

\* What the comment at sparse.c:316 takes for granted.
RoomForEightBlocks ==
  /\ ChunkHeaderLen =< 7 * BlockSize
  /\ \A m \in MaxLens : m >= HeaderLen + 2 * ChunkHeaderLen + WordLen + 8 * BlockSize

-----------------------------------------------------------------------------
(* The invariant.                                                          *)

\* An extent, not empty when there is room.
Bits == {x \in Nodes : RoomForEightBlocks => x.len > 0}

\* A list, and its cached pointer.
Heaps ==
  {l \in [list : Seq(Bits), last_used : Addr \cup {NULL}] : l.last_used # NULL => l.last_used \in Ids(l)}

ListsGood == in_s \in Heaps /\ tmp \in Heaps /\ out_s \in Seq(Heaps)

CountsGood ==
  /\ out_s_count \in Nat /\ c \in Nat /\ files \in Nat \cup {-1}
  /\ max_len \in MaxLens /\ done \in BOOLEAN
  /\ faults \in Seq({"map", "split"}) /\ Len(faults) =< MaxFaults

\* Nothing is counted for a file that is empty.
ScanGood ==
  /\ scan.bb \in Nat /\ scan.last \in Nat /\ scan.file_len \in Nat
  /\ scan.last < scan.bb /\ scan.bb =< Len(in_s.list) + 1
  /\ scan.last = 0 => scan.file_len = 0

IInv == ListsGood /\ CountsGood /\ ScanGood

LEMMA HeapFacts ==
  ASSUME NEW l \in Heaps
  PROVE  /\ l \in [list : Seq(Bits), last_used : Addr \cup {NULL}]
         /\ l.list \in Seq(Bits) /\ Len(l.list) \in Nat /\ DOMAIN l.list = 1 .. Len(l.list)
         /\ \A i \in 1 .. Len(l.list) :
              /\ l.list[i] \in Bits /\ l.list[i] \in Nodes
              /\ l.list[i].block \in Nat /\ l.list[i].len \in Nat
<1>1. l \in [list : Seq(Bits), last_used : Addr \cup {NULL}]
  BY DEF Heaps
<1>2. l.list \in Seq(Bits) /\ Len(l.list) \in Nat /\ DOMAIN l.list = 1 .. Len(l.list)
  BY <1>1, LenProperties
<1>3. ASSUME NEW i \in 1 .. Len(l.list)
      PROVE  /\ l.list[i] \in Bits /\ l.list[i] \in Nodes
             /\ l.list[i].block \in Nat /\ l.list[i].len \in Nat
  <2>1. l.list[i] \in Bits
    BY <1>2, ElementOfSeq
  <2>2. l.list[i] \in Nodes
    BY <2>1 DEF Bits
  <2>3. UInt \subseteq Nat
    BY SizesAssumption DEF UInt
  <2> QED BY <2>1, <2>2, <2>3 DEF Nodes
<1> QED BY <1>1, <1>2, <1>3

(* A list whose cached pointer is NULL, as a move leaves it.               *)
LEMMA UncachedHeap ==
  ASSUME NEW s \in Seq(Bits)
  PROVE  [list |-> s, last_used |-> NULL] \in Heaps
BY DEF Heaps
-----------------------------------------------------------------------------
(* Moves from one list to another.                                         *)

LEMMA InsertAfterFacts ==
  ASSUME NEW list \in Seq(Bits), list # <<>>, NEW chain \in Seq(Bits), chain # <<>>
  PROVE  LET i == InsertAfter(list, chain)
         IN i \in 1 .. Len(list) /\ (i = Len(list) \/ list[i+1].block > chain[1].block)
<1> DEFINE n == Len(list)
           Stops(i) == i = n \/ list[i+1].block > chain[1].block
           T == {i \in 1 .. n : Stops(i)}
<1>1. n \in Nat \ {0} /\ \A i \in 1 .. n : list[i].block \in Nat
  <2>1. n \in Nat /\ n # 0
    BY LenProperties, EmptySeq
  <2>2. ASSUME NEW i \in 1 .. n PROVE list[i].block \in Nat
    <3>1. list[i] \in Nodes
      BY <2>2, ElementOfSeq DEF Bits
    <3> QED BY <3>1, SizesAssumption DEF Nodes, UInt
  <2> QED BY <2>1, <2>2
<1>2. chain[1].block \in Nat
  <2>1. 1 \in 1 .. Len(chain)
    BY LenProperties, EmptySeq
  <2>2. chain[1] \in Nodes
    BY <2>1, ElementOfSeq DEF Bits
  <2> QED BY <2>2, SizesAssumption DEF Nodes, UInt
<1>3. T \in SUBSET Nat /\ n \in T
  BY <1>1
<1>4. PICK m \in T : \A k \in T : m =< k
  <2> HIDE DEF T
  <2> QED BY <1>3, LeastElement
<1>5. m \in 1 .. n /\ Stops(m)
  BY <1>4
<1>6. ASSUME NEW j \in 1 .. m-1 PROVE list[j+1].block =< chain[1].block
  <2>1. j \in 1 .. n /\ j+1 \in 1 .. n /\ j < m
    BY <1>1, <1>5
  <2>2. j \notin T
    BY <1>1, <1>4, <1>5, <2>1
  <2>3. ~ (list[j+1].block > chain[1].block)
    BY <2>1, <2>2
  <2>4. list[j+1].block \in Nat
    BY <1>1, <2>1
  <2> QED BY <1>2, <2>3, <2>4
<1>7. \E i \in 1 .. n : /\ i = n \/ list[i+1].block > chain[1].block
                        /\ \A j \in 1 .. i-1 : list[j+1].block =< chain[1].block
  BY <1>5, <1>6
<1> QED BY <1>7 DEF InsertAfter

LEMMA MoveToGood ==
  ASSUME NEW to \in Heaps, NEW chain \in Seq(Bits)
  PROVE  MoveTo(to, chain) \in Heaps
<1>1. CASE chain = <<>>
  BY <1>1 DEF MoveTo
<1>2. CASE chain # <<>> /\ to.list = <<>>
  <2>1. MoveTo(to, chain) = [list |-> chain, last_used |-> NULL]
    BY <1>2 DEF MoveTo
  <2> QED BY <2>1, UncachedHeap
<1>3. CASE chain # <<>> /\ to.list # <<>>
  <2> DEFINE list == to.list
             i    == InsertAfter(list, chain)
             s    == SubSeq(list, 1, i) \o chain \o SubSeq(list, i+1, Len(list))
  <2>1. list \in Seq(Bits) /\ Len(list) \in Nat
    BY HeapFacts
  <2>2. i \in 1 .. Len(list)
    BY <1>3, <2>1, InsertAfterFacts
  <2>3. MoveTo(to, chain) = [list |-> s, last_used |-> NULL]
    BY <1>3 DEF MoveTo
  <2> HIDE DEF list, i
  <2>4. SubSeq(list, 1, i) \in Seq(Bits)
    <3> DEFINE k == i + 1
    <3>1. k \in 1 .. Len(list) + 1 /\ k - 1 = i
      BY <2>1, <2>2
    <3> HIDE DEF k
    <3>2. SubSeq(list, 1, k-1) \in Seq(Bits)
      BY <2>1, <3>1, FrontProperties
    <3> QED BY <3>1, <3>2
  <2>5. SubSeq(list, i+1, Len(list)) \in Seq(Bits)
    <3> DEFINE k == i + 1
    <3>1. k \in 1 .. Len(list) + 1
      BY <2>1, <2>2
    <3> HIDE DEF k
    <3>2. SubSeq(list, k, Len(list)) \in Seq(Bits)
      BY <2>1, <3>1, BackProperties
    <3> QED BY <3>2 DEF k
  <2>6. s \in Seq(Bits)
    <3>1. SubSeq(list, 1, i) \o chain \in Seq(Bits)
      BY <2>4, ConcatProperties
    <3> QED BY <2>5, <3>1, ConcatProperties
  <2> HIDE DEF s
  <2> QED BY <2>3, <2>6, UncachedHeap
<1> QED BY <1>1, <1>2, <1>3

LEMMA MoveFromGood ==
  ASSUME NEW from \in Heaps, NEW n \in 0 .. Len(from.list)
  PROVE  SubSeq(from.list, 1, n) \in Seq(Bits) /\ MoveFrom(from, n) \in Heaps
<1> DEFINE list == from.list
           k    == n + 1
<1>1. list \in Seq(Bits) /\ Len(list) \in Nat
  BY HeapFacts
<1>2. k \in 1 .. Len(list) + 1 /\ k - 1 = n
  BY <1>1
<1>3. SubSeq(list, 1, k-1) \in Seq(Bits) /\ SubSeq(list, k, Len(list)) \in Seq(Bits)
  <2> HIDE DEF k, list
  <2> QED BY <1>1, <1>2, FrontProperties, BackProperties
<1>4. MoveFrom(from, n) = IF n = 0 THEN from ELSE [list |-> SubSeq(list, k, Len(list)), last_used |-> NULL]
  BY DEF MoveFrom
<1>5. MoveFrom(from, n) \in Heaps
  <2>1. [list |-> SubSeq(list, k, Len(list)), last_used |-> NULL] \in Heaps
    BY <1>3, UncachedHeap
  <2> QED BY <1>4, <2>1
<1>6. SubSeq(from.list, 1, n) = SubSeq(list, 1, k-1)
  BY <1>2
<1> QED BY <1>3, <1>5, <1>6
-----------------------------------------------------------------------------
(* The split.                                                              *)

LEMMA SplitBits ==
  ASSUME NEW bb \in Bits, NEW id \in Addr, NEW m \in Nat,
         RoomForEightBlocks => m >= BlockSize, bb.len > AlignDown(m, BlockSize)
  PROVE  /\ SplitHead(bb, m) \in Bits /\ SplitHead(bb, m).id = bb.id
         /\ SplitRest(bb, m, id) \in Bits
<1> DEFINE keep == AlignDown(m, BlockSize)
           at   == U(bb.block + keep \div BlockSize)
           off  == IF bb.type = "fill" THEN bb.off ELSE bb.off + keep
<1>1. BlockSize \in Nat \ {0} /\ UIntMod \in Nat \ {0}
  BY SizesAssumption
<1>2. bb \in [id : Addr, type : Types, src : Srcs, off : Nat, len : UInt, block : UInt]
  BY DEF Bits, Nodes
<1>3. bb.len \in 0 .. UIntMod-1 /\ bb.block \in Nat
  BY <1>1, <1>2 DEF UInt
<1>4. keep \in Nat /\ (RoomForEightBlocks => keep > 0)
  <2> DEFINE q == m \div BlockSize
  <2>1. q \in Nat /\ BlockSize * q =< m /\ m < BlockSize * q + BlockSize
    BY <1>1, DivFacts
  <2>2. keep = BlockSize * q
    BY DEF AlignDown
  <2> HIDE DEF q, keep
  <2>3. keep \in Nat
    BY <1>1, <2>1, <2>2
  <2>4. m >= BlockSize => keep # 0
    BY <1>1, <2>1, <2>2
  <2> QED BY <2>3, <2>4
<1>5. at \in UInt
  <2> DEFINE q == keep \div BlockSize
  <2>1. q \in Nat
    BY <1>1, <1>4, DivFacts
  <2> HIDE DEF q
  <2>2. U(bb.block + q) \in UInt
    BY <1>1, <1>3, <2>1 DEF U, UInt
  <2> QED BY <2>2 DEF q
<1>6. off \in Nat
  BY <1>2, <1>4
<1>7. keep < bb.len
  OBVIOUS
<1>8. SplitHead(bb, m) = [bb EXCEPT !.len = keep]
  BY DEF SplitHead
<1>9. SplitRest(bb, m, id) = [bb EXCEPT !.id = id, !.len = bb.len - keep, !.block = at, !.off = off]
  BY <1>2 DEF SplitRest
<1> HIDE DEF keep, at, off
<1>10. /\ keep \in UInt /\ bb.len - keep \in UInt
       /\ bb.len - keep > 0
  BY <1>1, <1>3, <1>4, <1>7 DEF UInt
<1>11. SplitHead(bb, m) \in Bits /\ SplitHead(bb, m).id = bb.id
  BY <1>2, <1>4, <1>8, <1>10 DEF Bits, Nodes
<1>12. SplitRest(bb, m, id) \in Bits
  <2>1. SplitRest(bb, m, id) \in Nodes /\ SplitRest(bb, m, id).len = bb.len - keep
    BY <1>2, <1>5, <1>6, <1>9, <1>10 DEF Nodes
  <2> QED BY <1>10, <2>1 DEF Bits
<1> QED BY <1>11, <1>12

(* A split takes no address away: last_used still points into the list.    *)
LEMMA SplitGood ==
  ASSUME NEW l \in Heaps, NEW i \in 1 .. Len(l.list), NEW id \in Addr,
         NEW m \in Nat, RoomForEightBlocks => m >= BlockSize
  PROVE  /\ Split(l, i, m, id) \in Heaps
         /\ Len(Split(l, i, m, id).list) \in Nat
         /\ Len(l.list) =< Len(Split(l, i, m, id).list)
<1> DEFINE list == l.list
           n    == Len(list)
           bb   == list[i]
           p    == i + 1
<1>1. /\ l \in [list : Seq(Bits), last_used : Addr \cup {NULL}]
      /\ list \in Seq(Bits) /\ n \in Nat /\ DOMAIN list = 1 .. n /\ bb \in Bits
      /\ l.last_used # NULL => l.last_used \in Ids(l)
  <2>1. l.last_used # NULL => l.last_used \in Ids(l)
    BY DEF Heaps
  <2> QED BY <2>1, HeapFacts
<1>2. CASE ~ Splits(l, i, m)
  BY <1>1, <1>2 DEF Split
<1>3. CASE Splits(l, i, m)
  <2> DEFINE head == SplitHead(bb, m)
             rest == SplitRest(bb, m, id)
             hs   == [list EXCEPT ![i] = head]
             s    == InsertAt(hs, p, rest)
  <2>1. head \in Bits /\ head.id = bb.id /\ rest \in Bits
    <3>1. bb.len > AlignDown(m, BlockSize)
      BY <1>3 DEF Splits
    <3> HIDE DEF bb
    <3> QED BY <1>1, <3>1, SplitBits
  <2>2. Split(l, i, m, id) = [l EXCEPT !.list = s]
    BY <1>3 DEF Split
  <2> HIDE DEF head, rest
  <2>3. hs \in Seq(Bits) /\ Len(hs) = n /\ \A j \in 1 .. n : hs[j] = IF j = i THEN head ELSE list[j]
    BY <1>1, <2>1, ExceptSeq
  <2>4. p \in 1 .. Len(hs) + 1 /\ p \in 2 .. n + 1
    BY <1>1, <2>3
  <2> HIDE DEF hs
  <2>5. /\ s \in Seq(Bits) /\ Len(s) = n + 1
        /\ \A j \in 1 .. p - 1 : s[j] = hs[j]
        /\ \A j \in p .. n : s[j + 1] = hs[j]
    <3>1. n \in Nat /\ Len(hs) = n
      BY <1>1, <2>3
    <3> HIDE DEF p, n
    <3>2. hs \in Seq(Bits) /\ p \in 1 .. Len(hs) + 1 /\ rest \in Bits
      BY <2>1, <2>3, <2>4
    <3>3. s \in Seq(Bits) /\ Len(s) = Len(hs) + 1
      BY <3>2, InsertAtElements
    <3>4. /\ \A j \in 1 .. p - 1 : s[j] = hs[j]
          /\ \A j \in p .. Len(hs) : s[j + 1] = hs[j]
      BY <3>2, InsertAtElements
    <3> QED BY <3>1, <3>3, <3>4
  <2>6. DOMAIN s = 1 .. n + 1
    BY <2>5, LenProperties
  <2> HIDE DEF s, p
  <2>7. Split(l, i, m, id) = [list |-> s, last_used |-> l.last_used]
    BY <1>1, <2>2
  <2>8. \A j \in 1 .. n : \E k \in 1 .. n + 1 : s[k].id = list[j].id
    <3> SUFFICES ASSUME NEW j \in 1 .. n
                 PROVE  \E k \in 1 .. n + 1 : s[k].id = list[j].id
      OBVIOUS
    <3>1. hs[j].id = list[j].id
      BY <2>1, <2>3
    <3> HIDE DEF n, list
    <3>2. j \in 1 .. n + 1 /\ j + 1 \in 1 .. n + 1 /\ (j \in 1 .. p - 1 \/ j \in p .. n)
      BY <1>1, <2>4
    <3>3. s[j] = hs[j] \/ s[j + 1] = hs[j]
      BY <2>5, <3>2
    <3> QED BY <3>1, <3>2, <3>3
  <2>9. Ids(l) \subseteq Ids([list |-> s, last_used |-> l.last_used])
    BY <1>1, <2>6, <2>8 DEF Ids
  <2>10. [list |-> s, last_used |-> l.last_used] \in Heaps
    BY <1>1, <2>5, <2>9 DEF Heaps
  <2> QED BY <1>1, <2>5, <2>7, <2>10
<1> QED BY <1>2, <1>3
-----------------------------------------------------------------------------
(* The steps.                                                              *)

LEMMA InitIInv == Init => IInv
<1> SUFFICES ASSUME Init PROVE IInv OBVIOUS
<1>1. PICK list \in Images :
        in_s \in [list : {list}, last_used : {list[i].id : i \in DOMAIN list} \cup {NULL}]
  BY DEF Init
<1>2. list \in Seq(Nodes) /\ \A i \in DOMAIN list : WellPlaced(list[i])
  BY ResparseAssumption
<1>3. Len(list) \in Nat /\ DOMAIN list = 1 .. Len(list)
      /\ \A i \in 1 .. Len(list) : list[i] \in Nodes /\ list[i].id \in Addr
  <2>1. Len(list) \in Nat /\ DOMAIN list = 1 .. Len(list)
    BY <1>2, LenProperties
  <2>2. \A i \in 1 .. Len(list) : list[i] \in Nodes
    BY <1>2, ElementOfSeq
  <2> QED BY <2>1, <2>2 DEF Nodes
<1>4. list \in Seq(Bits)
  <2>1. \A i \in 1 .. Len(list) : list[i] \in Bits
    BY <1>2, <1>3 DEF WellPlaced, Bits
  <2>2. list \in [1 .. Len(list) -> Nodes]
    BY <1>2, LenProperties
  <2>3. list \in [1 .. Len(list) -> Bits]
    BY <2>1, <2>2
  <2> QED BY <1>3, <2>3, SeqDef
<1>5. in_s \in Heaps
  <2>1. in_s.list = list /\ (in_s.last_used # NULL => in_s.last_used \in Ids(in_s))
    BY <1>1, <1>3 DEF Ids
  <2>2. in_s \in [list : Seq(Bits), last_used : Addr \cup {NULL}]
    BY <1>1, <1>3, <1>4
  <2> QED BY <2>1, <2>2 DEF Heaps
<1>6. <<>> \in Seq(Bits) /\ <<>> \in Seq(Heaps) /\ <<>> \in Seq({"map", "split"}) /\ Len(<<>>) = 0
  OBVIOUS
<1>7. tmp \in Heaps /\ out_s = <<>>
  BY <1>6, UncachedHeap DEF Init, EmptyList
<1>8. ListsGood
  BY <1>5, <1>6, <1>7 DEF ListsGood
<1>9. CountsGood
  <2>1. faults \in Seq({"map", "split"}) /\ Len(faults) = 0
    BY <1>6 DEF Init
  <2>2. Len(faults) =< MaxFaults
    BY <2>1, ResparseAssumption
  <2> QED BY <2>1, <2>2 DEF Init, CountsGood
<1>10. ScanGood
  <2>1. Len(in_s.list) \in Nat
    BY <1>5, HeapFacts
  <2> QED BY <2>1 DEF Init, ScanStart, ScanGood
<1> QED BY <1>8, <1>9, <1>10 DEF IInv

\* What FinishFile leaves to the step that calls it.
FaultsGood == faults \in Seq({"map", "split"}) /\ Len(faults) =< MaxFaults

(* The end of a file, whatever was moved to it.                            *)
LEMMA FinishGood ==
  ASSUME IInv, NEW from \in Heaps, NEW n \in 0 .. Len(from.list), NEW more \in BOOLEAN,
         FinishFile(from, n, more), FaultsGood'
  PROVE  IInv'
<1> DEFINE chain == SubSeq(from.list, 1, n)
           rest  == MoveFrom(from, n)
           kept  == IF HasRoom THEN tmp ELSE MoveTo(tmp, chain)
<1>1. /\ in_s \in Heaps /\ tmp \in Heaps /\ out_s \in Seq(Heaps)
      /\ out_s_count \in Nat /\ c \in Nat /\ files \in Nat \cup {-1}
      /\ max_len \in MaxLens /\ done \in BOOLEAN
  BY DEF IInv, ListsGood, CountsGood
<1>2. chain \in Seq(Bits) /\ rest \in Heaps
  BY MoveFromGood
<1>3. EmptyList \in Heaps
  <2>1. <<>> \in Seq(Bits) OBVIOUS
  <2> QED BY <2>1, UncachedHeap DEF EmptyList
<1>4. kept \in Heaps /\ MoveTo(EmptyList, chain) \in Heaps
  BY <1>1, <1>2, <1>3, MoveToGood
<1>5. kept.list \in Seq(Bits)
  BY <1>4, HeapFacts
<1>6. MoveTo(rest, kept.list) \in Heaps
  BY <1>2, <1>5, MoveToGood
<1>7. /\ out_s' = IF HasRoom THEN Append(out_s, MoveTo(EmptyList, chain)) ELSE out_s
      /\ scan' = ScanStart
      /\ IF more
         THEN /\ in_s' = rest /\ tmp' = kept /\ c' = c + 1
              /\ UNCHANGED <<files, out_s_count, done>>
         ELSE /\ in_s' = MoveTo(rest, kept.list) /\ tmp' = EmptyList
              /\ IF files = -1
                 THEN files' = c + 1 /\ out_s_count' = c + 1 /\ c' = 0 /\ UNCHANGED done
                 ELSE c' = c + 1 /\ done' = TRUE /\ UNCHANGED <<files, out_s_count>>
      /\ UNCHANGED <<max_len, origin>>
  BY DEF FinishFile
<1> HIDE DEF chain, rest, kept
<1>8. out_s' \in Seq(Heaps)
  <2>1. Append(out_s, MoveTo(EmptyList, chain)) \in Seq(Heaps)
    BY <1>1, <1>4, AppendProperties
  <2> QED BY <1>1, <1>7, <2>1
<1>9. in_s' \in Heaps /\ tmp' \in Heaps
  BY <1>2, <1>3, <1>4, <1>6, <1>7
<1>10. CountsGood'
  <2>1. c + 1 \in Nat /\ 0 \in Nat
    BY <1>1
  <2>2. out_s_count' \in Nat /\ c' \in Nat /\ files' \in Nat \cup {-1}
    BY <1>1, <1>7, <2>1
  <2>3. done' = done \/ done' = TRUE
    BY <1>7
  <2>4. max_len' \in MaxLens /\ done' \in BOOLEAN
    BY <1>1, <1>7, <2>3
  <2> QED BY <2>2, <2>4 DEF CountsGood, FaultsGood
<1>11. ScanGood'
  <2>1. Len(in_s'.list) \in Nat
    BY <1>9, HeapFacts
  <2> QED BY <1>7, <2>1 DEF ScanGood, ScanStart
<1> QED BY <1>8, <1>9, <1>10, <1>11 DEF IInv, ListsGood

(* The room for the chunks of a file, of eight blocks or more.             *)
LEMMA RoomFacts ==
  ASSUME IInv
  PROVE  /\ Room \in 0 .. UIntMod-1
         /\ RoomForEightBlocks =>
              /\ Room = max_len - (HeaderLen + (2 * ChunkHeaderLen + WordLen))
              /\ Room >= 8 * BlockSize /\ ChunkHeaderLen =< 7 * BlockSize
<1>1. /\ BlockSize \in Nat \ {0} /\ UIntMod \in Nat \ {0}
      /\ HeaderLen \in Nat /\ ChunkHeaderLen \in Nat /\ WordLen \in Nat
  BY SizesAssumption, FormatAssumption
<1>2. max_len \in MaxLens /\ max_len \in 0 .. UIntMod-1
  BY ResparseAssumption DEF IInv, CountsGood, UInt
<1> DEFINE over == HeaderLen + (2 * ChunkHeaderLen + WordLen)
<1>3. over \in Nat /\ Room = (max_len - over) % UIntMod
  BY <1>1 DEF Room, U
<1>4. ASSUME RoomForEightBlocks
      PROVE  Room = max_len - over /\ Room >= 8 * BlockSize /\ ChunkHeaderLen =< 7 * BlockSize
  <2>1. max_len >= over + 8 * BlockSize /\ ChunkHeaderLen =< 7 * BlockSize
    BY <1>1, <1>2, <1>4 DEF RoomForEightBlocks
  <2> HIDE DEF over
  <2>2. max_len - over \in 0 .. UIntMod-1 /\ max_len - over >= 8 * BlockSize
    BY <1>1, <1>2, <1>3, <2>1
  <2>3. (max_len - over) % UIntMod = max_len - over
    BY <1>1, <2>2
  <2> QED BY <1>3, <2>1, <2>2, <2>3
<1> HIDE DEF over
<1>5. Room \in 0 .. UIntMod-1
  BY <1>1, <1>2, <1>3
<1> QED BY <1>4, <1>5 DEF over

(* The lengths that are counted are numbers, and what is left of a file    *)
(* that has to be split is a block or more.                                *)
LEMMA CountFacts ==
  ASSUME IInv, Looking
  PROVE  /\ Count \in Nat /\ Left \in Int /\ U(Left) \in Nat
         /\ MustSplit /\ RoomForEightBlocks => U(Left) = Left /\ U(Left) >= BlockSize
<1>1. /\ BlockSize \in Nat \ {0} /\ UIntMod \in Nat \ {0}
      /\ HeaderLen \in Nat /\ ChunkHeaderLen \in Nat /\ WordLen \in Nat
  BY SizesAssumption, FormatAssumption
<1>2. Room \in 0 .. UIntMod-1
  BY RoomFacts
<1>3. /\ scan.bb \in 1 .. Len(in_s.list) /\ scan.last \in Nat /\ scan.file_len \in Nat
      /\ scan.last = 0 => scan.file_len = 0
  BY DEF IInv, ScanGood, Looking
<1>4. BB.len \in Nat
  <2>1. in_s \in Heaps
    BY DEF IInv, ListsGood
  <2> QED BY <1>3, <2>1, HeapFacts DEF BB
<1>5. Count \in Nat
  <2>1. U(BB.len + BlockSize - 1) \in Nat
    BY <1>1, <1>4 DEF U
  <2>2. NBlocks(BB) \in Nat
    BY <1>1, <2>1, DivFacts DEF NBlocks, DivRoundUp
  <2>3. BlockSize * NBlocks(BB) \in Nat
    BY <1>1, <2>2
  <2>4. ChunkLen(BB) \in Nat
    BY <1>1, <2>3 DEF ChunkLen
  <2> QED BY <1>1, <2>4 DEF Count
<1>6. Left = Room - (scan.file_len + ChunkHeaderLen) /\ Left \in Int
  BY <1>1, <1>2, <1>3 DEF Left
<1>7. U(Left) \in Nat
  BY <1>1, <1>6 DEF U
<1>8. ASSUME MustSplit, RoomForEightBlocks PROVE U(Left) = Left /\ U(Left) >= BlockSize
  <2>1. Room >= 8 * BlockSize /\ ChunkHeaderLen =< 7 * BlockSize
    BY <1>8, RoomFacts
  <2>2. Left >= BlockSize
    <3>1. CASE scan.last = 0
      BY <1>1, <1>2, <1>3, <1>6, <2>1, <3>1
    <3>2. CASE scan.last # 0
      <4>1. Left > Room \div 8
        BY <1>8, <3>2 DEF MustSplit
      <4>2. Room \div 8 >= BlockSize
        BY <1>1, <1>2, <2>1
      <4>3. Room \div 8 \in Nat
        BY <1>2
      <4> QED BY <1>1, <1>6, <4>1, <4>2, <4>3
    <3> QED BY <3>1, <3>2
  <2>3. Left \in 0 .. UIntMod-1
    BY <1>1, <1>2, <1>3, <1>6, <2>2
  <2>4. Left % UIntMod = Left
    BY <1>1, <2>3
  <2> QED BY <2>2, <2>4 DEF U
<1> QED BY <1>5, <1>6, <1>7, <1>8

LEMMA NextIInv == IInv /\ [Next]_vars => IInv'
<1> SUFFICES ASSUME IInv, [Next]_vars PROVE IInv' OBVIOUS
<1>1. /\ in_s \in Heaps /\ tmp \in Heaps /\ out_s \in Seq(Heaps)
      /\ Len(in_s.list) \in Nat
  BY HeapFacts DEF IInv, ListsGood
<1>2. /\ out_s_count \in Nat /\ c \in Nat /\ files \in Nat \cup {-1}
      /\ max_len \in MaxLens /\ done \in BOOLEAN /\ FaultsGood
  BY DEF IInv, CountsGood, FaultsGood
<1>3. /\ scan.bb \in Nat /\ scan.last \in Nat /\ scan.file_len \in Nat
      /\ scan.last < scan.bb /\ scan.bb =< Len(in_s.list) + 1
  BY DEF IInv, ScanGood
<1>4. scan.last \in 0 .. Len(in_s.list)
  BY <1>1, <1>3
<1>5. scan.bb =< Len(in_s.list) => scan.bb \in 1 .. Len(in_s.list) /\ scan.bb \in 0 .. Len(in_s.list)
  BY <1>1, <1>3
<1>6. UNCHANGED faults => FaultsGood'
  BY <1>2 DEF FaultsGood
<1>7. ASSUME NEW call \in {"map", "split"}, Fault(call) PROVE FaultsGood'
  <2>1. faults' = Append(faults, call) /\ Len(faults) < MaxFaults /\ MaxFaults \in Nat
    BY <1>7, ResparseAssumption DEF Fault
  <2>2. /\ Append(faults, call) \in Seq({"map", "split"})
        /\ Len(Append(faults, call)) = Len(faults) + 1 /\ Len(faults) \in Nat
    BY <1>2, AppendProperties, LenProperties DEF FaultsGood
  <2> QED BY <2>1, <2>2 DEF FaultsGood
<1>8. CASE TakeChunk
  <2>1. Count \in Nat /\ scan.bb \in 1 .. Len(in_s.list)
    BY <1>1, <1>3, <1>8, CountFacts DEF TakeChunk, Looking
  <2>2. /\ scan'.bb = scan.bb + 1 /\ scan'.last = scan.bb /\ scan'.file_len = scan.file_len + Count
        /\ UNCHANGED <<in_s, tmp, out_s, out_s_count, max_len, c, files, done, faults>>
    BY <1>8 DEF TakeChunk
  <2>3. ScanGood'
    BY <1>1, <1>3, <2>1, <2>2, SMTT(40) DEF ScanGood
  <2> QED BY <1>1, <1>2, <2>2, <2>3 DEF IInv, ListsGood, CountsGood, FaultsGood
<1>9. CASE Addr \ Held # {} /\ SplitChunk(Fresh)
  <2> DEFINE m    == U(Left)
             from == Split(in_s, scan.bb, m, Fresh)
  <2>1. Fresh \in Addr
    BY <1>9 DEF Fresh
  <2>2. Looking /\ MustSplit /\ FinishFile(from, scan.bb, TRUE) /\ UNCHANGED faults
    BY <1>9 DEF SplitChunk
  <2>3. scan.bb \in 1 .. Len(in_s.list)
    BY <1>5, <2>2 DEF Looking
  <2>4. m \in Nat /\ (RoomForEightBlocks => m >= BlockSize)
    BY <2>2, CountFacts
  <2> HIDE DEF m
  <2>5. from \in Heaps /\ Len(from.list) \in Nat /\ Len(in_s.list) =< Len(from.list)
    BY <1>1, <2>1, <2>4, <2>3, SplitGood
  <2>6. scan.bb \in 0 .. Len(from.list)
    BY <1>1, <2>5, <2>3
  <2> HIDE DEF from
  <2> QED BY <1>6, <2>2, <2>5, <2>6, FinishGood
<1>10. CASE SplitFails
  <2>1. FinishFile(in_s, scan.bb, TRUE) /\ Fault("split") /\ scan.bb \in 0 .. Len(in_s.list)
    BY <1>10, <1>5 DEF SplitFails, Looking
  <2> QED BY <1>1, <1>7, <2>1, FinishGood
<1>11. CASE StopBefore
  <2>1. FinishFile(in_s, scan.last, TRUE) /\ UNCHANGED faults /\ scan.last \in 0 .. Len(in_s.list)
    BY <1>11, <1>4 DEF StopBefore
  <2> QED BY <1>1, <1>6, <2>1, FinishGood
<1>12. CASE EndOfList
  <2>1. FinishFile(in_s, scan.last, FALSE) /\ UNCHANGED faults /\ scan.last \in 0 .. Len(in_s.list)
    BY <1>12, <1>4 DEF EndOfList
  <2> QED BY <1>1, <1>6, <2>1, FinishGood
<1>13. CASE MapFails
  <2>1. FinishFile(in_s, 0, FALSE) /\ Fault("map")
    BY <1>13 DEF MapFails
  <2>2. 0 \in 0 .. Len(in_s.list)
    BY <1>1
  <2> QED BY <1>1, <1>7, <2>1, <2>2, FinishGood
<1>14. CASE UNCHANGED vars
  BY <1>1, <1>2, <1>14 DEF vars, IInv, ListsGood, CountsGood, ScanGood
<1> QED BY <1>8, <1>9, <1>10, <1>11, <1>12, <1>13, <1>14 DEF Next

(* The invariant holds in every reachable state.                           *)
THEOREM Invariance == Spec => []IInv
BY InitIInv, NextIInv, PTL DEF Spec

LEMMA AllLists ==
  ASSUME IInv
  PROVE  Lists \subseteq Heaps
<1>1. in_s \in Heaps /\ tmp \in Heaps /\ out_s \in Seq(Heaps)
  BY DEF IInv, ListsGood
<1>2. \A i \in DOMAIN out_s : out_s[i] \in Heaps
  BY <1>1, LenProperties, ElementOfSeq
<1> QED BY <1>1, <1>2 DEF Lists

(* The locals and lists of sparse_file_resparse keep the shape of their C  *)
(* types, also when a mapping or a split fails half way.                   *)
THEOREM TypeCorrect == Spec => []TypeOK
<1>1. ASSUME IInv PROVE TypeOK
  <2>1. Lists \subseteq [list : Seq(Nodes), last_used : Addr \cup {NULL}]
    <3> SUFFICES ASSUME NEW l \in Heaps
                 PROVE  l \in [list : Seq(Nodes), last_used : Addr \cup {NULL}]
      BY <1>1, AllLists
    <3>1. Bits \subseteq Nodes
      BY DEF Bits
    <3>2. l.list \in Seq(Nodes)
      BY <3>1, HeapFacts, SeqMonotonic
    <3> QED BY <3>2, HeapFacts
  <2>2. Len(in_s.list) \in Nat
    BY <1>1, HeapFacts DEF IInv, ListsGood
  <2> QED BY <1>1, <2>1, <2>2 DEF IInv, CountsGood, ScanGood, TypeOK
<1> QED BY <1>1, Invariance, PTL

(* Wherever an extent is moved, and whichever call fails, no list of       *)
(* move_chunks_up_to_len and backed_block_list_move keeps a last_used that *)
(* points to an extent of another list, from where the next queue_bb would *)
(* insert into that one.                                                   *)
THEOREM CacheAlwaysLive == Spec => []CacheLive
<1>1. ASSUME IInv PROVE CacheLive
  BY <1>1, AllLists DEF CacheLive, Heaps
<1> QED BY <1>1, Invariance, PTL

(* backed_block_split makes no extent of no bytes, as long as a file has   *)
(* room for eight blocks.                                                  *)
THEOREM NeverEmptyExtent == RoomForEightBlocks => (Spec => []NoEmptyExtent)
<1> SUFFICES ASSUME RoomForEightBlocks PROVE Spec => []NoEmptyExtent OBVIOUS
<1>1. ASSUME IInv PROVE NoEmptyExtent
  <2> SUFFICES ASSUME NEW l \in Lists, NEW i \in DOMAIN l.list
               PROVE  l.list[i].len > 0
    BY DEF NoEmptyExtent
  <2>1. l \in Heaps
    BY <1>1, AllLists
  <2>2. l.list[i] \in Bits
    BY <2>1, HeapFacts
  <2> QED BY <1>1, <2>2 DEF Bits
<1> QED BY <1>1, Invariance, PTL

-----------------------------------------------------------------------------
(* Lists made of pieces.                                                   *)

Clear(s, t) == \A x \in ToSet(s), y \in ToSet(t) : Covered(x) \cap Covered(y) = {}

Before(s, t) == \A x \in ToSet(s), y \in ToSet(t) : x.block + NBlocks(x) =< y.block

LEMMA ConcatPositions ==
  ASSUME NEW S, NEW s \in Seq(S), NEW t \in Seq(S)
  PROVE  /\ Len(s) \in Nat /\ DOMAIN s = 1 .. Len(s) /\ Len(t) \in Nat /\ DOMAIN t = 1 .. Len(t)
         /\ DOMAIN (s \o t) = 1 .. Len(s) + Len(t)
         /\ \A i \in 1 .. Len(s) : (s \o t)[i] = s[i]
         /\ \A i \in 1 .. Len(t) : (s \o t)[Len(s) + i] = t[i]
         /\ \A k \in 1 .. Len(s) + Len(t) :
              (k \in 1 .. Len(s)) \/ (\E i \in 1 .. Len(t) : k = Len(s) + i)
<1> DEFINE n == Len(s)
           m == Len(t)
           u == s \o t
<1>1. n \in Nat /\ DOMAIN s = 1 .. n /\ m \in Nat /\ DOMAIN t = 1 .. m
  BY LenProperties
<1>2. /\ u \in Seq(S) /\ Len(u) = n + m
      /\ \A j \in 1 .. n + m : u[j] = IF j =< n THEN s[j] ELSE t[j - n]
  BY ConcatProperties
<1>3. DOMAIN u = 1 .. n + m
  BY <1>2, LenProperties
<1> HIDE DEF u, n, m
<1>4. ASSUME NEW i \in 1 .. n PROVE u[i] = s[i]
  <2>1. i \in 1 .. n + m /\ i =< n
    BY <1>1
  <2> QED BY <1>2, <2>1
<1>5. ASSUME NEW i \in 1 .. m PROVE u[n + i] = t[i]
  <2>1. n + i \in 1 .. n + m /\ ~(n + i =< n) /\ (n + i) - n = i
    BY <1>1
  <2> QED BY <1>2, <2>1
<1>6. ASSUME NEW k \in 1 .. n + m
      PROVE  (k \in 1 .. n) \/ (\E i \in 1 .. m : k = n + i)
  <2>1. CASE k =< n
    BY <1>1, <2>1
  <2>2. CASE ~(k =< n)
    <3>1. k - n \in 1 .. m /\ k = n + (k - n)
      BY <1>1, <2>2
    <3> QED BY <3>1
  <2> QED BY <2>1, <2>2
<1> QED BY <1>1, <1>3, <1>4, <1>5, <1>6 DEF n, m, u

LEMMA ApartConcat ==
  ASSUME NEW S, NEW s \in Seq(S), NEW t \in Seq(S)
  PROVE  Apart(s \o t) <=> Apart(s) /\ Apart(t) /\ Clear(s, t)
<1> DEFINE n == Len(s)
           m == Len(t)
           u == s \o t
<1>1. /\ n \in Nat /\ DOMAIN s = 1 .. n /\ m \in Nat /\ DOMAIN t = 1 .. m
      /\ DOMAIN u = 1 .. n + m
      /\ \A i \in 1 .. n : u[i] = s[i]
      /\ \A i \in 1 .. m : u[n + i] = t[i]
      /\ \A k \in 1 .. n + m : (k \in 1 .. n) \/ (\E i \in 1 .. m : k = n + i)
  BY ConcatPositions
<1> HIDE DEF u, n, m
<1>2. \A i \in 1 .. n, j \in 1 .. m : i \in 1 .. n + m /\ n + j \in 1 .. n + m /\ i # n + j
  BY <1>1
<1>3. \A i \in 1 .. n : i \in 1 .. n + m
  BY <1>1
<1>4. \A i \in 1 .. m : n + i \in 1 .. n + m
  BY <1>1
<1>5. \A i, j \in 1 .. m : i # j => n + i # n + j
  BY <1>1
<1>6. ASSUME Apart(u) PROVE Apart(s) /\ Apart(t) /\ Clear(s, t)
  <2>1. ASSUME NEW i \in 1 .. n, NEW j \in 1 .. n, i # j PROVE Covered(s[i]) \cap Covered(s[j]) = {}
    <3>1. Covered(u[i]) \cap Covered(u[j]) = {}
      BY <1>1, <1>3, <1>6, <2>1 DEF Apart
    <3> QED BY <1>1, <3>1
  <2>2. ASSUME NEW i \in 1 .. m, NEW j \in 1 .. m, i # j PROVE Covered(t[i]) \cap Covered(t[j]) = {}
    <3>1. n + i \in DOMAIN u /\ n + j \in DOMAIN u /\ n + i # n + j
      BY <1>1, <1>4, <1>5, <2>2
    <3>2. Covered(u[n + i]) \cap Covered(u[n + j]) = {}
      BY <1>6, <3>1 DEF Apart
    <3> QED BY <1>1, <3>2
  <2>3. ASSUME NEW i \in 1 .. n, NEW j \in 1 .. m PROVE Covered(s[i]) \cap Covered(t[j]) = {}
    <3>1. i \in DOMAIN u /\ n + j \in DOMAIN u /\ i # n + j
      BY <1>1, <1>2
    <3>2. Covered(u[i]) \cap Covered(u[n + j]) = {}
      BY <1>6, <3>1 DEF Apart
    <3> QED BY <1>1, <3>2
  <2> QED BY <1>1, <2>1, <2>2, <2>3 DEF Apart, Clear, ToSet
<1>7. ASSUME Apart(s), Apart(t), Clear(s, t) PROVE Apart(u)
  <2> SUFFICES ASSUME NEW i \in 1 .. n + m, NEW j \in 1 .. n + m, i # j
               PROVE  Covered(u[i]) \cap Covered(u[j]) = {}
    BY <1>1 DEF Apart
  <2>1. CASE i \in 1 .. n /\ j \in 1 .. n
    BY <1>1, <1>7, <2>1 DEF Apart
  <2>2. CASE i \in 1 .. n /\ \E k \in 1 .. m : j = n + k
    <3>1. PICK k \in 1 .. m : j = n + k
      BY <2>2
    <3>2. u[i] = s[i] /\ u[j] = t[k] /\ s[i] \in ToSet(s) /\ t[k] \in ToSet(t)
      BY <1>1, <2>2, <3>1 DEF ToSet
    <3> QED BY <1>7, <3>2 DEF Clear
  <2>3. CASE j \in 1 .. n /\ \E k \in 1 .. m : i = n + k
    <3>1. PICK k \in 1 .. m : i = n + k
      BY <2>3
    <3>2. u[j] = s[j] /\ u[i] = t[k] /\ s[j] \in ToSet(s) /\ t[k] \in ToSet(t)
      BY <1>1, <2>3, <3>1 DEF ToSet
    <3>3. Covered(s[j]) \cap Covered(t[k]) = {}
      BY <1>7, <3>2 DEF Clear
    <3> QED BY <3>2, <3>3
  <2>4. CASE (\E k \in 1 .. m : i = n + k) /\ (\E k \in 1 .. m : j = n + k)
    <3>1. PICK p \in 1 .. m, q \in 1 .. m : i = n + p /\ j = n + q
      BY <2>4
    <3>2. u[i] = t[p] /\ u[j] = t[q] /\ p # q
      BY <1>1, <3>1
    <3> QED BY <1>1, <1>7, <3>2 DEF Apart
  <2> QED BY <1>1, <2>1, <2>2, <2>3, <2>4
<1> QED BY <1>6, <1>7 DEF u

LEMMA AscendingConcat ==
  ASSUME NEW S, NEW s \in Seq(S), NEW t \in Seq(S)
  PROVE  Ascending(s \o t) <=> Ascending(s) /\ Ascending(t) /\ Before(s, t)
<1> DEFINE n == Len(s)
           m == Len(t)
           u == s \o t
<1>1. /\ n \in Nat /\ DOMAIN s = 1 .. n /\ m \in Nat /\ DOMAIN t = 1 .. m
      /\ DOMAIN u = 1 .. n + m
      /\ \A i \in 1 .. n : u[i] = s[i]
      /\ \A i \in 1 .. m : u[n + i] = t[i]
      /\ \A k \in 1 .. n + m : (k \in 1 .. n) \/ (\E i \in 1 .. m : k = n + i)
  BY ConcatPositions
<1> HIDE DEF u, n, m
<1>2. \A i \in 1 .. n, j \in 1 .. m : i \in 1 .. n + m /\ n + j \in 1 .. n + m /\ i < n + j
  BY <1>1
<1>3. \A i \in 1 .. n : i \in 1 .. n + m
  BY <1>1
<1>4. \A i \in 1 .. m : n + i \in 1 .. n + m
  BY <1>1
<1>5. \A i, j \in 1 .. m : i < j <=> n + i < n + j
  BY <1>1
<1>6. ASSUME Ascending(u) PROVE Ascending(s) /\ Ascending(t) /\ Before(s, t)
  <2>1. ASSUME NEW i \in 1 .. n, NEW j \in 1 .. n, i < j PROVE s[i].block + NBlocks(s[i]) =< s[j].block
    <3>1. u[i].block + NBlocks(u[i]) =< u[j].block
      BY <1>1, <1>3, <1>6, <2>1 DEF Ascending
    <3> QED BY <1>1, <3>1
  <2>2. ASSUME NEW i \in 1 .. m, NEW j \in 1 .. m, i < j PROVE t[i].block + NBlocks(t[i]) =< t[j].block
    <3>1. n + i \in DOMAIN u /\ n + j \in DOMAIN u /\ n + i < n + j
      BY <1>1, <1>4, <1>5, <2>2
    <3>2. u[n + i].block + NBlocks(u[n + i]) =< u[n + j].block
      BY <1>6, <3>1 DEF Ascending
    <3> QED BY <1>1, <3>2
  <2>3. ASSUME NEW i \in 1 .. n, NEW j \in 1 .. m PROVE s[i].block + NBlocks(s[i]) =< t[j].block
    <3>1. i \in DOMAIN u /\ n + j \in DOMAIN u /\ i < n + j
      BY <1>1, <1>2
    <3>2. u[i].block + NBlocks(u[i]) =< u[n + j].block
      BY <1>6, <3>1 DEF Ascending
    <3> QED BY <1>1, <3>2
  <2> QED BY <1>1, <2>1, <2>2, <2>3 DEF Ascending, Before, ToSet
<1>7. ASSUME Ascending(s), Ascending(t), Before(s, t) PROVE Ascending(u)
  <2> SUFFICES ASSUME NEW i \in 1 .. n + m, NEW j \in 1 .. n + m, i < j
               PROVE  u[i].block + NBlocks(u[i]) =< u[j].block
    BY <1>1 DEF Ascending
  <2>1. CASE i \in 1 .. n /\ j \in 1 .. n
    <3>1. s[i].block + NBlocks(s[i]) =< s[j].block
      BY <1>1, <1>7, <2>1 DEF Ascending
    <3> QED BY <1>1, <2>1, <3>1
  <2>2. CASE i \in 1 .. n /\ \E k \in 1 .. m : j = n + k
    <3>1. PICK k \in 1 .. m : j = n + k
      BY <2>2
    <3>2. u[i] = s[i] /\ u[j] = t[k] /\ s[i] \in ToSet(s) /\ t[k] \in ToSet(t)
      BY <1>1, <2>2, <3>1 DEF ToSet
    <3> QED BY <1>7, <3>2 DEF Before
  <2>3. CASE j \in 1 .. n /\ \E k \in 1 .. m : i = n + k
    BY <1>1, <2>3
  <2>4. CASE (\E k \in 1 .. m : i = n + k) /\ (\E k \in 1 .. m : j = n + k)
    <3>1. PICK p \in 1 .. m, q \in 1 .. m : i = n + p /\ j = n + q
      BY <2>4
    <3>2. u[i] = t[p] /\ u[j] = t[q] /\ p < q
      BY <1>1, <1>5, <3>1
    <3>3. t[p].block + NBlocks(t[p]) =< t[q].block
      BY <1>1, <1>7, <3>2 DEF Ascending
    <3> QED BY <3>2, <3>3
  <2> QED BY <1>1, <2>1, <2>2, <2>3, <2>4
<1> QED BY <1>6, <1>7 DEF u

LEMMA ConcatHolds ==
  ASSUME NEW S, NEW s \in Seq(S), NEW t \in Seq(S)
  PROVE  \A b, v : Holds(s \o t, b, v) <=> Holds(s, b, v) \/ Holds(t, b, v)
<1>1. ToSet(s \o t) = ToSet(s) \cup ToSet(t)
  BY ConcatToSet
<1> QED BY <1>1 DEF Holds

-----------------------------------------------------------------------------
(* The extents that make up the image, in whatever order.                  *)

Kept(s) ==
  /\ \A x \in ToSet(s) : Inside(x)
  /\ Apart(s)
  /\ \A b, v : Holds(s, b, v) <=> Holds(origin, b, v)

LEMMA ThreeToSet ==
  ASSUME NEW S, NEW p \in Seq(S), NEW q \in Seq(S), NEW r \in Seq(S)
  PROVE  ToSet((p \o q) \o r) = ToSet(p) \cup ToSet(q) \cup ToSet(r)
<1> DEFINE u == p \o q
<1>1. u \in Seq(S)
  BY ConcatProperties
<1>2. ToSet(u) = ToSet(p) \cup ToSet(q)
  BY ConcatToSet
<1> HIDE DEF u
<1>3. ToSet(u \o r) = ToSet(u) \cup ToSet(r)
  BY <1>1, ConcatToSet
<1> QED BY <1>2, <1>3 DEF u

LEMMA FourToSet ==
  ASSUME NEW S, NEW p \in Seq(S), NEW q \in Seq(S), NEW r \in Seq(S), NEW s \in Seq(S)
  PROVE  ToSet(((p \o q) \o r) \o s) = ToSet(p) \cup ToSet(q) \cup ToSet(r) \cup ToSet(s)
<1> DEFINE u == p \o q
<1>1. u \in Seq(S)
  BY ConcatProperties
<1>2. ToSet(u) = ToSet(p) \cup ToSet(q)
  BY ConcatToSet
<1> HIDE DEF u
<1>3. ToSet((u \o r) \o s) = ToSet(u) \cup ToSet(r) \cup ToSet(s)
  BY <1>1, ThreeToSet
<1> QED BY <1>2, <1>3 DEF u

(* Two neighbouring pieces of a list may change places.                    *)
LEMMA SwapKept ==
  ASSUME NEW p \in Seq(Bits), NEW q \in Seq(Bits), NEW r \in Seq(Bits), NEW s \in Seq(Bits),
         Kept(((p \o q) \o r) \o s)
  PROVE  Kept(((p \o r) \o q) \o s)
<1>1. p \o q \in Seq(Bits) /\ p \o r \in Seq(Bits)
  BY ConcatProperties
<1>2. (p \o q) \o r \in Seq(Bits) /\ (p \o r) \o q \in Seq(Bits)
  BY <1>1, ConcatProperties
<1>3. /\ ToSet(p \o q) = ToSet(p) \cup ToSet(q)
      /\ ToSet(p \o r) = ToSet(p) \cup ToSet(r)
  BY ConcatToSet
<1>4. ToSet((p \o r) \o q) = ToSet(p) \cup ToSet(q) \cup ToSet(r)
  <2>1. ToSet((p \o r) \o q) = ToSet(p) \cup ToSet(r) \cup ToSet(q)
    BY ThreeToSet
  <2> QED BY <2>1
<1>9. ToSet((p \o q) \o r) = ToSet(p) \cup ToSet(q) \cup ToSet(r)
  BY ThreeToSet
<1>5. ToSet(((p \o q) \o r) \o s) = ToSet(((p \o r) \o q) \o s)
  <2>1. ToSet(((p \o q) \o r) \o s) = ToSet(p) \cup ToSet(q) \cup ToSet(r) \cup ToSet(s)
    BY FourToSet
  <2>2. ToSet(((p \o r) \o q) \o s) = ToSet(p) \cup ToSet(r) \cup ToSet(q) \cup ToSet(s)
    BY FourToSet
  <2> QED BY <2>1, <2>2
<1>6. /\ Apart(p) /\ Apart(q) /\ Apart(r) /\ Apart(s)
      /\ Clear(p, q) /\ Clear(p \o q, r) /\ Clear((p \o q) \o r, s)
  <2>1. Apart((p \o q) \o r) /\ Apart(s) /\ Clear((p \o q) \o r, s)
    BY <1>2, ApartConcat DEF Kept
  <2>2. Apart(p \o q) /\ Apart(r) /\ Clear(p \o q, r)
    BY <1>1, <2>1, ApartConcat
  <2>3. Apart(p) /\ Apart(q) /\ Clear(p, q)
    BY <2>2, ApartConcat
  <2> QED BY <2>1, <2>2, <2>3
<1>7. Clear(p, r) /\ Clear(p \o r, q) /\ Clear((p \o r) \o q, s)
  <2>1. \A x \in ToSet(p) \cup ToSet(q), y \in ToSet(r) : Covered(x) \cap Covered(y) = {}
    BY <1>3, <1>6 DEF Clear
  <2>2. \A x \in ToSet(p), y \in ToSet(q) : Covered(x) \cap Covered(y) = {}
    BY <1>6 DEF Clear
  <2>3. \A x \in ToSet(r), y \in ToSet(q) : Covered(x) \cap Covered(y) = {}
    <3> SUFFICES ASSUME NEW x \in ToSet(r), NEW y \in ToSet(q)
                 PROVE  Covered(x) \cap Covered(y) = {}
      OBVIOUS
    <3>1. Covered(y) \cap Covered(x) = {}
      BY <2>1
    <3> QED BY <3>1
  <2>4. Clear(p, r) /\ Clear(p \o r, q)
    BY <1>3, <2>1, <2>2, <2>3 DEF Clear
  <2>5. Clear((p \o r) \o q, s)
    BY <1>4, <1>6, <1>9 DEF Clear
  <2> QED BY <2>4, <2>5
<1>8. Apart(((p \o r) \o q) \o s)
  <2>1. Apart(p \o r)
    BY <1>6, <1>7, ApartConcat
  <2>2. Apart((p \o r) \o q)
    BY <1>1, <1>6, <1>7, <2>1, ApartConcat
  <2> QED BY <1>2, <1>6, <1>7, <2>2, ApartConcat
<1> QED BY <1>5, <1>8 DEF Kept, Holds

(* However four lists in a row were joined.                                *)
LEMMA RegroupKept ==
  ASSUME NEW p \in Seq(Bits), NEW q \in Seq(Bits), NEW r \in Seq(Bits), NEW s \in Seq(Bits)
  PROVE  /\ Kept((p \o q) \o (r \o s)) <=> Kept(((p \o q) \o r) \o s)
         /\ Kept(p \o ((q \o r) \o s)) <=> Kept(((p \o q) \o r) \o s)
<1> DEFINE u == (p \o q) \o (r \o s)
           v == p \o ((q \o r) \o s)
           w == ((p \o q) \o r) \o s
<1>1. u = w
  BY SMTT(40)
<1>2. v = w
  BY SMTT(40)
<1> HIDE DEF u, v, w
<1>3. Kept(u) <=> Kept(w)
  BY <1>1
<1>4. Kept(v) <=> Kept(w)
  BY <1>2
<1> QED BY <1>3, <1>4 DEF u, v, w

-----------------------------------------------------------------------------
(* Moves and splits.                                                       *)

(* Wherever backed_block_list_move inserts the chain, it cuts the list in   *)
(* two.                                                                     *)
LEMMA MoveToPieces ==
  ASSUME NEW to \in Heaps, NEW chain \in Seq(Bits)
  PROVE  \E l, m \in Seq(Bits) : to.list = l \o m /\ MoveTo(to, chain).list = (l \o chain) \o m
<1> DEFINE list == to.list
           n    == Len(to.list)
<1>1. list \in Seq(Bits) /\ n \in Nat
  BY HeapFacts
<1>2. <<>> \in Seq(Bits) /\ list \o <<>> = list /\ chain \o <<>> = chain
  BY <1>1, ConcatEmptySeq
<1>3. CASE chain = <<>>
  <2>1. MoveTo(to, chain) = to
    BY <1>3 DEF MoveTo
  <2>2. MoveTo(to, chain).list = (list \o chain) \o <<>>
    BY <1>2, <1>3, <2>1
  <2> QED BY <1>1, <1>2, <2>2
<1>4. CASE chain # <<>> /\ list = <<>>
  <2>1. MoveTo(to, chain).list = chain
    BY <1>4 DEF MoveTo
  <2>2. <<>> \o chain = chain
    BY ConcatEmptySeq
  <2>3. MoveTo(to, chain).list = (<<>> \o chain) \o <<>> /\ list = <<>> \o <<>>
    BY <1>2, <1>4, <2>1, <2>2
  <2> QED BY <1>2, <2>3
<1>5. CASE chain # <<>> /\ list # <<>>
  <2> DEFINE i == InsertAfter(list, chain)
             l == SubSeq(list, 1, i)
             m == SubSeq(list, i + 1, n)
  <2>1. i \in 1 .. n
    BY <1>1, <1>5, InsertAfterFacts
  <2>2. MoveTo(to, chain).list = (l \o chain) \o m
    BY <1>5 DEF MoveTo
  <2> HIDE DEF i
  <2>3. l \o m = list
    <3>1. 1 \in 1 .. n + 1 /\ i \in 1 - 1 .. n /\ n \in i .. n
      BY <1>1, <2>1
    <3>2. l \o m = SubSeq(list, 1, n)
      BY <1>1, <3>1, ConcatAdjacentSubSeq
    <3> QED BY <1>1, <3>2, SubSeqFull
  <2>4. l \in Seq(Bits) /\ m \in Seq(Bits)
    <3>1. i + 1 \in 1 .. n + 1 /\ (i + 1) - 1 = i
      BY <1>1, <2>1
    <3>2. SubSeq(list, 1, (i + 1) - 1) \in Seq(Bits) /\ m \in Seq(Bits)
      BY <1>1, <3>1, FrontProperties, BackProperties
    <3> QED BY <3>1, <3>2
  <2> HIDE DEF l, m
  <2> QED BY <2>2, <2>3, <2>4
<1> QED BY <1>3, <1>4, <1>5

(* What stays behind when the first n extents are moved.                   *)
LEMMA MoveFromPieces ==
  ASSUME NEW from \in Heaps, NEW n \in 0 .. Len(from.list)
  PROVE  from.list = SubSeq(from.list, 1, n) \o MoveFrom(from, n).list
<1> DEFINE list == from.list
<1>1. list \in Seq(Bits) /\ Len(list) \in Nat
  BY HeapFacts
<1>2. CASE n = 0
  <2>1. SubSeq(list, 1, n) = <<>>
    BY <1>2, SubSeqEmpty
  <2>2. MoveFrom(from, n).list = list
    BY <1>2 DEF MoveFrom
  <2> QED BY <1>1, <2>1, <2>2, ConcatEmptySeq
<1>3. CASE n # 0
  <2>1. MoveFrom(from, n).list = SubSeq(list, n + 1, Len(list))
    BY <1>3 DEF MoveFrom
  <2>2. 1 \in 1 .. Len(list) + 1 /\ n \in 1 - 1 .. Len(list) /\ Len(list) \in n .. Len(list)
    BY <1>1
  <2>3. SubSeq(list, 1, n) \o SubSeq(list, n + 1, Len(list)) = SubSeq(list, 1, Len(list))
    BY <1>1, <2>2, ConcatAdjacentSubSeq
  <2> QED BY <1>1, <2>1, <2>3, SubSeqFull
<1> QED BY <1>2, <1>3

\* y is a part of the space of x.
Within(y, x) == y.block >= x.block /\ y.block + NBlocks(y) =< x.block + NBlocks(x)

(* The position of the extent of which position j of a split list is part. *)
Whole(i, j) == IF j =< i THEN j ELSE j - 1

(* A split replaces an extent by two parts of it that do not overlap.      *)
LEMMA SplitWithin ==
  ASSUME NEW l \in Heaps, NEW i \in 1 .. Len(l.list), NEW id \in Addr, NEW m \in Nat,
         Splits(l, i, m), \A x \in ToSet(l.list) : Inside(x)
  PROVE  LET s == Split(l, i, m, id).list
         IN /\ DOMAIN s = 1 .. Len(l.list) + 1
            /\ \A j \in 1 .. Len(l.list) + 1 :
                 /\ s[j] \in Nodes /\ Inside(s[j])
                 /\ Whole(i, j) \in 1 .. Len(l.list) /\ Within(s[j], l.list[Whole(i, j)])
            /\ s[i].block + NBlocks(s[i]) = s[i + 1].block
<1> DEFINE list == l.list
           n    == Len(l.list)
           bb   == l.list[i]
           head == SplitHead(bb, m)
           rest == SplitRest(bb, m, id)
           s    == Split(l, i, m, id).list
<1>1. /\ l \in [list : Seq(Bits), last_used : Addr \cup {NULL}] /\ list \in Seq(Bits)
      /\ n \in Nat /\ DOMAIN list = 1 .. n
      /\ \A j \in 1 .. n : list[j] \in Nodes
  BY HeapFacts
<1>2. l \in [list : Seq(Nodes), last_used : Addr \cup {NULL}]
  <2>1. Bits \subseteq Nodes
    BY DEF Bits
  <2>2. list \in Seq(Nodes)
    BY <1>1, <2>1, SeqMonotonic
  <2> QED BY <1>1, <2>2
<1>3. \A j \in 1 .. n : list[j] \in Nodes /\ Inside(list[j])
  BY <1>1 DEF ToSet
<1>4. bb \in Nodes /\ Inside(bb) /\ bb.len > AlignDown(m, BlockSize)
  BY <1>3 DEF Splits
<1>5. /\ s \in Seq(Nodes) /\ Len(s) = n + 1
      /\ \A j \in 1 .. i - 1 : s[j] = list[j]
      /\ s[i] = head /\ s[i + 1] = rest
      /\ \A j \in i + 1 .. n : s[j + 1] = list[j]
  BY <1>2, <1>4, SplitElements, SMTT(40)
<1>6. DOMAIN s = 1 .. n + 1
  BY <1>5, LenProperties
<1> DEFINE k == m \div BlockSize
<1>7. /\ k \in Nat
      /\ head \in Nodes /\ Inside(head) /\ rest \in Nodes /\ Inside(rest)
      /\ head.block = bb.block /\ NBlocks(head) = k
      /\ rest.block = bb.block + k /\ NBlocks(rest) = NBlocks(bb) - k
  BY <1>4, SplitPieces
<1>8. /\ bb.block \in Nat /\ NBlocks(bb) \in Nat /\ NBlocks(rest) \in Nat
  BY <1>4, <1>7, InsideFacts
<1> HIDE DEF s, head, rest, bb, k
<1>9. Within(head, bb) /\ Within(rest, bb)
  BY <1>7, <1>8 DEF Within
<1>10. \A j \in 1 .. n : Within(list[j], list[j])
  <2> SUFFICES ASSUME NEW j \in 1 .. n PROVE Within(list[j], list[j])
    OBVIOUS
  <2>1. list[j].block \in Nat /\ NBlocks(list[j]) \in Nat
    BY <1>3, InsideFacts
  <2> QED BY <2>1 DEF Within
<1>11. ASSUME NEW j \in 1 .. n + 1
       PROVE  /\ s[j] \in Nodes /\ Inside(s[j])
              /\ Whole(i, j) \in 1 .. n /\ Within(s[j], list[Whole(i, j)])
  <2>1. CASE j \in 1 .. i - 1
    <3>1. Whole(i, j) = j /\ j \in 1 .. n
      BY <1>1, <2>1 DEF Whole
    <3> QED BY <1>3, <1>5, <1>10, <2>1, <3>1
  <2>2. CASE j = i
    <3>1. Whole(i, j) = i
      BY <2>2 DEF Whole
    <3> QED BY <1>5, <1>7, <1>9, <2>2, <3>1 DEF bb
  <2>3. CASE j = i + 1
    <3>1. Whole(i, j) = i
      BY <2>3 DEF Whole
    <3> QED BY <1>5, <1>7, <1>9, <2>3, <3>1 DEF bb
  <2>4. CASE j - 1 \in i + 1 .. n
    <3>1. Whole(i, j) = j - 1 /\ j - 1 \in 1 .. n /\ s[(j - 1) + 1] = s[j]
      BY <1>1, <2>4 DEF Whole
    <3>2. s[j] = list[j - 1]
      BY <1>5, <2>4, <3>1
    <3> QED BY <1>3, <1>10, <3>1, <3>2
  <2>5. j \in 1 .. i - 1 \/ j = i \/ j = i + 1 \/ j - 1 \in i + 1 .. n
    BY <1>1
  <2> QED BY <2>1, <2>2, <2>3, <2>4, <2>5
<1>12. s[i].block + NBlocks(s[i]) = s[i + 1].block
  BY <1>5, <1>7
<1> QED BY <1>6, <1>11, <1>12 DEF s

(* What holds of the parts of disjoint extents.                            *)
LEMMA WithinCovered ==
  ASSUME NEW x \in Nodes, Inside(x), NEW y \in Nodes, Inside(y), Within(y, x)
  PROVE  Covered(y) \subseteq Covered(x)
<1>1. /\ x.block \in Nat /\ NBlocks(x) \in Nat
      /\ y.block \in Nat /\ NBlocks(y) \in Nat
  BY InsideFacts
<1> QED BY <1>1 DEF Within, Covered

LEMMA EndsChain ==
  ASSUME NEW u \in Nat, NEW v \in Nat, NEW w \in Nat, NEW x \in Nat, NEW y \in Nat, NEW z \in Nat,
         u + v =< w + x, w + x =< y, y =< z
  PROVE  u + v =< z
OBVIOUS

LEMMA SplitKeeps ==
  ASSUME NEW p \in Seq(Bits), NEW l \in Heaps, NEW i \in 1 .. Len(l.list), NEW id \in Addr,
         NEW m \in Nat, RoomForEightBlocks => m >= BlockSize,
         \A x \in ToSet(p) \cup ToSet(l.list) : x \in Nodes /\ Inside(x)
  PROVE  LET s == Split(l, i, m, id).list
         IN /\ s \in Seq(Bits)
            /\ \A x \in ToSet(s) : x \in Nodes /\ Inside(x)
            /\ Apart(p \o l.list) => Apart(p \o s)
            /\ Ascending(p \o l.list) => Ascending(p \o s)
            /\ \A b, v : Holds(p \o s, b, v) <=> Holds(p \o l.list, b, v)
<1> DEFINE list == l.list
           n    == Len(l.list)
           s    == Split(l, i, m, id).list
<1>1. /\ l \in [list : Seq(Bits), last_used : Addr \cup {NULL}]
      /\ list \in Seq(Bits) /\ n \in Nat /\ DOMAIN list = 1 .. n
  BY HeapFacts
<1>2. \A j \in 1 .. n : list[j] \in ToSet(list) /\ list[j] \in Nodes /\ Inside(list[j])
  BY <1>1 DEF ToSet
<1>3. s \in Seq(Bits)
  BY SplitGood, HeapFacts
<1>4. \A b, v : Holds(p \o s, b, v) <=> Holds(p \o list, b, v)
  <2>1. l \in [list : Seq(Nodes), last_used : Addr \cup {NULL}]
    <3>1. Bits \subseteq Nodes
      BY DEF Bits
    <3>2. list \in Seq(Nodes)
      BY <1>1, <3>1, SeqMonotonic
    <3> QED BY <1>1, <3>2
  <2>2. Inside(l.list[i])
    BY <1>2
  <2>3. \A b, v : Holds(s, b, v) <=> Holds(list, b, v)
    BY <2>1, <2>2, SplitHolds
  <2>4. \A b, v : Holds(p \o s, b, v) <=> Holds(p, b, v) \/ Holds(s, b, v)
    BY <1>3, ConcatHolds
  <2>5. \A b, v : Holds(p \o list, b, v) <=> Holds(p, b, v) \/ Holds(list, b, v)
    BY <1>1, ConcatHolds
  <2> HIDE DEF s, list
  <2> QED BY <2>3, <2>4, <2>5
<1>5. CASE ~ Splits(l, i, m)
  <2>1. s = list
    BY <1>5 DEF Split
  <2> HIDE DEF s
  <2> QED BY <1>3, <1>4, <2>1 DEF s
<1>6. CASE Splits(l, i, m)
  <2> DEFINE w(j) == Whole(i, j)
  <2>1. \A x \in ToSet(list) : Inside(x)
    OBVIOUS
  <2>2. /\ DOMAIN s = 1 .. n + 1
        /\ \A j \in 1 .. n + 1 :
             /\ s[j] \in Nodes /\ Inside(s[j])
             /\ w(j) \in 1 .. n /\ Within(s[j], list[w(j)])
        /\ s[i].block + NBlocks(s[i]) = s[i + 1].block
    BY <1>6, <2>1, SplitWithin
  <2>3. \A j, k \in 1 .. n + 1 : j < k => w(j) < w(k) \/ (j = i /\ k = i + 1)
    BY <1>1 DEF Whole
  <2> HIDE DEF s, list, n, w
  <2>4. \A j \in 1 .. n + 1 : /\ s[j].block \in Nat /\ NBlocks(s[j]) \in Nat
                              /\ list[w(j)].block \in Nat /\ NBlocks(list[w(j)]) \in Nat
    BY <1>2, <2>2, InsideFacts
  <2>5. \A j \in 1 .. n + 1 : Covered(s[j]) \subseteq Covered(list[w(j)])
    BY <1>2, <2>2, WithinCovered
  <2>6. \A x \in ToSet(s) : \E j \in 1 .. n + 1 : x = s[j]
    BY <2>2 DEF ToSet
  <2>7. \A x \in ToSet(s) : x \in Nodes /\ Inside(x)
    BY <2>2, <2>6
  <2>8. ASSUME Apart(p \o list) PROVE Apart(p \o s)
    <3>1. Apart(p) /\ Apart(list) /\ Clear(p, list)
      BY <1>1, <2>8, ApartConcat
    <3>2. Clear(p, s)
      <4> SUFFICES ASSUME NEW x \in ToSet(p), NEW y \in ToSet(s)
                   PROVE  Covered(x) \cap Covered(y) = {}
        BY DEF Clear
      <4>1. PICK j \in 1 .. n + 1 : y = s[j]
        BY <2>6
      <4>2. Covered(x) \cap Covered(list[w(j)]) = {}
        BY <1>2, <2>2, <3>1 DEF Clear
      <4> QED BY <2>5, <4>1, <4>2
    <3>3. ASSUME NEW j \in 1 .. n + 1, NEW k \in 1 .. n + 1, j < k
          PROVE  Covered(s[j]) \cap Covered(s[k]) = {}
      <4>1. CASE w(j) < w(k)
        <5>1. w(j) \in 1 .. n /\ w(k) \in 1 .. n
          BY <2>2
        <5>2. w(j) # w(k)
          BY <1>1, <4>1, <5>1 DEF n
        <5>3. Covered(list[w(j)]) \cap Covered(list[w(k)]) = {}
          BY <1>1, <3>1, <5>1, <5>2 DEF Apart
        <5> QED BY <2>5, <5>3
      <4>2. CASE j = i /\ k = i + 1
        <5>1. s[j].block + NBlocks(s[j]) = s[k].block
          BY <2>2, <4>2
        <5>2. /\ s[j].block \in Nat /\ NBlocks(s[j]) \in Nat
              /\ s[k].block \in Nat /\ NBlocks(s[k]) \in Nat
          BY <2>4
        <5>3. \A b : ~ (b \in Covered(s[j]) /\ b \in Covered(s[k]))
          BY <5>1, <5>2 DEF Covered
        <5> QED BY <5>3
      <4> QED BY <2>3, <3>3, <4>1, <4>2
    <3>4. Apart(s)
      <4> SUFFICES ASSUME NEW j \in 1 .. n + 1, NEW k \in 1 .. n + 1, j # k
                   PROVE  Covered(s[j]) \cap Covered(s[k]) = {}
        BY <2>2 DEF Apart
      <4>1. j < k \/ k < j
        BY <1>1 DEF n
      <4>2. CASE k < j
        <5>1. Covered(s[k]) \cap Covered(s[j]) = {}
          BY <3>3, <4>2
        <5> QED BY <5>1
      <4> QED BY <3>3, <4>1, <4>2
    <3> QED BY <1>3, <3>1, <3>2, <3>4, ApartConcat
  <2>9. ASSUME Ascending(p \o list) PROVE Ascending(p \o s)
    <3>1. Ascending(p) /\ Ascending(list) /\ Before(p, list)
      BY <1>1, <2>9, AscendingConcat
    <3>2. Before(p, s)
      <4> SUFFICES ASSUME NEW x \in ToSet(p), NEW y \in ToSet(s)
                   PROVE  x.block + NBlocks(x) =< y.block
        BY DEF Before
      <4>1. PICK j \in 1 .. n + 1 : y = s[j]
        BY <2>6
      <4>2. x.block + NBlocks(x) =< list[w(j)].block
        BY <1>2, <2>2, <3>1 DEF Before
      <4>3. list[w(j)].block =< s[j].block
        BY <2>2 DEF Within
      <4>4. x.block \in Nat /\ NBlocks(x) \in Nat
        BY InsideFacts
      <4> QED BY <2>4, <4>1, <4>2, <4>3, <4>4
    <3>3. ASSUME NEW j \in 1 .. n + 1, NEW k \in 1 .. n + 1, j < k
          PROVE  s[j].block + NBlocks(s[j]) =< s[k].block
      <4>1. CASE w(j) < w(k)
        <5>1. w(j) \in 1 .. n /\ w(k) \in 1 .. n
          BY <2>2
        <5>2. list[w(j)].block + NBlocks(list[w(j)]) =< list[w(k)].block
          BY <1>1, <3>1, <4>1, <5>1 DEF Ascending
        <5>3. /\ s[j].block + NBlocks(s[j]) =< list[w(j)].block + NBlocks(list[w(j)])
              /\ list[w(k)].block =< s[k].block
          BY <2>2 DEF Within
        <5>4. /\ s[j].block \in Nat /\ NBlocks(s[j]) \in Nat /\ s[k].block \in Nat
              /\ list[w(j)].block \in Nat /\ NBlocks(list[w(j)]) \in Nat /\ list[w(k)].block \in Nat
          BY <2>4, <5>1
        <5> QED BY <5>2, <5>3, <5>4, EndsChain
      <4>2. CASE j = i /\ k = i + 1
        <5>1. s[j].block + NBlocks(s[j]) = s[k].block
          BY <2>2, <4>2
        <5> QED BY <2>4, <5>1
      <4> QED BY <2>3, <3>3, <4>1, <4>2
    <3>4. Ascending(s)
      BY <2>2, <3>3 DEF Ascending
    <3> QED BY <1>3, <3>1, <3>2, <3>4, AscendingConcat
  <2> QED BY <1>3, <1>4, <2>7, <2>8, <2>9 DEF s, list
<1> QED BY <1>5, <1>6

-----------------------------------------------------------------------------
(* The files handed out, in one list.                                      *)

ListsOf(files_) == [i \in DOMAIN files_ |-> files_[i].list]

Out(files_) == FlattenSeq(ListsOf(files_))

LEMMA OutFacts ==
  ASSUME NEW o \in Seq(Heaps), NEW l \in Heaps
  PROVE  Out(o) \in Seq(Bits) /\ Out(Append(o, l)) = Out(o) \o l.list
<1> DEFINE n == Len(o)
           a == Append(o, l)
<1>1. n \in Nat /\ DOMAIN o = 1 .. n /\ \A i \in 1 .. n : o[i] \in Heaps
  BY LenProperties, ElementOfSeq
<1>2. l.list \in Seq(Bits) /\ \A i \in 1 .. n : o[i].list \in Seq(Bits)
  BY <1>1, HeapFacts
<1>3. /\ a \in Seq(Heaps) /\ Len(a) = n + 1 /\ a[n + 1] = l
      /\ \A i \in 1 .. n : a[i] = o[i]
  BY AppendProperties
<1>4. DOMAIN a = 1 .. n + 1
  BY <1>3, LenProperties
<1> HIDE DEF a, n
<1>5. ListsOf(o) \in Seq(Seq(Bits)) /\ Len(ListsOf(o)) = n
  <2>1. ListsOf(o) = [i \in 1 .. n |-> o[i].list]
    BY <1>1 DEF ListsOf
  <2>2. ListsOf(o) \in [1 .. n -> Seq(Bits)]
    BY <1>2, <2>1
  <2> QED BY <1>1, <2>2, IsASeq, SeqDef, LenProperties
<1>6. ListsOf(a) = Append(ListsOf(o), l.list)
  <2> DEFINE u == ListsOf(o)
             v == Append(u, l.list)
  <2>1. ListsOf(a) = [i \in 1 .. n + 1 |-> a[i].list]
    BY <1>4 DEF ListsOf
  <2>2. u = [i \in 1 .. n |-> o[i].list]
    BY <1>1 DEF ListsOf
  <2> HIDE DEF u
  <2>3. /\ v \in Seq(Seq(Bits)) /\ Len(v) = n + 1 /\ v[n + 1] = l.list
        /\ \A i \in 1 .. n : v[i] = u[i]
    BY <1>1, <1>2, <1>5, AppendProperties DEF u
  <2>4. DOMAIN v = 1 .. n + 1 /\ v = [i \in 1 .. n + 1 |-> v[i]]
    BY <2>3, LenProperties
  <2> HIDE DEF v
  <2>5. \A i \in 1 .. n + 1 : v[i] = a[i].list
    <3> SUFFICES ASSUME NEW i \in 1 .. n + 1 PROVE v[i] = a[i].list
      OBVIOUS
    <3>1. CASE i \in 1 .. n
      BY <1>3, <2>2, <2>3, <3>1
    <3>2. CASE i = n + 1
      BY <1>3, <2>3, <3>2
    <3> QED BY <1>1, <3>1, <3>2
  <2>6. ListsOf(a) = v
    BY <2>1, <2>4, <2>5
  <2> QED BY <2>6 DEF v, u
<1>7. FlattenSeq(ListsOf(o)) \in Seq(Bits)
  BY <1>5, FlattenIsSeq
<1>8. FlattenSeq(Append(ListsOf(o), l.list)) = FlattenSeq(ListsOf(o)) \o l.list
  BY <1>2, <1>5, FlattenAppend
<1> QED BY <1>6, <1>7, <1>8 DEF Out, a

-----------------------------------------------------------------------------
(* The end of a file.                                                      *)

LEMMA FinishPieces ==
  ASSUME IInv, NEW from \in Heaps, NEW n \in 0 .. Len(from.list), NEW more \in BOOLEAN,
         FinishFile(from, n, more)
  PROVE  LET chain == SubSeq(from.list, 1, n)
             rest  == MoveFrom(from, n)
             kept  == IF HasRoom THEN tmp ELSE MoveTo(tmp, chain)
         IN /\ chain \in Seq(Bits) /\ rest \in Heaps /\ kept \in Heaps
            /\ rest.list \in Seq(Bits) /\ kept.list \in Seq(Bits)
            /\ tmp.list \in Seq(Bits) /\ Out(out_s) \in Seq(Bits) /\ Out(out_s') \in Seq(Bits)
            /\ from.list = chain \o rest.list
            /\ Out(out_s') = IF HasRoom THEN Out(out_s) \o chain ELSE Out(out_s)
            /\ more => in_s' = rest /\ tmp' = kept
            /\ ~more => in_s' = MoveTo(rest, kept.list) /\ tmp' = EmptyList
            /\ origin' = origin
<1> DEFINE chain == SubSeq(from.list, 1, n)
           rest  == MoveFrom(from, n)
           kept  == IF HasRoom THEN tmp ELSE MoveTo(tmp, chain)
           file  == MoveTo(EmptyList, chain)
<1>1. tmp \in Heaps /\ out_s \in Seq(Heaps)
  BY DEF IInv, ListsGood
<1>2. chain \in Seq(Bits) /\ rest \in Heaps
  BY MoveFromGood
<1>3. EmptyList \in Heaps
  <2>1. <<>> \in Seq(Bits) OBVIOUS
  <2> QED BY <2>1, UncachedHeap DEF EmptyList
<1>4. kept \in Heaps /\ file \in Heaps
  BY <1>1, <1>2, <1>3, MoveToGood
<1>5. file.list = chain
  BY DEF MoveTo, EmptyList
<1>6. from.list = chain \o rest.list
  BY MoveFromPieces
<1>7. /\ out_s' = IF HasRoom THEN Append(out_s, file) ELSE out_s
      /\ more => in_s' = rest /\ tmp' = kept
      /\ ~more => in_s' = MoveTo(rest, kept.list) /\ tmp' = EmptyList
      /\ origin' = origin
  BY DEF FinishFile
<1> HIDE DEF chain, rest, kept, file
<1>8. /\ Out(out_s) \in Seq(Bits)
      /\ Out(Append(out_s, file)) = Out(out_s) \o chain
  BY <1>1, <1>4, <1>5, OutFacts
<1>9. Out(out_s) \o chain \in Seq(Bits)
  BY <1>2, <1>8, ConcatProperties
<1>10. rest.list \in Seq(Bits) /\ kept.list \in Seq(Bits) /\ tmp.list \in Seq(Bits)
  BY <1>1, <1>2, <1>4, HeapFacts
<1>11. Out(out_s') = IF HasRoom THEN Out(out_s) \o chain ELSE Out(out_s)
  BY <1>7, <1>8
<1>12. Out(out_s') \in Seq(Bits)
  BY <1>8, <1>9, <1>11
<1> QED BY <1>2, <1>4, <1>6, <1>7, <1>8, <1>10, <1>11, <1>12 DEF chain, rest, kept

(* A chain that goes between two parts of a list, instead of behind it.    *)
LEMMA ChainKept ==
  ASSUME NEW o \in Seq(Bits), NEW l \in Seq(Bits), NEW m \in Seq(Bits),
         NEW chain \in Seq(Bits), NEW r \in Seq(Bits)
  PROVE  Kept(((o \o (l \o m)) \o chain) \o r) => Kept((o \o ((l \o chain) \o m)) \o r)
<1> DEFINE t == l \o m
           k == (l \o chain) \o m
           u == (o \o l) \o m
           v == ((o \o l) \o chain) \o m
<1>1. o \o t = u
  BY SMTT(40)
<1>2. o \o k = v
  OBVIOUS
<1>3. o \o l \in Seq(Bits)
  BY ConcatProperties
<1>4. Kept((u \o chain) \o r) => Kept(v \o r)
  BY <1>3, SwapKept
<1> HIDE DEF t, k, u, v
<1>5. Kept(((o \o t) \o chain) \o r) => Kept((o \o k) \o r)
  BY <1>1, <1>2, <1>4
<1> QED BY <1>5 DEF t, k

(* What was kept in tmp and what is still in from change places at most.   *)
LEMMA FinishKept ==
  ASSUME IInv, NEW from \in Heaps, NEW n \in 0 .. Len(from.list), NEW more \in BOOLEAN,
         FinishFile(from, n, more), Kept((Out(out_s) \o tmp.list) \o from.list)
  PROVE  Kept((Out(out_s') \o tmp'.list) \o in_s'.list)
<1> DEFINE chain == SubSeq(from.list, 1, n)
           rest  == MoveFrom(from, n)
           kept  == IF HasRoom THEN tmp ELSE MoveTo(tmp, chain)
           o     == Out(out_s)
           o1    == Out(out_s')
           t     == tmp.list
           k     == kept.list
           r     == rest.list
<1>1. /\ chain \in Seq(Bits) /\ rest \in Heaps /\ kept \in Heaps
      /\ r \in Seq(Bits) /\ k \in Seq(Bits)
      /\ t \in Seq(Bits) /\ o \in Seq(Bits) /\ o1 \in Seq(Bits)
      /\ from.list = chain \o r
      /\ o1 = IF HasRoom THEN o \o chain ELSE o
      /\ more => in_s' = rest /\ tmp' = kept
      /\ ~more => in_s' = MoveTo(rest, k) /\ tmp' = EmptyList
  BY FinishPieces
<1>2. Kept(((o \o t) \o chain) \o r)
  <2>1. Kept((o \o t) \o (chain \o r))
    BY <1>1
  <2>2. o \in Seq(Bits) /\ t \in Seq(Bits) /\ chain \in Seq(Bits) /\ r \in Seq(Bits)
    BY <1>1
  <2> HIDE DEF chain, rest, o, t, r
  <2> QED BY <2>1, <2>2, RegroupKept
<1>3. Kept((o1 \o k) \o r)
  <2>1. CASE HasRoom
    <3>1. Kept(((o \o chain) \o t) \o r)
      <4> HIDE DEF chain, rest, kept, o, o1, t, k, r
      <4> QED BY <1>1, <1>2, SwapKept
    <3>2. o1 = o \o chain /\ k = t
      BY <1>1, <2>1
    <3> HIDE DEF chain, rest, kept, o, o1, t, k, r
    <3> QED BY <3>1, <3>2
  <2>2. CASE ~HasRoom
    <3>1. o1 = o /\ tmp \in Heaps /\ k = MoveTo(tmp, chain).list
      BY <1>1, <2>2 DEF IInv, ListsGood
    <3> HIDE DEF chain, kept, o, o1, k, rest
    <3>2. PICK l \in Seq(Bits), m \in Seq(Bits) :
            t = l \o m /\ MoveTo(tmp, chain).list = (l \o chain) \o m
      BY <1>1, <3>1, MoveToPieces
    <3>3. t = l \o m /\ k = (l \o chain) \o m
      BY <3>1, <3>2
    <3> HIDE DEF t, r
    <3>4. o \in Seq(Bits) /\ chain \in Seq(Bits) /\ r \in Seq(Bits)
      BY <1>1
    <3> QED BY <1>2, <3>1, <3>3, <3>4, ChainKept
  <2> QED BY <2>1, <2>2
<1>4. CASE more
  <2>1. tmp'.list = k /\ in_s'.list = r
    BY <1>1, <1>4
  <2> HIDE DEF chain, rest, kept, o, t, k, r
  <2> QED BY <1>3, <2>1
<1>5. CASE ~more
  <2>1. tmp'.list = <<>> /\ in_s'.list = MoveTo(rest, k).list
    BY <1>1, <1>5 DEF EmptyList
  <2> HIDE DEF chain, rest, kept, o, o1, t, k
  <2>2. PICK l \in Seq(Bits), m \in Seq(Bits) :
          r = l \o m /\ MoveTo(rest, k).list = (l \o k) \o m
    BY <1>1, MoveToPieces
  <2> HIDE DEF r
  <2>3. o1 \in Seq(Bits) /\ k \in Seq(Bits)
    BY <1>1
  <2>4. Kept((o1 \o k) \o (l \o m))
    BY <1>3, <2>2
  <2>5. Kept(((o1 \o k) \o l) \o m)
    BY <2>3, <2>4, RegroupKept
  <2>6. Kept(((o1 \o l) \o k) \o m)
    BY <2>3, <2>5, SwapKept
  <2>7. Kept(o1 \o ((l \o k) \o m))
    BY <2>3, <2>6, RegroupKept
  <2>8. o1 \o <<>> = o1
    BY <2>3, ConcatEmptySeq
  <2>9. (o1 \o tmp'.list) \o in_s'.list = o1 \o ((l \o k) \o m)
    BY <2>1, <2>2, <2>8
  <2> QED BY <2>7, <2>9 DEF o1
<1> QED BY <1>4, <1>5

-----------------------------------------------------------------------------
(* The image is kept.                                                      *)

KInv == origin \in Images /\ Kept(Everything)

LEMMA EverythingIs == Everything = (Out(out_s) \o tmp.list) \o in_s.list
BY DEF Everything, Out, ListsOf

LEMMA ImagesFacts ==
  ASSUME NEW list \in Images
  PROVE  /\ list \in Seq(Nodes) /\ Ascending(list) /\ Apart(list)
         /\ \A x \in ToSet(list) : x \in Nodes /\ Inside(x)
<1>1. list \in Seq(Nodes) /\ Ascending(list) /\ \A i \in DOMAIN list : WellPlaced(list[i])
  BY ResparseAssumption
<1>2. DOMAIN list = 1 .. Len(list) /\ \A i \in 1 .. Len(list) : list[i] \in Nodes
  BY <1>1, LenProperties, ElementOfSeq
<1>3. \A i \in DOMAIN list : Inside(list[i])
  BY <1>1 DEF WellPlaced, Inside
<1>4. Apart(list)
  BY <1>1, <1>3, AscendingApart
<1> QED BY <1>1, <1>2, <1>3, <1>4 DEF ToSet

LEMMA InitEverything == Init => origin \in Images /\ Everything = origin
<1> SUFFICES ASSUME Init PROVE origin \in Images /\ Everything = origin
  OBVIOUS
<1>1. in_s.list = origin /\ origin \in Images /\ tmp.list = <<>> /\ out_s = <<>>
  BY DEF Init, EmptyList
<1>2. ListsOf(out_s) = <<>> /\ FlattenSeq(<<>>) = <<>>
  <2>1. DOMAIN <<>> = {}
    OBVIOUS
  <2>2. ListsOf(<<>>) \in [{} -> {}]
    BY <2>1 DEF ListsOf
  <2>3. ListsOf(<<>>) = <<>>
    BY <2>2
  <2> QED BY <1>1, <2>3 DEF FlattenSeq
<1>3. Everything = (<<>> \o <<>>) \o origin
  BY <1>1, <1>2, EverythingIs DEF Out
<1>4. origin \in Seq(Nodes)
  BY <1>1, ImagesFacts
<1>5. <<>> \o <<>> = <<>> /\ <<>> \o origin = origin
  BY <1>4, ConcatEmptySeq
<1> QED BY <1>1, <1>3, <1>5

LEMMA InitKInv == Init => KInv
<1> SUFFICES ASSUME Init PROVE KInv OBVIOUS
<1>1. origin \in Images /\ Everything = origin
  BY InitEverything
<1>2. Apart(origin) /\ \A x \in ToSet(origin) : Inside(x)
  BY <1>1, ImagesFacts
<1> QED BY <1>1, <1>2 DEF KInv, Kept

(* The extents outside the files handed out, and those in them, are real   *)
(* extents inside the image.                                               *)
LEMMA PiecesFacts ==
  ASSUME IInv, KInv
  PROVE  LET p == Out(out_s) \o tmp.list
         IN /\ Out(out_s) \in Seq(Bits) /\ tmp.list \in Seq(Bits) /\ p \in Seq(Bits)
            /\ in_s \in Heaps /\ in_s.list \in Seq(Bits)
            /\ Kept(p \o in_s.list)
            /\ \A x \in ToSet(p) \cup ToSet(in_s.list) : x \in Nodes /\ Inside(x)
<1> DEFINE o == Out(out_s)
           p == o \o tmp.list
<1>1. in_s \in Heaps /\ tmp \in Heaps /\ out_s \in Seq(Heaps)
  BY DEF IInv, ListsGood
<1>2. o \in Seq(Bits)
  BY <1>1, OutFacts
<1>3. tmp.list \in Seq(Bits) /\ in_s.list \in Seq(Bits)
  BY <1>1, HeapFacts
<1>4. p \in Seq(Bits)
  BY <1>2, <1>3, ConcatProperties
<1>5. Kept(p \o in_s.list)
  BY EverythingIs DEF KInv
<1> HIDE DEF p, o
<1>6. ASSUME NEW x \in ToSet(p) \cup ToSet(in_s.list) PROVE x \in Nodes /\ Inside(x)
  <2>1. x \in ToSet(p \o in_s.list)
    BY <1>3, <1>4, ConcatToSet
  <2>2. Inside(x)
    BY <1>5, <2>1 DEF Kept
  <2>3. p \o in_s.list \in Seq(Bits)
    BY <1>3, <1>4, ConcatProperties
  <2>4. x \in Bits
    BY <2>1, <2>3, LenProperties, ElementOfSeq DEF ToSet
  <2> QED BY <2>2, <2>4 DEF Bits
<1> QED BY <1>1, <1>2, <1>3, <1>4, <1>5, <1>6 DEF p, o

LEMMA NextKInv == IInv /\ KInv /\ [Next]_vars => KInv'
<1> SUFFICES ASSUME IInv, KInv, [Next]_vars PROVE KInv' OBVIOUS
<1> DEFINE p    == Out(out_s) \o tmp.list
           list == in_s.list
<1>1. /\ Out(out_s) \in Seq(Bits) /\ p \in Seq(Bits) /\ in_s \in Heaps /\ list \in Seq(Bits)
      /\ Kept(p \o list)
      /\ \A x \in ToSet(p) \cup ToSet(list) : x \in Nodes /\ Inside(x)
  BY PiecesFacts
<1>2. Len(list) \in Nat
  BY <1>1, HeapFacts
<1>3. /\ scan.bb \in Nat /\ scan.last \in 0 .. Len(list)
      /\ Looking => scan.bb \in 1 .. Len(list) /\ scan.bb \in 0 .. Len(list)
  BY <1>2 DEF IInv, ScanGood, Looking
<1>4. ASSUME NEW s, s = (Out(out_s') \o tmp'.list) \o in_s'.list, Kept(s), origin' = origin
      PROVE  KInv'
  <2>1. Everything' = s
    BY <1>4, EverythingIs DEF Everything, Out, ListsOf
  <2>2. Kept(s)'  <=> Kept(s)
    BY <1>4 DEF Kept
  <2>3. origin \in Images
    BY DEF KInv
  <2> QED BY <1>4, <2>1, <2>2, <2>3 DEF KInv, Kept
<1>5. ASSUME NEW from \in Heaps, NEW n \in 0 .. Len(from.list), NEW more \in BOOLEAN,
             FinishFile(from, n, more), Kept(p \o from.list)
      PROVE  KInv'
  <2>1. Kept((Out(out_s') \o tmp'.list) \o in_s'.list)
    BY <1>5, FinishKept
  <2>2. origin' = origin
    BY <1>5 DEF FinishFile
  <2> QED BY <1>4, <2>1, <2>2
<1>6. CASE TakeChunk
  BY <1>6 DEF TakeChunk, KInv, Kept, Everything
<1>7. CASE Addr \ Held # {} /\ SplitChunk(Fresh)
  <2> DEFINE m    == U(Left)
             from == Split(in_s, scan.bb, m, Fresh)
  <2>1. Fresh \in Addr
    BY <1>7 DEF Fresh
  <2>2. Looking /\ MustSplit /\ FinishFile(from, scan.bb, TRUE)
    BY <1>7 DEF SplitChunk
  <2>3. scan.bb \in 1 .. Len(list)
    BY <1>3, <2>2
  <2>4. m \in Nat /\ (RoomForEightBlocks => m >= BlockSize)
    BY <2>2, CountFacts
  <2> HIDE DEF m
  <2>5. from \in Heaps /\ Len(from.list) \in Nat /\ Len(list) =< Len(from.list)
    BY <1>1, <2>1, <2>3, <2>4, SplitGood
  <2>6. /\ Apart(p \o list) => Apart(p \o from.list)
        /\ \A x \in ToSet(from.list) : x \in Nodes /\ Inside(x)
        /\ from.list \in Seq(Bits)
        /\ \A b, v : Holds(p \o from.list, b, v) <=> Holds(p \o list, b, v)
    BY <1>1, <2>1, <2>3, <2>4, SplitKeeps
  <2> HIDE DEF from, p, list
  <2>7. Kept(p \o from.list)
    <3>1. ToSet(p \o from.list) = ToSet(p) \cup ToSet(from.list)
      BY <1>1, <2>6, ConcatToSet
    <3>2. \A x \in ToSet(p \o from.list) : Inside(x)
      BY <1>1, <2>6, <3>1
    <3> QED BY <1>1, <2>6, <3>2 DEF Kept
  <2>8. scan.bb \in 0 .. Len(from.list)
    BY <1>2, <2>3, <2>5
  <2> QED BY <1>5, <2>2, <2>5, <2>7, <2>8
<1>8. CASE SplitFails
  <2>1. FinishFile(in_s, scan.bb, TRUE) /\ Looking
    BY <1>8 DEF SplitFails
  <2> QED BY <1>1, <1>3, <1>5, <2>1
<1>9. CASE StopBefore
  <2>1. FinishFile(in_s, scan.last, TRUE)
    BY <1>9 DEF StopBefore
  <2> QED BY <1>1, <1>3, <1>5, <2>1
<1>10. CASE EndOfList
  <2>1. FinishFile(in_s, scan.last, FALSE)
    BY <1>10 DEF EndOfList
  <2> QED BY <1>1, <1>3, <1>5, <2>1
<1>11. CASE MapFails
  <2>1. FinishFile(in_s, 0, FALSE)
    BY <1>11 DEF MapFails
  <2>2. 0 \in 0 .. Len(list)
    BY <1>2
  <2> QED BY <1>1, <1>5, <2>1, <2>2
<1>12. CASE UNCHANGED vars
  BY <1>12 DEF vars, KInv, Kept, Everything
<1> QED BY <1>6, <1>7, <1>8, <1>9, <1>10, <1>11, <1>12 DEF Next

(* At every step of sparse_file_resparse, also after a mapping or a split   *)
(* failed half way, the files handed out, tmp and what is left of in_s hold *)
(* every block of the image exactly once, each with its own content.       *)
THEOREM ImageKept == Spec => []BlocksKept
<1>1. ASSUME IInv, KInv PROVE BlocksKept
  <2>1. Apart(Everything) /\ \A b, v : Holds(Everything, b, v) <=> Holds(origin, b, v)
    BY <1>1 DEF KInv, Kept
  <2>2. Apart(origin)
    BY <1>1, ImagesFacts DEF KInv
  <2>3. ImageOf(Everything) = ImageOf(origin)
    BY <2>1, <2>2, SameImage
  <2> QED BY <2>1, <2>3 DEF BlocksKept, Apart
<1>2. Spec => []KInv
  BY InitKInv, NextKInv, Invariance, PTL DEF Spec
<1> QED BY <1>1, <1>2, Invariance, PTL

-----------------------------------------------------------------------------
(* The order of the image is kept.                                         *)

\* last_bb is right behind bb; tmp is empty as long as files are handed out;
\* nothing went back out of order unless a mapping failed.
OInv ==
  /\ scan.last = scan.bb - 1
  /\ HasRoom => tmp.list = <<>>
  /\ "map" \notin ToSet(faults) => Ascending(Everything)

(* A chain of extents behind those of a list is moved to its end.          *)
LEMMA MoveToEnd ==
  ASSUME NEW to \in Heaps, NEW chain \in Seq(Bits), Before(to.list, chain),
         \A x \in ToSet(to.list) : x \in Nodes /\ Inside(x)
  PROVE  MoveTo(to, chain).list = to.list \o chain
<1> DEFINE list == to.list
           n    == Len(to.list)
<1>1. list \in Seq(Bits) /\ n \in Nat /\ DOMAIN list = 1 .. n
  BY HeapFacts
<1>2. CASE chain = <<>>
  <2>1. MoveTo(to, chain).list = list /\ list \o <<>> = list
    BY <1>1, <1>2, ConcatEmptySeq DEF MoveTo
  <2> QED BY <1>2, <2>1
<1>3. CASE chain # <<>> /\ list = <<>>
  <2>1. MoveTo(to, chain).list = chain /\ <<>> \o chain = chain
    BY <1>3, ConcatEmptySeq DEF MoveTo
  <2> QED BY <1>3, <2>1
<1>4. CASE chain # <<>> /\ list # <<>>
  <2> DEFINE i == InsertAfter(list, chain)
  <2>1. i \in 1 .. n /\ (i = n \/ list[i+1].block > chain[1].block)
    BY <1>1, <1>4, InsertAfterFacts
  <2>2. MoveTo(to, chain).list = SubSeq(list, 1, i) \o chain \o SubSeq(list, i+1, n)
    BY <1>4 DEF MoveTo
  <2> HIDE DEF i
  <2>3. chain[1] \in ToSet(chain) /\ chain[1].block \in Nat
    <3>1. 1 \in DOMAIN chain /\ chain[1] \in Nodes
      BY <1>4, LenProperties, EmptySeq, ElementOfSeq DEF Bits
    <3> QED BY <3>1, SizesAssumption DEF ToSet, Nodes, UInt
  <2>4. \A j \in 1 .. n : list[j].block =< chain[1].block /\ list[j].block \in Nat
    <3> SUFFICES ASSUME NEW j \in 1 .. n
                 PROVE  list[j].block =< chain[1].block /\ list[j].block \in Nat
      OBVIOUS
    <3>1. list[j] \in ToSet(list)
      BY <1>1 DEF ToSet
    <3>2. list[j].block + NBlocks(list[j]) =< chain[1].block
      BY <2>3, <3>1 DEF Before
    <3>3. list[j].block \in Nat /\ NBlocks(list[j]) \in Nat
      BY <3>1, InsideFacts
    <3> QED BY <2>3, <3>2, <3>3
  <2>5. i = n
    BY <1>1, <2>1, <2>3, <2>4
  <2>6. SubSeq(list, 1, n) = list /\ SubSeq(list, n + 1, n) = <<>>
    BY <1>1, SubSeqFull, SubSeqEmpty
  <2>7. MoveTo(to, chain).list = (list \o chain) \o <<>>
    BY <2>2, <2>5, <2>6
  <2>8. list \o chain \in Seq(Bits)
    BY <1>1, ConcatProperties
  <2> HIDE DEF list, n
  <2>9. (list \o chain) \o <<>> = list \o chain
    BY <2>8, ConcatEmptySeq
  <2> QED BY <2>7, <2>9 DEF list
<1> QED BY <1>2, <1>3, <1>4

LEMMA RestEmpty ==
  ASSUME NEW from \in Heaps
  PROVE  MoveFrom(from, Len(from.list)).list = <<>>
<1>1. Len(from.list) \in Nat /\ from.list \in Seq(Bits)
  BY HeapFacts
<1>2. CASE Len(from.list) = 0
  BY <1>1, <1>2, EmptySeq DEF MoveFrom
<1>3. CASE Len(from.list) # 0
  <2>1. SubSeq(from.list, Len(from.list) + 1, Len(from.list)) = <<>>
    BY <1>1, SubSeqEmpty
  <2> QED BY <1>3, <2>1 DEF MoveFrom
<1> QED BY <1>2, <1>3

(* A file that ends the pass only at the end of the list moves nothing out *)
(* of its order.                                                           *)
LEMMA FinishSame ==
  ASSUME IInv, NEW from \in Heaps, NEW n \in 0 .. Len(from.list), NEW more \in BOOLEAN,
         FinishFile(from, n, more), HasRoom => tmp.list = <<>>,
         ~more => n = Len(from.list), Before(tmp.list, SubSeq(from.list, 1, n)),
         \A x \in ToSet(tmp.list) : x \in Nodes /\ Inside(x)
  PROVE  (Out(out_s') \o tmp'.list) \o in_s'.list = (Out(out_s) \o tmp.list) \o from.list
<1> DEFINE chain == SubSeq(from.list, 1, n)
           rest  == MoveFrom(from, n)
           kept  == IF HasRoom THEN tmp ELSE MoveTo(tmp, chain)
           o     == Out(out_s)
           o1    == Out(out_s')
           t     == tmp.list
           k     == kept.list
           r     == rest.list
<1>1. /\ chain \in Seq(Bits) /\ rest \in Heaps /\ kept \in Heaps
      /\ r \in Seq(Bits) /\ k \in Seq(Bits)
      /\ t \in Seq(Bits) /\ o \in Seq(Bits) /\ o1 \in Seq(Bits)
      /\ from.list = chain \o r
      /\ o1 = IF HasRoom THEN o \o chain ELSE o
      /\ more => in_s' = rest /\ tmp' = kept
      /\ ~more => in_s' = MoveTo(rest, k) /\ tmp' = EmptyList
  BY FinishPieces
<1>2. o1 \o k = (o \o t) \o chain
  <2>1. CASE HasRoom
    <3>1. o1 = o \o chain /\ k = <<>> /\ t = <<>>
      BY <1>1, <2>1
    <3> HIDE DEF chain, rest, kept, o, o1, t, k, r
    <3>2. o \o chain \in Seq(Bits) /\ o \in Seq(Bits)
      BY <1>1, ConcatProperties
    <3>3. (o \o chain) \o <<>> = o \o chain /\ o \o <<>> = o
      BY <3>2, ConcatEmptySeq
    <3> QED BY <3>1, <3>3
  <2>2. CASE ~HasRoom
    <3>1. tmp \in Heaps /\ o1 = o /\ k = MoveTo(tmp, chain).list
      BY <1>1, <2>2 DEF IInv, ListsGood
    <3>2. k = t \o chain
      BY <1>1, <3>1, MoveToEnd
    <3>3. o \in Seq(Bits) /\ t \in Seq(Bits) /\ chain \in Seq(Bits)
      BY <1>1
    <3> HIDE DEF chain, rest, kept, o, o1, t, k, r
    <3>4. (o \o t) \o chain = o \o (t \o chain)
      BY <3>3, ConcatAssociative
    <3> QED BY <3>1, <3>2, <3>4
  <2> QED BY <2>1, <2>2
<1>3. (o1 \o k) \o r = (o \o t) \o (chain \o r)
  <2>1. o \in Seq(Bits) /\ t \in Seq(Bits) /\ chain \in Seq(Bits) /\ r \in Seq(Bits)
    BY <1>1
  <2> HIDE DEF chain, rest, kept, o, o1, t, k, r
  <2> DEFINE before == o \o t
  <2>2. before \in Seq(Bits)
    BY <2>1, ConcatProperties
  <2>3. o1 \o k = before \o chain
    BY <1>2
  <2> HIDE DEF before
  <2>4. (before \o chain) \o r = before \o (chain \o r)
    BY <2>1, <2>2, ConcatAssociative, SMTT(40)
  <2>5. (o1 \o k) \o r = before \o (chain \o r)
    BY <2>3, <2>4
  <2> QED BY <2>5 DEF before
<1>4. CASE more
  <2>1. tmp'.list = k /\ in_s'.list = r
    BY <1>1, <1>4
  <2> HIDE DEF chain, rest, kept, o, o1, t, k, r
  <2> QED BY <1>1, <1>3, <2>1 DEF o, o1, t
<1>5. CASE ~more
  <2>1. r = <<>>
    <3>1. n = Len(from.list)
      BY <1>5
    <3> QED BY <3>1, <1>5, RestEmpty
  <2>2. tmp'.list = <<>> /\ in_s'.list = MoveTo(rest, k).list
    BY <1>1, <1>5 DEF EmptyList
  <2>3. MoveTo(rest, k).list = k
    BY <2>1 DEF MoveTo
  <2> HIDE DEF chain, rest, kept, o, o1, t, k, r
  <2>4. o1 \o <<>> = o1 /\ (o1 \o k) \o <<>> = o1 \o k
    <3>1. o1 \in Seq(Bits) /\ o1 \o k \in Seq(Bits)
      BY <1>1, ConcatProperties
    <3> QED BY <3>1, ConcatEmptySeq
  <2>5. (o1 \o tmp'.list) \o in_s'.list = (o1 \o k) \o r
    BY <2>1, <2>2, <2>3, <2>4
  <2> QED BY <1>1, <1>3, <2>5 DEF o, o1, t
<1> QED BY <1>4, <1>5

LEMMA InitOInv == Init => OInv
<1> SUFFICES ASSUME Init PROVE OInv OBVIOUS
<1>1. scan.last = scan.bb - 1 /\ (HasRoom => tmp.list = <<>>)
  BY DEF Init, ScanStart, HasRoom, EmptyList
<1>2. Ascending(Everything)
  BY InitEverything, ImagesFacts
<1> QED BY <1>1, <1>2 DEF OInv

\* No mapping has failed so far.
AllMapped == "map" \notin ToSet(faults)

LEMMA FaultSet ==
  ASSUME IInv, NEW call \in {"map", "split"}, Fault(call)
  PROVE  ToSet(faults') = ToSet(faults) \cup {call}
<1>1. faults \in Seq({"map", "split"}) /\ faults' = Append(faults, call)
  BY DEF IInv, CountsGood, Fault
<1>2. /\ Len(faults) \in Nat /\ DOMAIN faults = 1 .. Len(faults)
      /\ faults' \in Seq({"map", "split"}) /\ Len(faults') = Len(faults) + 1
      /\ \A i \in 1 .. Len(faults) : faults'[i] = faults[i]
      /\ faults'[Len(faults) + 1] = call
  BY <1>1, LenProperties, AppendProperties
<1>3. DOMAIN faults' = 1 .. Len(faults) + 1
  BY <1>2, LenProperties
<1>4. \A x \in ToSet(faults') : x \in ToSet(faults) \cup {call}
  <2> SUFFICES ASSUME NEW i \in 1 .. Len(faults) + 1
               PROVE  faults'[i] \in ToSet(faults) \cup {call}
    BY <1>3 DEF ToSet
  <2>1. i \in 1 .. Len(faults) \/ i = Len(faults) + 1
    BY <1>2
  <2> QED BY <1>2, <2>1 DEF ToSet
<1>5. \A x \in ToSet(faults) : x \in ToSet(faults')
  <2> SUFFICES ASSUME NEW i \in 1 .. Len(faults)
               PROVE  faults[i] \in ToSet(faults')
    BY <1>2 DEF ToSet
  <2>1. i \in 1 .. Len(faults) + 1
    BY <1>2
  <2> QED BY <1>2, <1>3, <2>1 DEF ToSet
<1>6. call \in ToSet(faults')
  <2>1. Len(faults) + 1 \in 1 .. Len(faults) + 1
    BY <1>2
  <2> QED BY <1>2, <1>3, <2>1 DEF ToSet
<1> QED BY <1>4, <1>5, <1>6

LEMMA NextOInv == IInv /\ KInv /\ OInv /\ [Next]_vars => OInv'
<1> SUFFICES ASSUME IInv, KInv, OInv, [Next]_vars PROVE OInv' OBVIOUS
<1> DEFINE p    == Out(out_s) \o tmp.list
           list == in_s.list
<1>1. /\ Out(out_s) \in Seq(Bits) /\ tmp.list \in Seq(Bits) /\ p \in Seq(Bits)
      /\ in_s \in Heaps /\ list \in Seq(Bits)
      /\ \A x \in ToSet(p) \cup ToSet(list) : x \in Nodes /\ Inside(x)
  BY PiecesFacts
<1>2. Len(list) \in Nat
  BY <1>1, HeapFacts
<1>3. /\ scan.bb \in Nat /\ scan.last \in 0 .. Len(list)
      /\ scan.bb =< Len(list) + 1 /\ scan.last = scan.bb - 1
      /\ Looking => scan.bb \in 1 .. Len(list) /\ scan.bb \in 0 .. Len(list)
  BY <1>2 DEF IInv, ScanGood, Looking, OInv
<1>4. Everything = p \o list /\ (AllMapped => Ascending(p \o list))
  BY EverythingIs DEF OInv, AllMapped
<1>5. \A x \in ToSet(tmp.list) : x \in Nodes /\ Inside(x)
  <2>1. ToSet(p) = ToSet(Out(out_s)) \cup ToSet(tmp.list)
    BY <1>1, ConcatToSet
  <2> QED BY <1>1, <2>1
\* Whatever was moved, the locals of the scan start again, and tmp gets nothing
\* while there is room for a file.
<1>6. ASSUME NEW from \in Heaps, NEW n \in 0 .. Len(from.list), NEW more \in BOOLEAN,
             FinishFile(from, n, more)
      PROVE  scan'.last = scan'.bb - 1 /\ (HasRoom' => tmp'.list = <<>>)
  <2>1. scan'.last = scan'.bb - 1
    BY <1>6 DEF FinishFile, ScanStart
  <2>2. CASE more
    <3>1. /\ tmp' = IF HasRoom THEN tmp ELSE MoveTo(tmp, SubSeq(from.list, 1, n))
          /\ c' = c + 1 /\ out_s_count' = out_s_count
      BY <1>6, <2>2 DEF FinishFile
    <3>2. HasRoom' => HasRoom
      BY <3>1 DEF HasRoom, IInv, CountsGood
    <3> QED BY <2>1, <3>1, <3>2 DEF OInv
  <2>3. CASE ~more
    <3>1. tmp' = EmptyList
      BY <1>6, <2>3 DEF FinishFile
    <3> QED BY <2>1, <3>1 DEF EmptyList
  <2> QED BY <2>2, <2>3
<1>7. ASSUME NEW from \in Heaps, NEW n \in 0 .. Len(from.list), NEW more \in BOOLEAN,
             FinishFile(from, n, more), ~more => n = Len(from.list),
             AllMapped => Ascending(p \o from.list), AllMapped' => AllMapped
      PROVE  OInv'
  <2> DEFINE chain == SubSeq(from.list, 1, n)
  <2>1. ASSUME AllMapped' PROVE Ascending(Everything)'
    <3>1. Ascending(p \o from.list)
      BY <1>7, <2>1
    <3>2. /\ chain \in Seq(Bits) /\ MoveFrom(from, n).list \in Seq(Bits)
          /\ from.list = chain \o MoveFrom(from, n).list
      BY <1>7, FinishPieces
    <3>3. Before(tmp.list, chain)
      <4> DEFINE r == MoveFrom(from, n).list
      <4>1. from.list \in Seq(Bits)
        BY HeapFacts
      <4>2. Before(p, from.list)
        BY <1>1, <3>1, <4>1, AscendingConcat
      <4>3. ToSet(p) = ToSet(Out(out_s)) \cup ToSet(tmp.list)
        BY <1>1, ConcatToSet
      <4> HIDE DEF p, chain, r
      <4>4. ToSet(from.list) = ToSet(chain) \cup ToSet(r)
        BY <3>2, ConcatToSet DEF r
      <4> QED BY <4>2, <4>3, <4>4 DEF Before
    <3>4. HasRoom => tmp.list = <<>>
      BY DEF OInv
    <3>5. (Out(out_s') \o tmp'.list) \o in_s'.list = p \o from.list
      BY <1>5, <1>7, <3>3, <3>4, FinishSame
    <3>6. Everything' = (Out(out_s') \o tmp'.list) \o in_s'.list
      BY DEF Everything, Out, ListsOf
    <3> HIDE DEF p
    <3>7. Everything' = p \o from.list
      BY <3>5, <3>6
    <3> QED BY <3>1, <3>7 DEF Ascending
  <2>2. scan'.last = scan'.bb - 1 /\ (HasRoom' => tmp'.list = <<>>)
    BY <1>6, <1>7
  <2>3. "map" \notin ToSet(faults') => Ascending(Everything)'
    BY <2>1 DEF AllMapped
  <2> HIDE DEF chain, p, list
  <2>4. /\ scan'.last = scan'.bb - 1
        /\ HasRoom' => tmp'.list = <<>>
        /\ "map" \notin ToSet(faults') => Ascending(Everything)'
    BY <2>2, <2>3
  <2> QED BY <2>4 DEF OInv
<1>8. ASSUME UNCHANGED <<in_s, tmp, out_s, out_s_count, c, faults>>, scan'.last = scan'.bb - 1
      PROVE  OInv'
  <2>1. Everything' = Everything /\ HasRoom' = HasRoom
    BY <1>8 DEF Everything, HasRoom
  <2>2. Ascending(Everything)' <=> Ascending(Everything)
    BY <2>1 DEF Ascending
  <2>3. /\ scan'.last = scan'.bb - 1
        /\ HasRoom' => tmp'.list = <<>>
        /\ "map" \notin ToSet(faults') => Ascending(Everything)'
    BY <1>8, <2>1, <2>2 DEF OInv
  <2> QED BY <2>3 DEF OInv
<1>9. CASE TakeChunk
  <2>1. scan'.bb = scan.bb + 1 /\ scan'.last = scan.bb
    BY <1>9 DEF TakeChunk
  <2>2. UNCHANGED <<in_s, tmp, out_s, out_s_count, c, faults>>
    BY <1>9 DEF TakeChunk
  <2>3. scan'.last = scan'.bb - 1
    BY <1>3, <2>1
  <2> QED BY <1>8, <2>2, <2>3
<1>10. CASE Addr \ Held # {} /\ SplitChunk(Fresh)
  <2> DEFINE m    == U(Left)
             from == Split(in_s, scan.bb, m, Fresh)
  <2>1. Fresh \in Addr
    BY <1>10 DEF Fresh
  <2>2. Looking /\ MustSplit /\ FinishFile(from, scan.bb, TRUE) /\ UNCHANGED faults
    BY <1>10 DEF SplitChunk
  <2>3. scan.bb \in 1 .. Len(list)
    BY <1>3, <2>2
  <2>4. m \in Nat /\ (RoomForEightBlocks => m >= BlockSize)
    BY <2>2, CountFacts
  <2> HIDE DEF m
  <2>5. from \in Heaps /\ Len(from.list) \in Nat /\ Len(list) =< Len(from.list)
    BY <1>1, <2>1, <2>3, <2>4, SplitGood
  <2>6. Ascending(p \o list) => Ascending(p \o from.list)
    BY <1>1, <2>1, <2>3, <2>4, SplitKeeps
  <2> HIDE DEF from, p, list
  <2>7. scan.bb \in 0 .. Len(from.list)
    BY <1>2, <2>3, <2>5
  <2>8. AllMapped' => AllMapped
    BY <2>2 DEF AllMapped
  <2>9. AllMapped => Ascending(p \o from.list)
    BY <1>4, <2>6
  <2> QED BY <1>7, <2>2, <2>5, <2>7, <2>8, <2>9
<1>11. CASE SplitFails
  <2>1. FinishFile(in_s, scan.bb, TRUE) /\ Fault("split") /\ scan.bb \in 0 .. Len(list)
    BY <1>3, <1>11 DEF SplitFails
  <2>2. AllMapped' => AllMapped
    BY <2>1, FaultSet DEF AllMapped
  <2> QED BY <1>1, <1>4, <1>7, <2>1, <2>2
<1>12. CASE StopBefore
  <2>1. FinishFile(in_s, scan.last, TRUE) /\ UNCHANGED faults
    BY <1>12 DEF StopBefore
  <2>2. AllMapped' => AllMapped
    BY <2>1 DEF AllMapped
  <2> QED BY <1>1, <1>3, <1>4, <1>7, <2>1, <2>2
<1>13. CASE EndOfList
  <2>1. FinishFile(in_s, scan.last, FALSE) /\ UNCHANGED faults /\ scan.bb > Len(list)
    BY <1>13 DEF EndOfList
  <2>2. AllMapped' => AllMapped
    BY <2>1 DEF AllMapped
  <2>3. scan.last = Len(list)
    BY <1>2, <1>3, <2>1
  <2> QED BY <1>1, <1>3, <1>4, <1>7, <2>1, <2>2, <2>3
<1>14. CASE MapFails
  <2>1. FinishFile(in_s, 0, FALSE) /\ Fault("map")
    BY <1>14 DEF MapFails
  <2>2. ~ AllMapped'
    BY <2>1, FaultSet DEF AllMapped
  <2>3. 0 \in 0 .. Len(list)
    BY <1>2
  <2>4. scan'.last = scan'.bb - 1 /\ (HasRoom' => tmp'.list = <<>>)
    BY <1>1, <1>6, <2>1, <2>3
  <2> QED BY <2>2, <2>4 DEF OInv, AllMapped
<1>15. CASE UNCHANGED vars
  <2>1. UNCHANGED <<in_s, tmp, out_s, out_s_count, c, scan, faults>>
    BY <1>15 DEF vars
  <2>2. scan'.last = scan'.bb - 1
    BY <1>3, <2>1
  <2> QED BY <1>8, <2>1, <2>2
<1> QED BY <1>9, <1>10, <1>11, <1>12, <1>13, <1>14, <1>15 DEF Next

(* As long as no mapping fails, sparse_file_resparse hands the image out in *)
(* its own order: what is kept in tmp goes back in front of nothing, and    *)
(* backed_block_list_move finds the end of the list.                       *)
THEOREM OrderKept == Spec => []InOrder
<1>1. ASSUME OInv PROVE InOrder
  BY <1>1 DEF OInv, InOrder
<1>2. Spec => []OInv
  BY InitKInv, NextKInv, InitOInv, NextOInv, Invariance, PTL DEF Spec
<1> QED BY <1>1, <1>2, PTL

-----------------------------------------------------------------------------
(* How large the files are.                                                *)

\* A fill word is not longer than a block; both have at least a byte.
FillFits == WordLen \in 1 .. BlockSize

-----------------------------------------------------------------------------
(* The loop of write_all_blocks adds up what each extent takes.            *)

StoredLens(list) == [i \in 1 .. Len(list) |-> StoredLen(list, i)]

LEMMA ChunkLenFacts ==
  ASSUME NEW x \in Nodes
  PROVE  ChunkLen(x) \in Nat /\ NBlocks(x) \in Nat
<1>1. /\ BlockSize \in Nat \ {0} /\ UIntMod \in Nat \ {0}
      /\ ChunkHeaderLen \in Nat /\ WordLen \in Nat
  BY SizesAssumption, FormatAssumption
<1>2. x.len \in Nat
  BY <1>1 DEF Nodes, UInt
<1>3. U(x.len + BlockSize - 1) \in Nat
  BY <1>1, <1>2 DEF U
<1>4. NBlocks(x) \in Nat
  BY <1>1, <1>3, DivFacts DEF NBlocks, DivRoundUp
<1>5. BlockSize * NBlocks(x) \in Nat
  BY <1>1, <1>4
<1> QED BY <1>1, <1>4, <1>5 DEF ChunkLen

LEMMA StoredSame ==
  ASSUME NEW l \in Seq(Nodes), NEW m \in Seq(Nodes),
         NEW i \in 1 .. Len(l), i =< Len(m), l[i] = m[i], i # 1 => l[i-1] = m[i-1]
  PROVE  StoredLen(l, i) = StoredLen(m, i) /\ StoredLen(l, i) \in Nat
<1>1. LastBlock(l, i) = LastBlock(m, i)
  BY DEF LastBlock
<1>2. StoredLen(l, i) = StoredLen(m, i)
  BY <1>1 DEF StoredLen, Gap
<1>3. ChunkLen(l[i]) \in Nat /\ ChunkHeaderLen \in Nat
  BY ElementOfSeq, ChunkLenFacts, FormatAssumption
<1> QED BY <1>2, <1>3 DEF StoredLen

LEMMA ChunksLenEmpty == ChunksLen(<<>>) = 0
BY TotalEmpty DEF ChunksLen

LEMMA ChunksLenNext ==
  ASSUME NEW list \in Seq(Nodes), NEW n \in 1 .. Len(list)
  PROVE  /\ ChunksLen(SubSeq(list, 1, n)) = ChunksLen(SubSeq(list, 1, n-1)) + StoredLen(list, n)
         /\ ChunksLen(SubSeq(list, 1, n)) \in Nat
         /\ ChunksLen(SubSeq(list, 1, n-1)) \in Nat
<1> DEFINE l == SubSeq(list, 1, n)
           m == SubSeq(list, 1, n-1)
           h == StoredLens(l)
           k == StoredLens(m)
<1>1. Len(list) \in Nat /\ n \in Nat /\ n # 0 /\ n + 1 \in 1 .. Len(list) + 1 /\ n \in 1 .. Len(list) + 1
  BY LenProperties
<1>2. /\ l \in Seq(Nodes) /\ Len(l) = n /\ \A i \in 1 .. n : l[i] = list[i]
  <2>1. (n + 1) - 1 = n
    BY <1>1
  <2>2. /\ SubSeq(list, 1, (n + 1) - 1) \in Seq(Nodes)
        /\ Len(SubSeq(list, 1, (n + 1) - 1)) = (n + 1) - 1
        /\ \A i \in 1 .. (n + 1) - 1 : SubSeq(list, 1, (n + 1) - 1)[i] = list[i]
    BY <1>1, FrontProperties
  <2> QED BY <2>1, <2>2
<1>3. m \in Seq(Nodes) /\ Len(m) = n - 1 /\ \A i \in 1 .. n-1 : m[i] = list[i]
  BY <1>1, FrontProperties
<1>4. n - 1 \in Nat /\ n - 1 =< n
  BY <1>1
<1> HIDE DEF l, m
<1>5. ASSUME NEW i \in 1 .. n PROVE h[i] = StoredLen(list, i) /\ h[i] \in Nat
  <2>1. i \in 1 .. Len(l) /\ i =< Len(list) /\ (i # 1 => i-1 \in 1 .. n)
    BY <1>1, <1>2
  <2>2. l[i] = list[i] /\ (i # 1 => l[i-1] = list[i-1])
    BY <1>2, <2>1
  <2>3. StoredLen(l, i) = StoredLen(list, i) /\ StoredLen(l, i) \in Nat
    BY <1>2, <2>1, <2>2, StoredSame
  <2> QED BY <2>1, <2>3 DEF StoredLens
<1>6. ASSUME NEW i \in 1 .. n-1 PROVE k[i] = StoredLen(list, i) /\ k[i] \in Nat
  <2>1. i \in 1 .. Len(m) /\ i =< Len(list) /\ (i # 1 => i-1 \in 1 .. n-1)
    BY <1>1, <1>3
  <2>2. m[i] = list[i] /\ (i # 1 => m[i-1] = list[i-1])
    BY <1>3, <2>1
  <2>3. StoredLen(m, i) = StoredLen(list, i) /\ StoredLen(m, i) \in Nat
    BY <1>3, <2>1, <2>2, StoredSame
  <2> QED BY <2>1, <2>3 DEF StoredLens
<1>7. h \in Seq(Nat) /\ Len(h) = n
  <2>1. h \in [1 .. n -> Nat]
    BY <1>2, <1>5 DEF StoredLens
  <2> HIDE DEF h
  <2> QED BY <1>1, <2>1, SeqDef, LenProperties
<1>8. k \in Seq(Nat) /\ Len(k) = n - 1
  <2>1. k \in [1 .. n-1 -> Nat]
    BY <1>3, <1>6 DEF StoredLens
  <2> HIDE DEF k
  <2> QED BY <1>4, <2>1, SeqDef, LenProperties
<1>9. ChunksLen(l) = Total(h) /\ ChunksLen(m) = Total(k)
  BY DEF ChunksLen, StoredLens
<1> HIDE DEF h, k
<1>10. Len(h) = Len(k) + 1 /\ \A i \in 1 .. Len(k) : h[i] = k[i]
  <2>1. \A i \in 1 .. n-1 : i \in 1 .. n
    BY <1>1
  <2> QED BY <1>1, <1>5, <1>6, <1>7, <1>8, <2>1
<1>11. Total(h) = Total(k) + h[Len(h)] /\ Total(k) \in Nat /\ Total(h) \in Nat
  BY <1>7, <1>8, <1>10, TotalNext
<1>12. h[Len(h)] = StoredLen(list, n)
  BY <1>1, <1>5, <1>7
<1> QED BY <1>9, <1>11, <1>12 DEF l, m

LEMMA SubSeqSame ==
  ASSUME NEW l \in Seq(Nodes), NEW m \in Seq(Nodes), NEW n \in Nat, n =< Len(l), n =< Len(m),
         \A i \in 1 .. n : l[i] = m[i]
  PROVE  SubSeq(l, 1, n) = SubSeq(m, 1, n)
<1>1. /\ Len(l) \in Nat /\ Len(m) \in Nat /\ (n + 1) - 1 = n
      /\ n + 1 \in 1 .. Len(l) + 1 /\ n + 1 \in 1 .. Len(m) + 1
  BY LenProperties
<1>2. /\ SubSeq(l, 1, (n + 1) - 1) \in Seq(Nodes) /\ Len(SubSeq(l, 1, (n + 1) - 1)) = (n + 1) - 1
      /\ \A i \in 1 .. (n + 1) - 1 : SubSeq(l, 1, (n + 1) - 1)[i] = l[i]
  BY <1>1, FrontProperties
<1>3. /\ SubSeq(m, 1, (n + 1) - 1) \in Seq(Nodes) /\ Len(SubSeq(m, 1, (n + 1) - 1)) = (n + 1) - 1
      /\ \A i \in 1 .. (n + 1) - 1 : SubSeq(m, 1, (n + 1) - 1)[i] = m[i]
  BY <1>1, FrontProperties
<1> DEFINE a == SubSeq(l, 1, n)
           b == SubSeq(m, 1, n)
<1>4. /\ a \in Seq(Nodes) /\ b \in Seq(Nodes) /\ Len(a) = n /\ Len(b) = n
      /\ \A i \in 1 .. n : a[i] = b[i]
  BY <1>1, <1>2, <1>3
<1> HIDE DEF a, b
<1>5. a = b
  BY <1>4, SeqEqual
<1> QED BY <1>5 DEF a, b

LEMMA HeapNodes ==
  ASSUME NEW l \in Heaps
  PROVE  /\ l \in [list : Seq(Nodes), last_used : Addr \cup {NULL}]
         /\ l.list \in Seq(Nodes) /\ Len(l.list) \in Nat
<1>1. Bits \subseteq Nodes
  BY DEF Bits
<1>2. l \in [list : Seq(Bits), last_used : Addr \cup {NULL}] /\ l.list \in Seq(Bits) /\ Len(l.list) \in Nat
  BY HeapFacts
<1>3. l.list \in Seq(Nodes)
  BY <1>1, <1>2, SeqMonotonic
<1> QED BY <1>2, <1>3

(* What the extents up to a split one take.                                *)
LEMMA SplitLens ==
  ASSUME NEW l \in Heaps, NEW i \in 1 .. Len(l.list), NEW id \in Addr, NEW m \in Nat,
         Inside(l.list[i])
  PROVE  LET s     == Split(l, i, m, id).list
             first == IF Splits(l, i, m) THEN SplitHead(l.list[i], m) ELSE l.list[i]
         IN ChunksLen(SubSeq(s, 1, i)) =
              ChunksLen(SubSeq(l.list, 1, i-1))
                + (ChunkLen(first) + IF Gap(l.list, i) THEN ChunkHeaderLen ELSE 0)
<1> DEFINE list == l.list
           s    == Split(l, i, m, id).list
<1>1. /\ l \in [list : Seq(Nodes), last_used : Addr \cup {NULL}]
      /\ list \in Seq(Nodes) /\ Len(list) \in Nat /\ i \in Nat
  BY HeapNodes
<1>2. CASE ~ Splits(l, i, m)
  <2>1. s = list
    BY <1>2 DEF Split
  <2> HIDE DEF s
  <2>2. ChunksLen(SubSeq(list, 1, i)) = ChunksLen(SubSeq(list, 1, i-1)) + StoredLen(list, i)
    BY <1>1, ChunksLenNext
  <2> QED BY <1>2, <2>1, <2>2 DEF StoredLen, s
<1>3. CASE Splits(l, i, m)
  <2>1. /\ s \in Seq(Nodes) /\ Len(s) = Len(list) + 1
        /\ \A j \in 1 .. i - 1 : s[j] = list[j]
        /\ s[i] = SplitHead(list[i], m)
    BY <1>1, <1>3, SplitElements
  <2> HIDE DEF s
  <2>2. i \in 1 .. Len(s) /\ i - 1 \in Nat /\ i - 1 =< Len(s) /\ i - 1 =< Len(list)
    BY <1>1, <2>1
  <2>3. ChunksLen(SubSeq(s, 1, i)) = ChunksLen(SubSeq(s, 1, i-1)) + StoredLen(s, i)
    BY <2>1, <2>2, ChunksLenNext
  <2>4. SubSeq(s, 1, i-1) = SubSeq(list, 1, i-1)
    BY <1>1, <2>1, <2>2, SubSeqSame
  <2>5. Gap(s, i) <=> Gap(list, i)
    <3>1. s[i].block = list[i].block
      BY <1>1, <2>1, ElementOfSeq DEF SplitHead, Nodes
    <3>2. i # 1 => s[i-1] = list[i-1]
      <4>1. i # 1 => i-1 \in 1 .. i - 1
        BY <1>1
      <4> QED BY <2>1, <4>1
    <3>3. LastBlock(s, i) = LastBlock(list, i)
      BY <3>2 DEF LastBlock
    <3> QED BY <3>1, <3>3 DEF Gap
  <2> QED BY <1>3, <2>1, <2>3, <2>4, <2>5 DEF StoredLen, s
<1> QED BY <1>2, <1>3

(* The part of an extent that a split leaves takes no more than was left   *)
(* for it, and, unless it is a fill, a block less than that at most.       *)
LEMMA FirstLen ==
  ASSUME NEW l \in Heaps, NEW i \in 1 .. Len(l.list), NEW m \in Nat, m >= BlockSize,
         Inside(l.list[i]), FillFits
  PROVE  LET first == IF Splits(l, i, m) THEN SplitHead(l.list[i], m) ELSE l.list[i]
         IN /\ ChunkLen(first) \in Nat /\ ChunkLen(first) =< ChunkHeaderLen + m
            /\ \/ ChunkLen(first) = ChunkLen(l.list[i])
               \/ ChunkLen(first) > (ChunkHeaderLen + m) - BlockSize
<1> DEFINE bb    == l.list[i]
           head  == SplitHead(bb, m)
           k     == m \div BlockSize
           first == IF Splits(l, i, m) THEN head ELSE bb
<1>1. /\ BlockSize \in Nat \ {0} /\ ChunkHeaderLen \in Nat /\ WordLen \in Nat /\ WordLen =< BlockSize
  BY SizesAssumption, FormatAssumption DEF FillFits
<1>2. l.list \in Seq(Nodes) /\ bb \in Nodes
  BY HeapNodes, ElementOfSeq
<1>3. k \in Nat /\ BlockSize * k =< m /\ m < BlockSize * k + BlockSize /\ BlockSize * k \in Nat
  <2>1. k \in Nat /\ BlockSize * k =< m /\ m < BlockSize * k + BlockSize
    BY <1>1, DivFacts
  <2> QED BY <1>1, <2>1
<1>4. AlignDown(m, BlockSize) = BlockSize * k
  BY DEF AlignDown
<1>5. CASE Splits(l, i, m)
  <2>1. first = head
    BY <1>5
  <2>2. bb.len > AlignDown(m, BlockSize)
    BY <1>5 DEF Splits
  <2>3. NBlocks(head) = k /\ head \in Nodes
    <3>1. PICK id : id \in Addr
      BY <1>2 DEF Nodes
    <3> HIDE DEF bb, head, k
    <3> QED BY <1>2, <2>2, <3>1, SplitPieces DEF bb, head, k
  <2>4. head.type = bb.type
    BY <1>2 DEF SplitHead, Nodes
  <2> HIDE DEF bb, head, k, first
  <2>5. CASE bb.type = "fill"
    <3>1. ChunkLen(first) = ChunkHeaderLen + WordLen /\ ChunkLen(bb) = ChunkHeaderLen + WordLen
      BY <2>1, <2>4, <2>5 DEF ChunkLen
    <3>2. ChunkHeaderLen + WordLen =< ChunkHeaderLen + m /\ ChunkHeaderLen + WordLen \in Nat
      BY <1>1
    <3> QED BY <3>1, <3>2 DEF bb, first, head
  <2>6. CASE bb.type # "fill"
    <3>1. ChunkLen(first) = ChunkHeaderLen + BlockSize * k
      BY <2>1, <2>3, <2>4, <2>6 DEF ChunkLen
    <3> DEFINE q == BlockSize * k
    <3> HIDE DEF q
    <3>2. q \in Nat /\ q =< m /\ m < q + BlockSize /\ ChunkLen(first) = ChunkHeaderLen + q
      BY <1>3, <3>1 DEF q
    <3>3. /\ ChunkLen(first) \in Nat /\ ChunkLen(first) =< ChunkHeaderLen + m
          /\ ChunkLen(first) > (ChunkHeaderLen + m) - BlockSize
      BY <1>1, <3>2
    <3> QED BY <3>3 DEF first, bb, head
  <2> QED BY <2>5, <2>6
<1>6. CASE ~ Splits(l, i, m)
  <2>1. first = bb
    BY <1>6
  <2>2. bb.len \in Nat /\ bb.len =< BlockSize * k
    <3>1. bb.len \in Nat
      BY <1>2, InsideFacts
    <3> QED BY <1>3, <1>4, <1>6, <3>1 DEF Splits
  <2>3. NBlocks(bb) \in Nat /\ BlockSize * NBlocks(bb) < bb.len + BlockSize
    BY <1>2, InsideFacts
  <2>4. ChunkLen(bb) \in Nat
    BY <1>2, ChunkLenFacts
  <2> HIDE DEF bb, head, k, first
  <2>5. ChunkLen(bb) =< ChunkHeaderLen + m
    <3>1. CASE bb.type = "fill"
      <4>1. ChunkLen(bb) = ChunkHeaderLen + WordLen
        BY <3>1 DEF ChunkLen
      <4> QED BY <1>1, <4>1
    <3>2. CASE bb.type # "fill"
      <4> DEFINE n == NBlocks(bb)
      <4>1. ChunkLen(bb) = ChunkHeaderLen + BlockSize * n
        BY <3>2 DEF ChunkLen
      <4> HIDE DEF n
      <4>2. n \in Nat /\ k \in Nat /\ BlockSize * n \in Nat /\ BlockSize * (k + 1) = BlockSize * k + BlockSize
        BY <1>1, <1>3, <2>3, MulLess DEF n
      <4>3. BlockSize * n < BlockSize * (k + 1)
        <5>1. BlockSize * n < bb.len + BlockSize
          BY <2>3 DEF n
        <5> QED BY <1>1, <1>3, <2>2, <4>2, <5>1
      <4>4. n < k + 1
        BY <1>1, <4>2, <4>3, MulLess
      <4>5. n =< k
        BY <4>2, <4>4
      <4>6. BlockSize * n =< BlockSize * k
        BY <1>1, <4>2, <4>5, MulLess
      <4> QED BY <1>1, <1>3, <4>1, <4>2, <4>6
    <3> QED BY <3>1, <3>2
  <2> QED BY <2>1, <2>4, <2>5 DEF first, bb, head
<1> QED BY <1>5, <1>6

-----------------------------------------------------------------------------
(* The invariant.                                                          *)

Short(list) == ChunksLen(list) =< Room + ChunkHeaderLen

Long(list) == 8 * (ChunksLen(list) + ChunkHeaderLen) >= 7 * Room

\* The locals of move_chunks_up_to_len measure the extents in front of bb, the
\* files handed out are short and, but for the last of all, long enough.
SInv ==
  /\ scan.file_len = ChunksLen(SubSeq(in_s.list, 1, scan.last))
  /\ scan.file_len =< Room
  /\ scan.last_block = LastBlock(in_s.list, scan.bb)
  /\ files = -1 => out_s_count = 0
  /\ \A i \in 1 .. Len(out_s) :
       /\ "split" \notin ToSet(faults) => Short(out_s[i].list)
       /\ i < Len(out_s) \/ ~done => Long(out_s[i].list)

LEMMA FrontEmpty ==
  ASSUME NEW list
  PROVE  ChunksLen(SubSeq(list, 1, 0)) = 0 /\ LastBlock(list, 1) = 0
<1>1. SubSeq(list, 1, 0) = <<>>
  BY SubSeqEmpty
<1> QED BY <1>1, ChunksLenEmpty DEF LastBlock

LEMMA InitSInv == IInv /\ Init => SInv
<1> SUFFICES ASSUME IInv, Init PROVE SInv OBVIOUS
<1>1. /\ scan.file_len = 0 /\ scan.last = 0 /\ scan.last_block = 0 /\ scan.bb = 1
      /\ out_s_count = 0 /\ out_s = <<>>
  BY DEF Init, ScanStart
<1>2. ChunksLen(SubSeq(in_s.list, 1, 0)) = 0 /\ LastBlock(in_s.list, 1) = 0
  BY FrontEmpty
<1>3. 0 =< Room
  BY RoomFacts, SizesAssumption
<1>4. Len(out_s) = 0
  BY <1>1
<1> QED BY <1>1, <1>2, <1>3, <1>4 DEF SInv

(* A file that is measured the right way, handed out or not.               *)
LEMMA FinishSizes ==
  ASSUME IInv, SInv, ~done,
         NEW from \in Heaps, NEW n \in 0 .. Len(from.list), NEW more \in BOOLEAN,
         FinishFile(from, n, more),
         "split" \notin ToSet(faults') =>
           "split" \notin ToSet(faults) /\ Short(SubSeq(from.list, 1, n)),
         more => Long(SubSeq(from.list, 1, n))
  PROVE  SInv'
<1> DEFINE chain == SubSeq(from.list, 1, n)
           file  == MoveTo(EmptyList, chain)
<1>1. /\ out_s \in Seq(Heaps) /\ out_s_count \in Nat /\ c \in Nat /\ files \in Nat \cup {-1}
      /\ Len(out_s) \in Nat
  BY LenProperties DEF IInv, ListsGood, CountsGood
<1>2. file.list = chain /\ file \in Heaps
  <2>1. chain \in Seq(Bits)
    BY MoveFromGood
  <2>2. EmptyList \in Heaps
    <3>1. <<>> \in Seq(Bits) OBVIOUS
    <3> QED BY <3>1, UncachedHeap DEF EmptyList
  <2>3. file \in Heaps
    BY <2>1, <2>2, MoveToGood
  <2> QED BY <2>3 DEF MoveTo, EmptyList
<1>3. /\ out_s' = IF HasRoom THEN Append(out_s, file) ELSE out_s
      /\ scan' = ScanStart /\ max_len' = max_len
      /\ more => UNCHANGED <<files, out_s_count, done>>
      /\ ~more => IF files = -1
                  THEN files' = c + 1 /\ out_s_count' = c + 1 /\ UNCHANGED done
                  ELSE done' = TRUE /\ UNCHANGED <<files, out_s_count>>
  BY DEF FinishFile
<1> HIDE DEF chain, file
<1>4. Room' = Room
  BY <1>3 DEF Room
<1>5. /\ scan'.file_len = ChunksLen(SubSeq(in_s'.list, 1, scan'.last))
      /\ scan'.file_len =< Room'
      /\ scan'.last_block = LastBlock(in_s'.list, scan'.bb)
  <2>1. ChunksLen(SubSeq(in_s'.list, 1, 0)) = 0 /\ LastBlock(in_s'.list, 1) = 0
    BY FrontEmpty
  <2>2. 0 =< Room
    BY RoomFacts, SizesAssumption
  <2>3. scan'.file_len = 0 /\ scan'.last = 0 /\ scan'.last_block = 0 /\ scan'.bb = 1
    BY <1>3 DEF ScanStart
  <2> QED BY <1>4, <2>1, <2>2, <2>3
<1>6. files' = -1 => out_s_count' = 0
  BY <1>1, <1>3 DEF SInv
<1>7. HasRoom /\ ~more => done'
  <2>1. HasRoom => files # -1
    BY <1>1 DEF SInv, HasRoom
  <2> QED BY <1>3, <2>1
<1>8. ASSUME NEW i \in 1 .. Len(out_s)
      PROVE  /\ "split" \notin ToSet(faults') => Short(out_s[i].list)
             /\ Long(out_s[i].list)
  BY DEF SInv
<1>9. ASSUME NEW i \in 1 .. Len(out_s')
      PROVE  /\ "split" \notin ToSet(faults') => Short(out_s'[i].list)
             /\ i < Len(out_s') \/ ~done' => Long(out_s'[i].list)
  <2>1. CASE ~HasRoom
    <3>1. out_s' = out_s
      BY <1>3, <2>1
    <3> QED BY <1>8, <3>1
  <2>2. CASE HasRoom
    <3>1. /\ Len(out_s') = Len(out_s) + 1 /\ out_s'[Len(out_s) + 1] = file
          /\ \A j \in 1 .. Len(out_s) : out_s'[j] = out_s[j]
      <4>1. out_s' = Append(out_s, file)
        BY <1>3, <2>2
      <4> QED BY <1>1, <1>2, <4>1, AppendProperties
    <3>2. CASE i \in 1 .. Len(out_s)
      BY <1>8, <3>1, <3>2
    <3>3. CASE i = Len(out_s) + 1
      <4>1. out_s'[i].list = chain /\ ~(i < Len(out_s'))
        BY <1>1, <1>2, <3>1, <3>3
      <4>2. ~done' => more
        BY <1>7, <2>2
      <4>3. "split" \notin ToSet(faults') => Short(chain)
        BY DEF chain
      <4>4. more => Long(chain)
        BY DEF chain
      <4> QED BY <4>1, <4>2, <4>3, <4>4
    <3> QED BY <1>1, <3>1, <3>2, <3>3
  <2> QED BY <2>1, <2>2
<1>10. \A i \in 1 .. Len(out_s') :
         /\ "split" \notin ToSet(faults') => Short(out_s[i].list)'
         /\ i < Len(out_s') \/ ~done' => Long(out_s[i].list)'
  BY <1>4, <1>9 DEF Short, Long
<1> QED BY <1>5, <1>6, <1>10 DEF SInv

(* What the extents up to the one looked at take.                          *)
LEMMA ScanLens ==
  ASSUME IInv, SInv, Looking
  PROVE  /\ scan.bb \in 1 .. Len(in_s.list) /\ BB \in Nodes
         /\ in_s \in Heaps /\ in_s.list \in Seq(Nodes)
         /\ scan.file_len = ChunksLen(SubSeq(in_s.list, 1, scan.last)) /\ scan.file_len \in Nat
         /\ scan.file_len =< Room
         /\ ChunkLen(BB) \in Nat
         /\ Count = ChunkLen(BB) + IF Gap(in_s.list, scan.bb) THEN ChunkHeaderLen ELSE 0
<1>1. in_s \in Heaps /\ in_s.list \in Seq(Nodes) /\ Len(in_s.list) \in Nat
  BY HeapNodes DEF IInv, ListsGood
<1>2. scan.bb \in 1 .. Len(in_s.list) /\ scan.file_len \in Nat
  BY <1>1 DEF IInv, ScanGood, Looking
<1>3. BB \in Nodes
  BY <1>1, <1>2, ElementOfSeq DEF BB
<1>4. ChunkLen(BB) \in Nat
  BY <1>3, ChunkLenFacts
<1>5. Count = ChunkLen(BB) + IF Gap(in_s.list, scan.bb) THEN ChunkHeaderLen ELSE 0
  <2>1. BB.block > scan.last_block <=> Gap(in_s.list, scan.bb)
    BY DEF SInv, Gap, BB
  <2> QED BY <2>1 DEF Count
<1> QED BY <1>1, <1>2, <1>3, <1>4, <1>5 DEF SInv

(* A file that ends with a split, or with an extent that did not split.    *)
LEMMA SplitSizes ==
  ASSUME IInv, KInv, SInv, scan.last = scan.bb - 1, Looking, ~Fits, MustSplit,
         RoomForEightBlocks, FillFits, NEW id \in Addr
  PROVE  LET list == Split(in_s, scan.bb, U(Left), id).list
         IN Short(SubSeq(list, 1, scan.bb)) /\ Long(SubSeq(list, 1, scan.bb))
<1> DEFINE m     == U(Left)
           list  == Split(in_s, scan.bb, m, id).list
           first == IF Splits(in_s, scan.bb, m) THEN SplitHead(BB, m) ELSE BB
           gap   == IF Gap(in_s.list, scan.bb) THEN ChunkHeaderLen ELSE 0
           len   == ChunksLen(SubSeq(list, 1, scan.bb))
<1>1. /\ BlockSize \in Nat \ {0} /\ ChunkHeaderLen \in Nat /\ gap \in 0 .. ChunkHeaderLen
  BY SizesAssumption, FormatAssumption
<1>2. /\ scan.bb \in 1 .. Len(in_s.list) /\ BB \in Nodes /\ in_s \in Heaps
      /\ scan.file_len = ChunksLen(SubSeq(in_s.list, 1, scan.last)) /\ scan.file_len \in Nat
      /\ scan.file_len =< Room
      /\ ChunkLen(BB) \in Nat
      /\ Count = ChunkLen(BB) + gap
  BY ScanLens
<1>3. Inside(BB)
  <2>1. \A x \in ToSet(in_s.list) : Inside(x)
    BY PiecesFacts
  <2>2. BB \in ToSet(in_s.list)
    BY <1>2, HeapFacts DEF BB, ToSet
  <2> QED BY <2>1, <2>2
<1>4. /\ m \in Nat /\ m = Left /\ m >= BlockSize
      /\ Room \in Nat /\ Room >= 8 * BlockSize
  BY CountFacts, RoomFacts
<1>5. Left = Room - (scan.file_len + ChunkHeaderLen)
  BY DEF Left
<1>6. ~(scan.file_len + Count =< Room)
  BY DEF Fits
<1> HIDE DEF m, gap
<1>7. len = scan.file_len + (ChunkLen(first) + gap)
  <2>1. Inside(in_s.list[scan.bb])
    BY <1>3 DEF BB
  <2>2. ChunksLen(SubSeq(list, 1, scan.bb)) =
          ChunksLen(SubSeq(in_s.list, 1, scan.bb - 1)) + (ChunkLen(first) + gap)
    BY <1>2, <1>4, <2>1, SplitLens DEF BB, gap
  <2> QED BY <1>2, <2>2
<1>8. /\ ChunkLen(first) \in Nat /\ ChunkLen(first) =< ChunkHeaderLen + m
      /\ ChunkLen(first) = ChunkLen(BB) \/ ChunkLen(first) > (ChunkHeaderLen + m) - BlockSize
  <2>1. Inside(in_s.list[scan.bb])
    BY <1>3 DEF BB
  <2> QED BY <1>2, <1>4, <2>1, FirstLen DEF BB
<1> DEFINE f == ChunkLen(first)
           s == scan.file_len
           r == Room
<1> HIDE DEF list, first, len, f, s, r
<1>9. /\ f \in Nat /\ s \in Nat /\ r \in Nat /\ gap \in Nat /\ len = s + (f + gap)
      /\ gap =< ChunkHeaderLen /\ f =< ChunkHeaderLen + m
      /\ m \in Nat /\ m = r - (s + ChunkHeaderLen) /\ r >= 8 * BlockSize
      /\ f = ChunkLen(BB) \/ f > (ChunkHeaderLen + m) - BlockSize
      /\ ~(s + (ChunkLen(BB) + gap) =< r)
  BY <1>1, <1>2, <1>4, <1>5, <1>6, <1>7, <1>8 DEF f, s, r
<1>10. len =< r + ChunkHeaderLen /\ len \in Nat
  BY <1>1, <1>9
<1>11. 8 * (len + ChunkHeaderLen) >= 7 * r
  <2>1. CASE f = ChunkLen(BB)
    <3>1. len > r
      BY <1>9, <2>1
    <3> QED BY <1>1, <1>9, <1>10, <3>1
  <2>2. CASE f > (ChunkHeaderLen + m) - BlockSize
    <3>1. len > r - BlockSize
      BY <1>1, <1>9, <2>2
    <3> QED BY <1>1, <1>9, <1>10, <3>1
  <2> QED BY <1>9, <2>1, <2>2
<1> QED BY <1>10, <1>11 DEF Short, Long, len, list, m, r

LEMMA NextSInv ==
  ASSUME RoomForEightBlocks, FillFits, IInv, KInv, OInv, SInv, [Next]_vars
  PROVE  SInv'
<1> DEFINE list == in_s.list
<1>1. /\ in_s \in Heaps /\ list \in Seq(Nodes) /\ Len(list) \in Nat
      /\ scan.bb \in Nat /\ scan.last \in 0 .. Len(list) /\ scan.last = scan.bb - 1
      /\ scan.bb =< Len(list) + 1 /\ scan.file_len \in Nat
      /\ Looking => scan.bb \in 1 .. Len(list) /\ scan.bb \in 0 .. Len(list)
  <2>1. in_s \in Heaps /\ list \in Seq(Nodes) /\ Len(list) \in Nat
    BY HeapNodes DEF IInv, ListsGood
  <2> QED BY <2>1 DEF IInv, ScanGood, Looking, OInv
<1>2. /\ BlockSize \in Nat \ {0} /\ ChunkHeaderLen \in Nat
      /\ Room \in Nat /\ Room >= 8 * BlockSize
  <2>1. UIntMod \in Nat
    BY SizesAssumption
  <2> QED BY <2>1, SizesAssumption, FormatAssumption, RoomFacts
<1>3. scan.file_len = ChunksLen(SubSeq(list, 1, scan.last)) /\ scan.file_len =< Room
  BY DEF SInv
<1>4. Short(SubSeq(list, 1, scan.last))
  BY <1>1, <1>2, <1>3 DEF Short
<1>5. ASSUME Looking
      PROVE  /\ Count \in Nat
             /\ ChunksLen(SubSeq(list, 1, scan.bb)) = scan.file_len + Count
  <2>1. /\ scan.bb \in 1 .. Len(list) /\ list \in Seq(Nodes)
        /\ Count = ChunkLen(BB) + IF Gap(list, scan.bb) THEN ChunkHeaderLen ELSE 0
    BY <1>5, ScanLens
  <2>2. ChunksLen(SubSeq(list, 1, scan.bb))
          = ChunksLen(SubSeq(list, 1, scan.bb - 1)) + StoredLen(list, scan.bb)
    BY <2>1, ChunksLenNext
  <2>3. StoredLen(list, scan.bb) = Count
    BY <2>1 DEF StoredLen, BB
  <2>4. Count \in Nat
    BY <1>5, CountFacts
  <2> QED BY <1>1, <1>3, <2>2, <2>3, <2>4
<1>6. ASSUME NEW call \in {"map", "split"}, Fault(call)
      PROVE  ToSet(faults') = ToSet(faults) \cup {call}
  BY <1>6, FaultSet
<1>7. CASE TakeChunk
  <2>1. /\ Looking /\ scan.file_len + Count =< Room
        /\ scan' = [bb         |-> scan.bb + 1,
                    last       |-> scan.bb,
                    file_len   |-> scan.file_len + Count,
                    last_block |-> EndBlock(BB)]
        /\ UNCHANGED <<in_s, out_s, out_s_count, max_len, files, done, faults>>
    BY <1>7 DEF TakeChunk, Fits
  <2>2. Room' = Room
    BY <2>1 DEF Room
  <2>3. scan'.file_len = ChunksLen(SubSeq(in_s'.list, 1, scan'.last)) /\ scan'.file_len =< Room'
    BY <1>5, <2>1, <2>2
  <2>4. scan'.last_block = LastBlock(in_s'.list, scan'.bb)
    <3>1. scan.bb + 1 # 1 /\ (scan.bb + 1) - 1 = scan.bb
      BY <1>1, <2>1
    <3>2. LastBlock(list, scan.bb + 1) = EndBlock(list[scan.bb])
      BY <3>1 DEF LastBlock
    <3> QED BY <2>1, <3>2 DEF BB
  <2>5. files' = -1 => out_s_count' = 0
    BY <2>1 DEF SInv
  <2>6. \A i \in 1 .. Len(out_s') :
         /\ "split" \notin ToSet(faults') => Short(out_s[i].list)'
         /\ i < Len(out_s') \/ ~done' => Long(out_s[i].list)'
    BY <2>1, <2>2 DEF SInv, Short, Long
  <2> QED BY <2>3, <2>4, <2>5, <2>6 DEF SInv
<1>8. CASE Addr \ Held # {} /\ SplitChunk(Fresh)
  <2> DEFINE m    == U(Left)
             from == Split(in_s, scan.bb, m, Fresh)
  <2>1. Fresh \in Addr
    BY <1>8 DEF Fresh
  <2>2. /\ Looking /\ ~Fits /\ MustSplit /\ FinishFile(from, scan.bb, TRUE)
        /\ UNCHANGED faults
    BY <1>8 DEF SplitChunk
  <2>3. Short(SubSeq(from.list, 1, scan.bb)) /\ Long(SubSeq(from.list, 1, scan.bb))
    BY <1>1, <2>1, <2>2, SplitSizes
  <2>4. scan.bb \in 1 .. Len(list) /\ ~done
    BY <1>1, <2>2 DEF Looking
  <2>5. m \in Nat /\ (RoomForEightBlocks => m >= BlockSize)
    BY <2>2, CountFacts
  <2> HIDE DEF m
  <2>6. from \in Heaps /\ Len(from.list) \in Nat /\ Len(list) =< Len(from.list)
    BY <1>1, <2>1, <2>4, <2>5, SplitGood
  <2> HIDE DEF from, list
  <2>7. scan.bb \in 0 .. Len(from.list)
    BY <1>1, <2>4, <2>6
  <2>8. "split" \notin ToSet(faults') => "split" \notin ToSet(faults)
    BY <2>2
  <2> QED BY <2>2, <2>3, <2>4, <2>6, <2>7, <2>8, FinishSizes
<1>9. CASE SplitFails
  <2>1. Looking /\ ~Fits /\ Fault("split") /\ FinishFile(in_s, scan.bb, TRUE) /\ ~done
    BY <1>9 DEF SplitFails, Looking
  <2>2. "split" \in ToSet(faults')
    BY <1>6, <2>1
  <2>3. Long(SubSeq(list, 1, scan.bb))
    <3>1. ~(scan.file_len + Count =< Room)
      BY <2>1 DEF Fits
    <3> DEFINE len == ChunksLen(SubSeq(list, 1, scan.bb))
    <3>2. len = scan.file_len + Count /\ Count \in Nat
      BY <1>5, <2>1
    <3> HIDE DEF len, list
    <3>3. len \in Nat /\ len > Room
      BY <1>1, <1>2, <3>1, <3>2
    <3>4. 8 * (len + ChunkHeaderLen) >= 7 * Room
      BY <1>2, <3>3
    <3> QED BY <3>4 DEF Long, len
  <2> QED BY <1>1, <2>1, <2>2, <2>3, FinishSizes
<1>10. CASE StopBefore
  <2>1. Looking /\ ~MustSplit /\ FinishFile(in_s, scan.last, TRUE) /\ UNCHANGED faults /\ ~done
    BY <1>10 DEF StopBefore, Looking
  <2>2. Long(SubSeq(list, 1, scan.last))
    <3>1. ~(Left > Room \div 8) /\ Left = Room - (scan.file_len + ChunkHeaderLen)
      BY <2>1 DEF MustSplit, Left
    <3> DEFINE q == Room \div 8
               f == scan.file_len
               r == Room
    <3>2. q \in Nat /\ 8 * q =< r
      BY <1>2
    <3> HIDE DEF q, f, r, list
    <3>3. f \in Nat /\ r \in Nat /\ ~(r - (f + ChunkHeaderLen) > q)
      BY <1>1, <1>2, <3>1 DEF q, f, r
    <3>4. 8 * (f + ChunkHeaderLen) >= 7 * r
      BY <1>2, <3>2, <3>3
    <3> QED BY <1>3, <3>4 DEF Long, f, r
  <2>3. "split" \notin ToSet(faults') => "split" \notin ToSet(faults)
    BY <2>1
  <2> QED BY <1>1, <1>4, <2>1, <2>2, <2>3, FinishSizes
<1>11. CASE EndOfList
  <2>1. FinishFile(in_s, scan.last, FALSE) /\ UNCHANGED faults /\ ~done
    BY <1>11 DEF EndOfList
  <2>2. "split" \notin ToSet(faults') => "split" \notin ToSet(faults)
    BY <2>1
  <2> QED BY <1>1, <1>4, <2>1, <2>2, FinishSizes
<1>12. CASE MapFails
  <2>1. FinishFile(in_s, 0, FALSE) /\ Fault("map") /\ ~done
    BY <1>12 DEF MapFails, Looking
  <2>2. "split" \notin ToSet(faults') => "split" \notin ToSet(faults)
    BY <1>6, <2>1
  <2>3. Short(SubSeq(list, 1, 0))
    <3>1. ChunksLen(SubSeq(list, 1, 0)) = 0
      BY FrontEmpty
    <3> QED BY <1>2, <3>1 DEF Short
  <2>4. 0 \in 0 .. Len(list)
    BY <1>1
  <2> QED BY <1>1, <2>1, <2>2, <2>3, <2>4, FinishSizes
<1>13. CASE UNCHANGED vars
  <2>1. UNCHANGED <<in_s, out_s, out_s_count, max_len, files, done, faults, scan>>
    BY <1>13 DEF vars
  <2>2. Room' = Room
    BY <2>1 DEF Room
  <2>3. \A i \in 1 .. Len(out_s') :
         /\ "split" \notin ToSet(faults') => Short(out_s[i].list)'
         /\ i < Len(out_s') \/ ~done' => Long(out_s[i].list)'
    BY <2>1, <2>2 DEF SInv, Short, Long
  <2>4. /\ scan'.file_len = ChunksLen(SubSeq(in_s'.list, 1, scan'.last)) /\ scan'.file_len =< Room'
        /\ scan'.last_block = LastBlock(in_s'.list, scan'.bb)
        /\ files' = -1 => out_s_count' = 0
    BY <2>1, <2>2 DEF SInv
  <2> QED BY <2>3, <2>4 DEF SInv
<1> QED BY <1>7, <1>8, <1>9, <1>10, <1>11, <1>12, <1>13 DEF Next

THEOREM SizesInvariance == RoomForEightBlocks /\ FillFits => (Spec => []SInv)
<1> SUFFICES ASSUME RoomForEightBlocks, FillFits PROVE Spec => []SInv OBVIOUS
<1>1. Init => SInv
  BY InitIInv, InitSInv
<1>2. IInv /\ KInv /\ OInv /\ SInv /\ [Next]_vars => SInv'
  BY NextSInv
<1> QED BY <1>1, <1>2, InitKInv, NextKInv, InitOInv, NextOInv, Invariance, PTL DEF Spec

(* However full a file gets, and whichever mapping fails, what             *)
(* sparse_file_resparse hands out is shorter than max_len: the header, the *)
(* chunks it counted, the skip chunk at the end and the one it did not     *)
(* count when it split an extent behind a gap.                             *)
THEOREM EveryFileFits == RoomForEightBlocks /\ FillFits => (Spec => []SizeBound)
<1> SUFFICES ASSUME RoomForEightBlocks, FillFits PROVE Spec => []SizeBound OBVIOUS
<1>1. ASSUME IInv, SInv PROVE SizeBound
  <2> SUFFICES ASSUME "split" \notin ToSet(faults), NEW i \in DOMAIN out_s
               PROVE  FileLen(out_s[i].list, FALSE) < max_len
    BY DEF SizeBound
  <2>1. i \in 1 .. Len(out_s) /\ out_s[i] \in Heaps
    <3>1. out_s \in Seq(Heaps)
      BY <1>1 DEF IInv, ListsGood
    <3> QED BY <3>1, LenProperties, ElementOfSeq
  <2> DEFINE len == ChunksLen(out_s[i].list)
             end == IF EndGap(out_s[i].list) THEN ChunkHeaderLen ELSE 0
             r   == Room
  <2>2. len =< r + ChunkHeaderLen
    BY <1>1, <2>1 DEF SInv, Short
  <2>3. len \in Nat
    <3> DEFINE l == out_s[i].list
               n == Len(l)
    <3>1. l \in Seq(Nodes) /\ n \in Nat
      BY <2>1, HeapNodes
    <3>2. CASE n = 0
      <4>1. l = <<>>
        BY <3>1, <3>2, EmptySeq
      <4> QED BY <4>1, ChunksLenEmpty
    <3>3. CASE n # 0
      <4>1. n \in 1 .. Len(l) /\ SubSeq(l, 1, n) = l
        BY <3>1, <3>3, SubSeqFull
      <4> HIDE DEF l, n
      <4>2. ChunksLen(SubSeq(l, 1, n)) \in Nat
        BY <3>1, <4>1, ChunksLenNext
      <4> QED BY <4>1, <4>2 DEF l
    <3> QED BY <3>2, <3>3
  <2>4. /\ HeaderLen \in Nat /\ ChunkHeaderLen \in Nat /\ WordLen \in Nat \ {0}
        /\ end \in 0 .. ChunkHeaderLen
    BY FormatAssumption, SizesAssumption DEF FillFits
  <2>5. r = max_len - (HeaderLen + (2 * ChunkHeaderLen + WordLen)) /\ r \in Nat /\ max_len \in Nat
    <3>1. max_len \in Nat
      BY <1>1, SizesAssumption, ResparseAssumption DEF IInv, CountsGood, UInt
    <3>2. Room \in Nat
      BY <1>1, SizesAssumption, RoomFacts
    <3> QED BY <1>1, <3>1, <3>2, RoomFacts
  <2> DEFINE fl == FileLen(out_s[i].list, FALSE)
             h  == HeaderLen
             ch  == ChunkHeaderLen
             w  == WordLen
             m  == max_len
  <2>6. fl = h + len + end + 0
    BY DEF FileLen
  <2>7. /\ h \in Nat /\ ch \in Nat /\ w \in Nat \ {0} /\ end \in 0 .. ch
        /\ len \in Nat /\ len =< r + ch
        /\ r = m - (h + (2 * ch + w)) /\ r \in Nat /\ m \in Nat
    BY <2>2, <2>3, <2>4, <2>5
  <2> HIDE DEF fl, len, end, r, h, ch, w, m
  <2>8. fl < m
    BY <2>6, <2>7
  <2> QED BY <2>8 DEF fl, m
<1> QED BY <1>1, SizesInvariance, Invariance, PTL

(* Every file but the last uses seven eighths of the room for chunks, up   *)
(* to the header of the extent that was left out: the splitting rule of    *)
(* move_chunks_up_to_len does what the comment at sparse.c:319 promises.   *)
THEOREM SevenEighthsUsed == RoomForEightBlocks /\ FillFits => (Spec => []SevenEighths)
<1> SUFFICES ASSUME RoomForEightBlocks, FillFits PROVE Spec => []SevenEighths OBVIOUS
<1>1. ASSUME IInv, SInv PROVE SevenEighths
  <2>1. Len(out_s) \in Nat
    BY <1>1, LenProperties DEF IInv, ListsGood
  <2>2. \A i \in 1 .. Len(out_s)-1 : i \in 1 .. Len(out_s) /\ i < Len(out_s)
    BY <2>1
  <2> QED BY <1>1, <2>2 DEF SInv, Long, SevenEighths
<1> QED BY <1>1, SizesInvariance, Invariance, PTL

-----------------------------------------------------------------------------
(* Where a pass ends its files.                                            *)

\* A list without its first p extents.
Behind(list, p) == SubSeq(list, p + 1, Len(list))

\* What the first n extents of a list take.
Fill(list, n) == ChunksLen(SubSeq(list, 1, n))

\* What is left of the room behind the chunk header of one more extent.
Beside(len, room) == room - (len + ChunkHeaderLen)

\* A file made from the front of a list ends with extent n although that does not
\* fit, or before extent n + 1, and no extent is cut.
EndsWith(list, n, room) ==
  /\ Fill(list, n) > room
  /\ n = 1 \/ Beside(Fill(list, n-1), room) > room \div 8
  /\ list[n].len =< AlignDown(Beside(Fill(list, n-1), room), BlockSize)

EndsBefore(list, n, room) ==
  /\ Fill(list, n) =< room
  /\ n < Len(list) /\ Fill(list, n+1) > room
  /\ Beside(Fill(list, n), room) =< room \div 8

FileEnds(list, n, room) ==
  /\ n \in 1 .. Len(list)
  /\ Fill(list, n-1) =< room
  /\ EndsWith(list, n, room) \/ EndsBefore(list, n, room)

LEMMA BehindFacts ==
  ASSUME NEW S, NEW list \in Seq(S), NEW p \in 0 .. Len(list)
  PROVE  /\ Behind(list, p) \in Seq(S) /\ Len(Behind(list, p)) = Len(list) - p
         /\ \A i \in 1 .. Len(list) - p : Behind(list, p)[i] = list[p + i]
<1>1. Len(list) \in Nat /\ p + 1 \in 1 .. Len(list) + 1
  BY LenProperties
<1>2. /\ Behind(list, p) \in Seq(S)
      /\ Len(Behind(list, p)) = Len(list) - (p + 1) + 1
      /\ \A j \in 1 .. Len(list) - (p + 1) + 1 : Behind(list, p)[j] = list[(p + 1) + j - 1]
  BY <1>1, BackProperties DEF Behind
<1>3. Len(list) - (p + 1) + 1 = Len(list) - p
  BY <1>1
<1>4. ASSUME NEW i \in 1 .. Len(list) - p PROVE Behind(list, p)[i] = list[p + i]
  <2>1. (p + 1) + i - 1 = p + i
    BY <1>1
  <2> QED BY <1>2, <1>3, <2>1
<1> QED BY <1>2, <1>3, <1>4

LEMMA BehindConcat ==
  ASSUME NEW S, NEW p \in Seq(S), NEW l \in Seq(S)
  PROVE  Behind(p \o l, Len(p)) = l /\ Len(p \o l) = Len(p) + Len(l) /\ p \o l \in Seq(S)
<1> DEFINE u == p \o l
           n == Len(p)
           m == Len(l)
           b == Behind(u, n)
<1>1. n \in Nat /\ m \in Nat
  BY LenProperties
<1>2. /\ u \in Seq(S) /\ Len(u) = n + m
      /\ \A j \in 1 .. n + m : u[j] = IF j =< n THEN p[j] ELSE l[j - n]
  BY ConcatProperties
<1> HIDE DEF u, n, m
<1>3. n \in 0 .. Len(u) /\ Len(u) - n = m
  BY <1>1, <1>2
<1>4. b \in Seq(S) /\ Len(b) = m /\ \A i \in 1 .. m : b[i] = u[n + i]
  BY <1>2, <1>3, BehindFacts
<1> HIDE DEF b
<1>5. ASSUME NEW i \in 1 .. m PROVE b[i] = l[i]
  <2>1. n + i \in 1 .. n + m /\ ~(n + i =< n) /\ (n + i) - n = i
    BY <1>1
  <2>2. u[n + i] = l[i]
    BY <1>2, <2>1
  <2> QED BY <1>4, <2>2
<1>6. Len(b) = Len(l) /\ \A i \in 1 .. Len(l) : b[i] = l[i]
  BY <1>4, <1>5 DEF m
<1>7. b = l
  BY <1>4, <1>6, SeqEqual
<1> QED BY <1>2, <1>7 DEF b, u, n, m

LEMMA FillNext ==
  ASSUME NEW list \in Seq(Nodes), NEW n \in 1 .. Len(list)
  PROVE  /\ Fill(list, n) = Fill(list, n-1) + StoredLen(list, n)
         /\ Fill(list, n) \in Nat /\ Fill(list, n-1) \in Nat
         /\ StoredLen(list, n) \in Nat /\ StoredLen(list, n) >= ChunkLen(list[n])
         /\ ChunkLen(list[n]) >= ChunkHeaderLen /\ ChunkLen(list[n]) \in Nat
<1>1. /\ Fill(list, n) = Fill(list, n-1) + StoredLen(list, n)
      /\ Fill(list, n) \in Nat /\ Fill(list, n-1) \in Nat
  BY ChunksLenNext DEF Fill
<1>2. list[n] \in Nodes
  BY ElementOfSeq
<1>3. ChunkHeaderLen \in Nat /\ WordLen \in Nat /\ BlockSize \in Nat
  BY FormatAssumption, SizesAssumption
<1>4. ChunkLen(list[n]) \in Nat /\ NBlocks(list[n]) \in Nat
  BY <1>2, ChunkLenFacts
<1>5. ChunkLen(list[n]) >= ChunkHeaderLen
  <2>1. BlockSize * NBlocks(list[n]) \in Nat
    BY <1>3, <1>4
  <2> QED BY <1>3, <2>1 DEF ChunkLen
<1>6. StoredLen(list, n) \in Nat /\ StoredLen(list, n) >= ChunkLen(list[n])
  BY <1>3, <1>4 DEF StoredLen
<1> QED BY <1>1, <1>4, <1>5, <1>6

LEMMA FillNat ==
  ASSUME NEW list \in Seq(Nodes), NEW n \in 0 .. Len(list)
  PROVE  Fill(list, n) \in Nat /\ (n = 0 => Fill(list, n) = 0)
<1>1. Len(list) \in Nat
  BY LenProperties
<1>2. CASE n = 0
  BY <1>2, FrontEmpty DEF Fill
<1>3. CASE n # 0
  <2>1. n \in 1 .. Len(list)
    BY <1>1, <1>3
  <2> QED BY <1>3, <2>1, FillNext
<1> QED BY <1>2, <1>3

LEMMA FillGrows ==
  ASSUME NEW list \in Seq(Nodes), NEW n \in 0 .. Len(list), NEW m \in 0 .. Len(list), n =< m
  PROVE  Fill(list, n) =< Fill(list, m)
<1> DEFINE T == {k \in n .. Len(list) : ~(Fill(list, n) =< Fill(list, k))}
<1>1. Len(list) \in Nat /\ n \in Nat /\ m \in Nat
  BY LenProperties
<1>2. ASSUME T # {} PROVE FALSE
  <2>1. T \in SUBSET Nat
    BY <1>1
  <2>2. PICK k \in T : \A j \in T : k =< j
    <3> HIDE DEF T
    <3> QED BY <1>2, <2>1, LeastElement
  <2>3. k \in n .. Len(list) /\ ~(Fill(list, n) =< Fill(list, k))
    OBVIOUS
  <2>4. Fill(list, n) \in Nat
    BY FillNat
  <2>5. k # n
    BY <2>3, <2>4
  <2>6. k \in 1 .. Len(list) /\ k - 1 \in n .. Len(list) /\ ~(k =< k - 1)
    BY <1>1, <2>3, <2>5
  <2>7. k - 1 \notin T
    <3> HIDE DEF T
    <3> QED BY <2>2, <2>6
  <2>8. Fill(list, n) =< Fill(list, k-1)
    BY <2>6, <2>7
  <2>9. /\ Fill(list, k) = Fill(list, k-1) + StoredLen(list, k)
        /\ Fill(list, k-1) \in Nat /\ StoredLen(list, k) \in Nat
    BY <2>6, FillNext
  <2> QED BY <2>3, <2>4, <2>8, <2>9
<1>3. m \in n .. Len(list)
  BY <1>1
<1> QED BY <1>2, <1>3

LEMMA FillSame ==
  ASSUME NEW l \in Seq(Nodes), NEW m \in Seq(Nodes), NEW n \in Nat, n =< Len(l), n =< Len(m),
         \A i \in 1 .. n : l[i] = m[i]
  PROVE  Fill(l, n) = Fill(m, n)
BY SubSeqSame DEF Fill

(* A file that ends somewhere does so whatever is behind, as long as the   *)
(* next extent still does not fit.                                         *)
LEMMA EndStays ==
  ASSUME NEW l \in Seq(Nodes), NEW m \in Seq(Nodes), NEW n, NEW room \in Nat,
         FileEnds(l, n, room), Len(l) =< Len(m),
         \A i \in 1 .. n : l[i] = m[i],
         EndsBefore(l, n, room) => Fill(m, n+1) > room
  PROVE  FileEnds(m, n, room)
<1>1. Len(l) \in Nat /\ Len(m) \in Nat /\ n \in 1 .. Len(l)
  BY LenProperties DEF FileEnds
<1>2. /\ n \in 1 .. Len(m) /\ n \in Nat /\ n - 1 \in Nat
      /\ n =< Len(l) /\ n =< Len(m) /\ n - 1 =< Len(l) /\ n - 1 =< Len(m)
      /\ \A i \in 1 .. n-1 : i \in 1 .. n
      /\ n \in 1 .. n
      /\ n < Len(l) => n < Len(m)
  BY <1>1
<1>3. Fill(m, n) = Fill(l, n) /\ Fill(m, n-1) = Fill(l, n-1) /\ m[n] = l[n]
  BY <1>2, FillSame
<1>4. CASE EndsWith(l, n, room)
  <2>1. EndsWith(m, n, room)
    BY <1>3, <1>4 DEF EndsWith
  <2> QED BY <1>2, <1>3, <2>1 DEF FileEnds
<1>5. CASE EndsBefore(l, n, room)
  <2>1. EndsBefore(m, n, room)
    BY <1>2, <1>3, <1>5 DEF EndsBefore
  <2> QED BY <1>2, <1>3, <2>1 DEF FileEnds
<1> QED BY <1>4, <1>5 DEF FileEnds

(* The first extent that does not fit tells where the file ends.           *)
LEMMA EndFound ==
  ASSUME NEW list \in Seq(Nodes), NEW n, NEW room \in Nat, FileEnds(list, n, room),
         NEW i \in 1 .. Len(list), Fill(list, i-1) =< room, Fill(list, i) > room
  PROVE  IF i = 1 \/ Beside(Fill(list, i-1), room) > room \div 8
         THEN i = n /\ list[n].len =< AlignDown(Beside(Fill(list, n-1), room), BlockSize)
         ELSE i - 1 = n
<1>1. Len(list) \in Nat /\ n \in 1 .. Len(list) /\ Fill(list, n-1) =< room
  BY LenProperties DEF FileEnds
<1>2. Fill(list, i) \in Nat /\ Fill(list, i-1) \in Nat /\ Fill(list, n) \in Nat /\ Fill(list, n-1) \in Nat
  BY <1>1, FillNext
<1>3. CASE EndsWith(list, n, room)
  <2>1. Fill(list, n) > room
    BY <1>3 DEF EndsWith
  <2>2. ~(i < n)
    <3>1. ASSUME i < n PROVE Fill(list, i) =< Fill(list, n-1)
      <4>1. i \in 0 .. Len(list) /\ n - 1 \in 0 .. Len(list) /\ i =< n - 1
        BY <1>1, <3>1
      <4> QED BY <4>1, FillGrows
    <3> QED BY <1>1, <1>2, <3>1
  <2>3. ~(n < i)
    <3>1. ASSUME n < i PROVE Fill(list, n) =< Fill(list, i-1)
      <4>1. n \in 0 .. Len(list) /\ i - 1 \in 0 .. Len(list) /\ n =< i - 1
        BY <1>1, <3>1
      <4> QED BY <4>1, FillGrows
    <3> QED BY <1>1, <1>2, <2>1, <3>1
  <2>4. i = n
    BY <1>1, <2>2, <2>3
  <2> QED BY <1>3, <2>4 DEF EndsWith
<1>4. CASE EndsBefore(list, n, room)
  <2>1. /\ Fill(list, n) =< room /\ n < Len(list) /\ Fill(list, n+1) > room
        /\ Beside(Fill(list, n), room) =< room \div 8
    BY <1>4 DEF EndsBefore
  <2>2. ~(i =< n)
    <3>1. ASSUME i =< n PROVE Fill(list, i) =< Fill(list, n)
      <4>1. i \in 0 .. Len(list) /\ n \in 0 .. Len(list) /\ i =< n
        BY <1>1, <3>1
      <4> QED BY <4>1, FillGrows
    <3> QED BY <1>1, <1>2, <2>1, <3>1
  <2>3. ~(n + 1 < i)
    <3>1. ASSUME n + 1 < i PROVE Fill(list, n+1) =< Fill(list, i-1)
      <4>1. n + 1 \in 0 .. Len(list) /\ i - 1 \in 0 .. Len(list) /\ n + 1 =< i - 1
        BY <1>1, <3>1
      <4> QED BY <4>1, FillGrows
    <3>2. Fill(list, n+1) \in Nat
      <4>1. n + 1 \in 0 .. Len(list)
        BY <1>1, <2>1
      <4> QED BY <4>1, FillNat
    <3> QED BY <1>1, <1>2, <2>1, <3>1, <3>2
  <2>4. i - 1 = n /\ i # 1
    BY <1>1, <2>2, <2>3
  <2>5. ~(Beside(Fill(list, n), room) > room \div 8)
    <3>1. Beside(Fill(list, n), room) \in Int /\ room \div 8 \in Nat
      BY <1>2, FormatAssumption DEF Beside
    <3> QED BY <2>1, <3>1
  <2> QED BY <2>4, <2>5
<1> QED BY <1>3, <1>4 DEF FileEnds

(* A list in which a file ends does not fit into one.                      *)
LEMMA EndOverflows ==
  ASSUME NEW list \in Seq(Nodes), NEW n, NEW room \in Nat, FileEnds(list, n, room)
  PROVE  Fill(list, Len(list)) > room
<1>1. Len(list) \in Nat /\ n \in 1 .. Len(list) /\ Len(list) \in 0 .. Len(list)
  BY LenProperties DEF FileEnds
<1>2. Fill(list, Len(list)) \in Nat
  BY <1>1, FillNat
<1>3. CASE EndsWith(list, n, room)
  <2>1. n \in 0 .. Len(list) /\ n =< Len(list)
    BY <1>1
  <2>2. Fill(list, n) =< Fill(list, Len(list)) /\ Fill(list, n) \in Nat
    BY <1>1, <2>1, FillGrows, FillNat
  <2> QED BY <1>2, <1>3, <2>2 DEF EndsWith
<1>4. CASE EndsBefore(list, n, room)
  <2>1. n + 1 \in 0 .. Len(list) /\ n + 1 =< Len(list)
    BY <1>1, <1>4 DEF EndsBefore
  <2>2. Fill(list, n+1) =< Fill(list, Len(list)) /\ Fill(list, n+1) \in Nat
    BY <1>1, <2>1, FillGrows, FillNat
  <2> QED BY <1>2, <1>4, <2>2 DEF EndsBefore
<1> QED BY <1>3, <1>4 DEF FileEnds

-----------------------------------------------------------------------------
(* Where the first pass ends its files, the second one does.               *)

LEMMA RoomNumbers ==
  ASSUME IInv, RoomForEightBlocks, FillFits
  PROVE  /\ BlockSize \in Nat \ {0} /\ ChunkHeaderLen \in Nat /\ ChunkHeaderLen =< 7 * BlockSize
         /\ Room \in Nat /\ Room >= 8 * BlockSize
<1>1. UIntMod \in Nat
  BY SizesAssumption
<1> QED BY <1>1, SizesAssumption, FormatAssumption, RoomFacts

(* What the scan has measured and what it is about to.                     *)
LEMMA ScanFills ==
  ASSUME IInv, OInv, SInv
  PROVE  /\ in_s \in Heaps /\ in_s.list \in Seq(Nodes) /\ Len(in_s.list) \in Nat
         /\ scan.bb \in Nat /\ scan.last = scan.bb - 1 /\ scan.last \in 0 .. Len(in_s.list)
         /\ scan.file_len = Fill(in_s.list, scan.last) /\ scan.file_len \in Nat /\ scan.file_len =< Room
         /\ Looking => /\ scan.bb \in 1 .. Len(in_s.list)
                       /\ Fits <=> Fill(in_s.list, scan.bb) =< Room
                       /\ Left = Beside(Fill(in_s.list, scan.bb - 1), Room)
<1> DEFINE list == in_s.list
<1>1. /\ in_s \in Heaps /\ list \in Seq(Nodes) /\ Len(list) \in Nat
      /\ scan.bb \in Nat /\ scan.last \in 0 .. Len(list) /\ scan.last = scan.bb - 1
      /\ scan.bb =< Len(list) + 1 /\ scan.file_len \in Nat
      /\ Looking => scan.bb \in 1 .. Len(list)
  <2>1. in_s \in Heaps /\ list \in Seq(Nodes) /\ Len(list) \in Nat
    BY HeapNodes DEF IInv, ListsGood
  <2> QED BY <2>1 DEF IInv, ScanGood, Looking, OInv
<1>2. scan.file_len = Fill(list, scan.last) /\ scan.file_len =< Room
  BY DEF SInv, Fill
<1>3. ASSUME Looking
      PROVE  /\ Fits <=> Fill(list, scan.bb) =< Room
             /\ Left = Beside(Fill(list, scan.bb - 1), Room)
  <2>1. Count = ChunkLen(BB) + IF Gap(list, scan.bb) THEN ChunkHeaderLen ELSE 0
    BY <1>3, ScanLens
  <2>2. Fill(list, scan.bb) = Fill(list, scan.bb - 1) + StoredLen(list, scan.bb)
    BY <1>1, <1>3, FillNext
  <2>3. StoredLen(list, scan.bb) = Count
    BY <2>1 DEF StoredLen, BB
  <2>4. Fill(list, scan.bb) = scan.file_len + Count
    BY <1>1, <1>2, <2>2, <2>3
  <2> QED BY <1>1, <1>2, <2>4 DEF Fits, Left, Beside
<1> QED BY <1>1, <1>2, <1>3

(* A file that is not filled up ends before the extent looked at.          *)
LEMMA StopEnds ==
  ASSUME IInv, OInv, SInv, RoomForEightBlocks, FillFits, Looking, ~Fits, ~MustSplit
  PROVE  FileEnds(in_s.list, scan.last, Room)
<1> DEFINE list == in_s.list
           n    == scan.last
<1>1. /\ list \in Seq(Nodes) /\ Len(list) \in Nat /\ n \in 0 .. Len(list)
      /\ scan.bb \in Nat /\ n = scan.bb - 1 /\ scan.bb \in 1 .. Len(list)
      /\ Fill(list, n) =< Room /\ ~(Fill(list, scan.bb) =< Room)
      /\ Left = Beside(Fill(list, n), Room)
  BY ScanFills
<1>2. n # 0 /\ ~(Left > Room \div 8)
  BY DEF MustSplit
<1>3. Room \in Nat /\ ChunkHeaderLen \in Nat
  BY RoomNumbers
<1>4. /\ n \in 1 .. Len(list) /\ n < Len(list) /\ n + 1 = scan.bb
      /\ n - 1 \in 0 .. Len(list) /\ n - 1 =< n /\ n + 1 \in 0 .. Len(list)
  BY <1>1, <1>2
<1>5. Fill(list, n-1) \in Nat /\ Fill(list, n) \in Nat /\ Fill(list, n+1) \in Nat
  BY <1>1, <1>4, FillNat
<1>6. Fill(list, n-1) =< Fill(list, n)
  BY <1>1, <1>4, FillGrows
<1>7. Fill(list, n+1) > Room
  BY <1>1, <1>3, <1>4, <1>5
<1>8. Beside(Fill(list, n), Room) =< Room \div 8
  <2>1. Beside(Fill(list, n), Room) \in Int /\ Room \div 8 \in Int
    BY <1>3, <1>5 DEF Beside
  <2> QED BY <1>1, <1>2, <2>1
<1> HIDE DEF list, n
<1>9. EndsBefore(list, n, Room)
  BY <1>1, <1>4, <1>7, <1>8 DEF EndsBefore
<1>10. Fill(list, n-1) =< Room
  BY <1>1, <1>3, <1>5, <1>6
<1> QED BY <1>4, <1>9, <1>10 DEF FileEnds, list, n

(* An extent with data in it takes a block at least.                       *)
LEMMA DataChunkLen ==
  ASSUME NEW x \in Nodes, Inside(x), x.len > 0, x.type # "fill"
  PROVE  ChunkLen(x) >= BlockSize /\ ChunkLen(x) \in Nat
<1> DEFINE k == NBlocks(x)
<1>1. BlockSize \in Nat \ {0} /\ ChunkHeaderLen \in Nat
  BY SizesAssumption, FormatAssumption
<1>2. k \in Nat /\ x.len =< BlockSize * k /\ x.len \in Nat
  BY InsideFacts
<1>3. ChunkLen(x) = ChunkHeaderLen + BlockSize * k
  BY DEF ChunkLen
<1> HIDE DEF k
<1>4. k # 0
  <2>1. k = 0 => BlockSize * k = 0
    BY <1>1
  <2> QED BY <1>2, <2>1
<1>5. BlockSize * 1 =< BlockSize * k /\ BlockSize * k \in Int
  <2>1. k \in Nat /\ 1 =< k
    BY <1>2, <1>4
  <2> QED BY <1>1, <2>1, MulLess
<1> QED BY <1>1, <1>3, <1>5

LEMMA RestIsLess ==
  ASSUME NEW whole \in Nat, NEW len \in Nat, NEW h \in Nat, NEW d \in Nat, NEW g \in Nat,
         NEW k \in Nat, NEW m \in Nat, m = whole - (len + h), k > (h + m) - d
  PROVE  len + (k + g) > whole - d
OBVIOUS

(* One that is filled up ends with the piece that was cut off for it, or   *)
(* before the other one.                                                   *)
LEMMA SplitEndsAt ==
  ASSUME NEW bl \in Heaps, NEW n \in 1 .. Len(bl.list), NEW id \in Addr,
         NEW m \in Nat, m >= BlockSize, NEW room \in Nat, room >= 8 * BlockSize,
         FillFits, Inside(bl.list[n]),
         Fill(bl.list, n-1) =< room, Fill(bl.list, n) > room,
         m = Beside(Fill(bl.list, n-1), room), n = 1 \/ m > room \div 8
  PROVE  FileEnds(Split(bl, n, m, id).list, n, room)
<1> DEFINE list  == bl.list
           s     == Split(bl, n, m, id).list
           first == IF Splits(bl, n, m) THEN SplitHead(list[n], m) ELSE list[n]
           gap   == IF Gap(list, n) THEN ChunkHeaderLen ELSE 0
           len   == Fill(list, n-1)
<1>1. BlockSize \in Nat \ {0} /\ ChunkHeaderLen \in Nat /\ gap \in Nat
  <2>1. BlockSize \in Nat \ {0} /\ ChunkHeaderLen \in Nat
    BY SizesAssumption, FormatAssumption
  <2> QED BY <2>1
<1>2. /\ list \in Seq(Nodes) /\ Len(list) \in Nat /\ n \in Nat
      /\ bl \in [list : Seq(Nodes), last_used : Addr \cup {NULL}]
  BY HeapNodes
<1>3. list[n] \in Nodes
  BY <1>2, ElementOfSeq
<1>4. Fill(s, n) = len + (ChunkLen(first) + gap)
  BY SplitLens DEF Fill
<1>5. /\ ChunkLen(first) \in Nat
      /\ ChunkLen(first) = ChunkLen(list[n]) \/ ChunkLen(first) > (ChunkHeaderLen + m) - BlockSize
  BY FirstLen
<1>6. /\ Fill(list, n) = len + (ChunkLen(list[n]) + gap)
      /\ ChunkLen(list[n]) \in Nat /\ Fill(list, n) \in Nat /\ len \in Nat
  BY <1>2, FillNext DEF StoredLen
<1>7. AlignDown(m, BlockSize) \in Int
  <2>1. m \div BlockSize \in Nat
    BY <1>1, DivFacts
  <2>2. BlockSize * (m \div BlockSize) \in Int
    BY <1>1, <2>1
  <2> QED BY <2>2 DEF AlignDown
<1>8. m = room - (len + ChunkHeaderLen)
  BY DEF Beside
<1>9. CASE ~ Splits(bl, n, m)
  <2>1. s = list
    BY <1>9 DEF Split
  <2>2. list[n].len =< AlignDown(m, BlockSize)
    <3>1. list[n].len \in Nat
      BY <1>3, InsideFacts
    <3> QED BY <1>7, <1>9, <3>1 DEF Splits
  <2>3. EndsWith(list, n, room)
    BY <2>2 DEF EndsWith
  <2>4. FileEnds(list, n, room)
    BY <2>3 DEF FileEnds
  <2> QED BY <2>1, <2>4
<1>10. CASE Splits(bl, n, m)
  <2> DEFINE head == SplitHead(list[n], m)
             rest == SplitRest(list[n], m, id)
  <2>1. /\ s \in Seq(Nodes) /\ Len(s) = Len(list) + 1
        /\ \A j \in 1 .. n - 1 : s[j] = list[j]
        /\ s[n] = head /\ s[n + 1] = rest
    BY <1>2, <1>10, SplitElements, SMTT(40)
  <2>2. head.len = AlignDown(m, BlockSize) /\ rest \in Nodes /\ Inside(rest) /\ rest.len > 0
    <3>1. list[n].len > AlignDown(m, BlockSize)
      BY <1>10 DEF Splits
    <3> QED BY <1>3, <3>1, SplitPieces
  <2>3. first = head
    BY <1>10
  <2>4. rest.type = list[n].type /\ head.type = list[n].type
    BY <1>3 DEF SplitHead, SplitRest, Nodes
  <2> HIDE DEF head, rest, first, s, gap
  <2>5. Fill(s, n-1) = len
    <3>1. n - 1 \in Nat /\ n - 1 =< Len(s) /\ n - 1 =< Len(list)
      BY <1>2, <2>1
    <3> QED BY <1>2, <2>1, <3>1, FillSame
  <2>6. n \in 1 .. Len(s) /\ n < Len(s) /\ n + 1 \in 1 .. Len(s) /\ (n + 1) - 1 = n
    BY <1>2, <2>1
  <2>7. CASE Fill(s, n) > room
    <3>1. s[n].len =< AlignDown(Beside(Fill(s, n-1), room), BlockSize)
      BY <1>7, <2>1, <2>2, <2>5
    <3>2. n = 1 \/ Beside(Fill(s, n-1), room) > room \div 8
      BY <2>5
    <3>3. EndsWith(s, n, room)
      BY <2>7, <3>1, <3>2 DEF EndsWith
    <3> QED BY <2>5, <2>6, <3>3 DEF FileEnds, s
  <2>8. CASE ~(Fill(s, n) > room)
    <3>1. Fill(s, n) \in Nat /\ Fill(s, n) =< room
      <4>1. Fill(s, n) \in Nat
        BY <2>1, <2>6, FillNext
      <4> QED BY <2>8, <4>1
    <3>2. ChunkLen(head) # ChunkLen(list[n])
      BY <1>1, <1>4, <1>6, <2>3, <3>1
    <3>3. ChunkLen(head) > (ChunkHeaderLen + m) - BlockSize /\ ChunkLen(head) \in Nat
      BY <1>5, <2>3, <3>2
    <3>4. list[n].type # "fill"
      BY <2>4, <3>2 DEF ChunkLen
    <3>5. ChunkLen(rest) >= BlockSize /\ ChunkLen(rest) \in Nat
      BY <2>2, <2>4, <3>4, DataChunkLen
    <3>6. Fill(s, n) > room - BlockSize
      <4>1. Fill(s, n) = len + (ChunkLen(head) + gap)
        BY <1>4, <2>3
      <4>2. BlockSize \in Nat
        BY <1>1
      <4> DEFINE k == ChunkLen(head)
      <4>3. /\ len \in Nat /\ ChunkHeaderLen \in Nat /\ gap \in Nat /\ k \in Nat
            /\ m = room - (len + ChunkHeaderLen) /\ k > (ChunkHeaderLen + m) - BlockSize
        BY <1>1, <1>6, <1>8, <3>3
      <4> HIDE DEF len, k
      <4>4. len + (k + gap) > room - BlockSize
        BY <4>2, <4>3, RestIsLess
      <4> QED BY <4>1, <4>4 DEF k
    <3>7. Fill(s, n+1) > room
      <4>1. /\ Fill(s, n+1) = Fill(s, n) + StoredLen(s, n+1)
            /\ StoredLen(s, n+1) >= ChunkLen(rest) /\ StoredLen(s, n+1) \in Nat
        BY <2>1, <2>6, FillNext
      <4> QED BY <1>1, <3>1, <3>5, <3>6, <4>1
    <3>8. Beside(Fill(s, n), room) =< room \div 8
      <4>1. room \div 8 \in Nat /\ room \div 8 >= BlockSize
        BY <1>1
      <4> QED BY <1>1, <3>1, <3>6, <4>1, SMTT(40) DEF Beside
    <3>9. EndsBefore(s, n, room)
      BY <2>6, <3>1, <3>7, <3>8 DEF EndsBefore
    <3> QED BY <2>5, <2>6, <3>9 DEF FileEnds, s
  <2> QED BY <2>7, <2>8
<1> QED BY <1>9, <1>10

LEMMA SplitEnds ==
  ASSUME IInv, KInv, OInv, SInv, RoomForEightBlocks, FillFits, Looking, ~Fits, MustSplit,
         NEW id \in Addr
  PROVE  FileEnds(Split(in_s, scan.bb, U(Left), id).list, scan.bb, Room)
<1>1. Room \in Nat /\ Room >= 8 * BlockSize
  BY RoomNumbers
<1>2. /\ in_s \in Heaps /\ in_s.list \in Seq(Nodes) /\ Len(in_s.list) \in Nat
      /\ scan.bb \in 1 .. Len(in_s.list) /\ scan.last = scan.bb - 1
      /\ Fill(in_s.list, scan.bb - 1) =< Room /\ ~(Fill(in_s.list, scan.bb) =< Room)
      /\ Left = Beside(Fill(in_s.list, scan.bb - 1), Room)
  BY ScanFills
<1>3. U(Left) \in Nat /\ U(Left) = Left /\ U(Left) >= BlockSize
  BY CountFacts
<1>4. Inside(in_s.list[scan.bb])
  <2>1. \A x \in ToSet(in_s.list) : Inside(x)
    BY PiecesFacts
  <2>2. in_s.list[scan.bb] \in ToSet(in_s.list)
    BY <1>2, LenProperties DEF ToSet
  <2> QED BY <2>1, <2>2
<1>5. scan.bb = 1 \/ U(Left) > Room \div 8
  BY <1>2, <1>3 DEF MustSplit
<1>6. Fill(in_s.list, scan.bb) > Room
  <2>1. Fill(in_s.list, scan.bb) \in Nat
    BY <1>2, FillNext
  <2> QED BY <1>1, <1>2, <2>1
<1>7. U(Left) = Beside(Fill(in_s.list, scan.bb - 1), Room)
  BY <1>2, <1>3
<1> QED BY <1>1, <1>2, <1>3, <1>4, <1>5, <1>6, <1>7, SplitEndsAt

(* The extent before which a file ended still does not fit when a piece as *)
(* long as a file was cut off it.                                          *)
LEMMA NextStillTooLong ==
  ASSUME NEW l \in Seq(Nodes), NEW m \in Seq(Nodes), NEW n \in Nat \ {0}, NEW room \in Nat,
         n < Len(l), n < Len(m), \A i \in 1 .. n : l[i] = m[i],
         EndsBefore(l, n, room), room >= 8 * BlockSize,
         m[n+1].block = l[n+1].block,
         ChunkLen(m[n+1]) = ChunkLen(l[n+1]) \/ ChunkLen(m[n+1]) > room - BlockSize
  PROVE  Fill(m, n+1) > room
<1>1. BlockSize \in Nat \ {0} /\ ChunkHeaderLen \in Nat
  BY SizesAssumption, FormatAssumption
<1>2. /\ Len(l) \in Nat /\ Len(m) \in Nat /\ n + 1 \in 1 .. Len(l) /\ n + 1 \in 1 .. Len(m)
      /\ n \in 1 .. Len(l) /\ n =< Len(l) /\ n =< Len(m) /\ (n + 1) - 1 = n /\ n + 1 # 1
  BY LenProperties
<1>3. Fill(m, n) = Fill(l, n) /\ m[n] = l[n]
  <2>1. n \in 1 .. n OBVIOUS
  <2> QED BY <1>2, <2>1, FillSame
<1>4. /\ Fill(l, n+1) = Fill(l, n) + StoredLen(l, n+1) /\ Fill(l, n) \in Nat
      /\ Fill(m, n+1) = Fill(m, n) + StoredLen(m, n+1) /\ StoredLen(m, n+1) \in Nat
      /\ StoredLen(m, n+1) >= ChunkLen(m[n+1]) /\ ChunkLen(m[n+1]) \in Nat
  <2>1. Fill(l, n+1) = Fill(l, n) + StoredLen(l, n+1) /\ Fill(l, n) \in Nat
    BY <1>2, FillNext
  <2> QED BY <1>2, <2>1, FillNext
<1>5. Fill(l, n) >= ChunkHeaderLen
  <2>1. /\ Fill(l, n) = Fill(l, n-1) + StoredLen(l, n) /\ Fill(l, n-1) \in Nat
        /\ StoredLen(l, n) \in Nat /\ StoredLen(l, n) >= ChunkLen(l[n])
        /\ ChunkLen(l[n]) >= ChunkHeaderLen /\ ChunkLen(l[n]) \in Nat
    BY <1>2, FillNext
  <2> QED BY <1>1, <2>1
<1>6. Fill(l, n+1) > room /\ room - (Fill(l, n) + ChunkHeaderLen) =< room \div 8
  BY DEF EndsBefore, Beside
<1>7. CASE ChunkLen(m[n+1]) = ChunkLen(l[n+1])
  <2>1. LastBlock(m, n+1) = LastBlock(l, n+1)
    BY <1>2, <1>3 DEF LastBlock
  <2>2. StoredLen(m, n+1) = StoredLen(l, n+1)
    BY <1>7, <2>1 DEF StoredLen, Gap
  <2> QED BY <1>3, <1>4, <1>6, <2>2
<1>8. CASE ChunkLen(m[n+1]) > room - BlockSize
  <2> DEFINE f == Fill(l, n)
             q == room \div 8
  <2>1. q \in Nat /\ 8 * q =< room
    OBVIOUS
  <2> HIDE DEF f, q
  <2>2. f \in Nat /\ f >= ChunkHeaderLen /\ room - (f + ChunkHeaderLen) =< q
    BY <1>4, <1>5, <1>6 DEF f, q
  <2>3. f >= BlockSize
    BY <1>1, <2>1, <2>2
  <2>4. Fill(m, n+1) >= f + ChunkLen(m[n+1])
    BY <1>3, <1>4, <2>2 DEF f
  <2> QED BY <1>1, <1>3, <1>4, <1>8, <2>2, <2>3, <2>4 DEF f
<1> QED BY <1>7, <1>8

-----------------------------------------------------------------------------
(* The ends of the files a pass has behind it.                             *)

\* The j-th of k files ended after f[j] extents of the list.
Marked(f, list, k, room) ==
  /\ f \in [0 .. k -> 0 .. Len(list)] /\ f[0] = 0
  /\ \A i, j \in 0 .. k : i < j => f[i] < f[j]
  /\ \A j \in 1 .. k : FileEnds(Behind(list, f[j-1]), f[j] - f[j-1], room)

\* k files end in the first p extents, the last one behind them.
MarkedTo(p, list, k, room) == \E f : Marked(f, list, k, room) /\ f[k] = p

\* m is l up to extent p, and a file that ended there in l ends there in m.
SameTo(p, l, m, room) ==
  /\ Len(l) =< Len(m)
  /\ \A i \in 1 .. p : m[i] = l[i]
  /\ \A q \in 0 .. p - 1 :
       EndsBefore(Behind(l, q), p - q, room) => Fill(Behind(m, q), (p - q) + 1) > room

LEMMA MarkStays ==
  ASSUME NEW l \in Seq(Nodes), NEW m \in Seq(Nodes), Len(l) =< Len(m), NEW room \in Nat,
         NEW p \in 0 .. Len(l), NEW q \in 0 .. p, NEW n \in 0 .. p - q,
         \A i \in 1 .. p : m[i] = l[i],
         FileEnds(Behind(l, q), n, room),
         n = p - q /\ EndsBefore(Behind(l, q), n, room) => Fill(Behind(m, q), n + 1) > room
  PROVE  FileEnds(Behind(m, q), n, room)
<1> DEFINE u == Behind(l, q)
           v == Behind(m, q)
<1>1. /\ Len(l) \in Nat /\ Len(m) \in Nat /\ p \in Nat /\ q \in Nat /\ n \in Nat
      /\ q \in 0 .. Len(l) /\ q \in 0 .. Len(m)
  <2>1. Len(l) \in Nat /\ Len(m) \in Nat
    BY LenProperties
  <2> QED BY <2>1
<1>2. /\ u \in Seq(Nodes) /\ Len(u) = Len(l) - q
      /\ \A i \in 1 .. Len(l) - q : u[i] = l[q + i]
  BY <1>1, BehindFacts
<1>3. /\ v \in Seq(Nodes) /\ Len(v) = Len(m) - q
      /\ \A i \in 1 .. Len(m) - q : v[i] = m[q + i]
  BY <1>1, BehindFacts
<1> HIDE DEF u, v
<1>4. ASSUME NEW i \in 1 .. p - q PROVE u[i] = v[i]
  <2>1. i \in 1 .. Len(l) - q /\ i \in 1 .. Len(m) - q /\ q + i \in 1 .. p
    BY <1>1
  <2> QED BY <1>2, <1>3, <2>1
<1>5. \A i \in 1 .. n : u[i] = v[i]
  <2>1. \A i \in 1 .. n : i \in 1 .. p - q
    BY <1>1
  <2> QED BY <1>4, <2>1
<1>6. ASSUME EndsBefore(u, n, room) PROVE Fill(v, n + 1) > room
  <2>1. CASE n = p - q
    BY <1>6, <2>1 DEF u, v
  <2>2. CASE n # p - q
    <3>1. /\ n + 1 \in Nat /\ n + 1 =< Len(u) /\ n + 1 =< Len(v)
          /\ \A i \in 1 .. n + 1 : i \in 1 .. p - q
      <4>1. n + 1 \in Nat /\ n + 1 =< p - q
        BY <1>1, <2>2
      <4>2. p - q =< Len(l) - q /\ p - q =< Len(m) - q
        BY <1>1
      <4>3. n + 1 =< Len(u) /\ n + 1 =< Len(v)
        BY <1>1, <1>2, <1>3, <4>1, <4>2
      <4>4. \A i \in 1 .. n + 1 : i \in 1 .. p - q
        BY <1>1, <4>1
      <4> QED BY <4>1, <4>3, <4>4
    <3>2. Fill(u, n + 1) = Fill(v, n + 1)
      BY <1>2, <1>3, <1>4, <3>1, FillSame
    <3> QED BY <1>6, <3>2 DEF EndsBefore
  <2> QED BY <2>1, <2>2
<1>7. Len(u) =< Len(v)
  BY <1>1, <1>2, <1>3
<1>8. FileEnds(u, n, room)
  BY DEF u
<1>9. FileEnds(v, n, room)
  BY <1>2, <1>3, <1>5, <1>6, <1>7, <1>8, EndStays
<1> QED BY <1>9 DEF v

(* One more file, of a list that may have changed behind those that were   *)
(* looked at.                                                              *)
LEMMA MarkMore ==
  ASSUME NEW l \in Seq(Nodes), NEW m \in Seq(Nodes), NEW room \in Nat,
         NEW k \in Nat, NEW p, MarkedTo(p, l, k, room), SameTo(p, l, m, room),
         NEW n, FileEnds(Behind(m, p), n, room)
  PROVE  MarkedTo(p + n, m, k + 1, room)
<1>0. PICK f : Marked(f, l, k, room) /\ f[k] = p
  BY DEF MarkedTo
<1> DEFINE g == [j \in 0 .. k + 1 |-> IF j =< k THEN f[j] ELSE p + n]
<1>1. /\ Len(l) \in Nat /\ Len(m) \in Nat
      /\ f \in [0 .. k -> 0 .. Len(l)] /\ f[0] = 0
      /\ \A i, j \in 0 .. k : i < j => f[i] < f[j]
      /\ Len(l) =< Len(m) /\ \A i \in 1 .. p : m[i] = l[i]
  BY <1>0, LenProperties DEF Marked, SameTo
<1>2. p \in 0 .. Len(l) /\ p \in 0 .. Len(m) /\ p \in Nat
  <2>1. p \in 0 .. Len(l)
    BY <1>0, <1>1
  <2> QED BY <1>1, <2>1
<1>3. n \in 1 .. Len(m) - p
  <2>1. Len(Behind(m, p)) = Len(m) - p
    BY <1>2, BehindFacts
  <2> QED BY <2>1 DEF FileEnds
<1>4. /\ \A j \in 0 .. k : f[j] \in 0 .. p /\ (j < k => f[j] \in 0 .. p - 1)
      /\ \A j \in 0 .. k : f[j] \in 0 .. Len(m)
  <2>1. ASSUME NEW j \in 0 .. k PROVE f[j] \in 0 .. p /\ (j < k => f[j] \in 0 .. p - 1)
    <3>1. f[j] \in 0 .. Len(l) /\ k \in 0 .. k
      BY <1>1
    <3>2. j < k => f[j] < p
      BY <1>0, <1>1, <3>1
    <3>3. j = k \/ j < k
      OBVIOUS
    <3> QED BY <1>0, <1>2, <3>1, <3>2, <3>3
  <2>2. \A j \in 0 .. k : f[j] \in 0 .. Len(m)
    BY <1>1
  <2> QED BY <2>1, <2>2
<1>5. /\ \A j \in 0 .. k : j \in 0 .. k + 1 /\ g[j] = f[j]
      /\ k + 1 \in 0 .. k + 1 /\ g[k + 1] = p + n
      /\ \A j \in 0 .. k + 1 : j \in 0 .. k \/ j = k + 1
  OBVIOUS
<1>6. g \in [0 .. k + 1 -> 0 .. Len(m)]
  <2>1. p + n \in 0 .. Len(m)
    BY <1>1, <1>2, <1>3
  <2> QED BY <1>4, <2>1
<1> HIDE DEF g
<1>7. g[0] = 0
  BY <1>1, <1>5
<1>8. ASSUME NEW i \in 0 .. k + 1, NEW j \in 0 .. k + 1, i < j PROVE g[i] < g[j]
  <2>1. i \in 0 .. k
    BY <1>8
  <2>2. CASE j \in 0 .. k
    BY <1>1, <1>5, <1>8, <2>1, <2>2
  <2>3. CASE j = k + 1
    <3>1. g[i] \in 0 .. p /\ g[j] = p + n
      BY <1>4, <1>5, <2>1, <2>3
    <3> QED BY <1>2, <1>3, <3>1
  <2> QED BY <1>5, <2>2, <2>3
<1>9. ASSUME NEW j \in 1 .. k + 1 PROVE FileEnds(Behind(m, g[j-1]), g[j] - g[j-1], room)
  <2>1. CASE j = k + 1
    <3>1. j - 1 = k /\ k \in 0 .. k
      BY <2>1
    <3>2. g[j-1] = p /\ g[j] = p + n
      BY <1>0, <1>5, <2>1, <3>1
    <3>3. (p + n) - p = n
      BY <1>2, <1>3
    <3> QED BY <3>2, <3>3
  <2>2. CASE j # k + 1
    <3> DEFINE q == f[j-1]
               d == f[j] - f[j-1]
    <3>1. j \in 1 .. k /\ j \in 0 .. k /\ j - 1 \in 0 .. k /\ j - 1 < k /\ j - 1 < j
      BY <2>2
    <3>2. FileEnds(Behind(l, q), d, room)
      BY <1>0, <3>1 DEF Marked
    <3>3. q \in 0 .. p - 1 /\ f[j] \in 0 .. p /\ q < f[j]
      BY <1>1, <1>4, <3>1
    <3>4. q \in 0 .. p /\ d \in 0 .. p - q
      <4> DEFINE e == f[j]
      <4>1. q \in 0 .. p /\ e \in 0 .. p /\ q < e
        BY <1>2, <3>3
      <4>2. d = e - q
        OBVIOUS
      <4> HIDE DEF e, q, d
      <4>3. e - q \in 0 .. p - q
        BY <1>2, <4>1
      <4> QED BY <4>1, <4>2, <4>3
    <3>5. g[j-1] = q /\ g[j] - g[j-1] = d
      BY <1>5, <3>1
    <3> HIDE DEF q, d
    <3>6. d = p - q /\ EndsBefore(Behind(l, q), d, room) => Fill(Behind(m, q), d + 1) > room
      BY <3>3 DEF SameTo
    <3>7. FileEnds(Behind(m, q), d, room)
      BY <1>1, <1>2, <3>2, <3>4, <3>6, MarkStays
    <3> QED BY <3>5, <3>7
  <2> QED BY <2>1, <2>2
<1>10. Marked(g, m, k + 1, room)
  BY <1>6, <1>7, <1>8, <1>9 DEF Marked
<1> QED BY <1>5, <1>10 DEF MarkedTo

(* Cutting an extent changes how much the first extent takes only if it is *)
(* that one, and then it still takes the room of a file but for a block.   *)
LEMMA SplitFirst ==
  ASSUME NEW bl \in Heaps, NEW n \in 1 .. Len(bl.list), NEW id \in Addr,
         NEW m \in Nat, m >= BlockSize, NEW room \in Nat, FillFits, Inside(bl.list[n]),
         m = Beside(Fill(bl.list, n-1), room)
  PROVE  LET s == Split(bl, n, m, id).list
         IN /\ s \in Seq(Nodes) /\ Len(s) \in Nat /\ Len(bl.list) =< Len(s)
            /\ s[1].block = bl.list[1].block
            /\ ChunkLen(s[1]) = ChunkLen(bl.list[1]) \/ ChunkLen(s[1]) > room - BlockSize
<1> DEFINE list == bl.list
           s    == Split(bl, n, m, id).list
<1>1. /\ list \in Seq(Nodes) /\ Len(list) \in Nat /\ n \in Nat
      /\ bl \in [list : Seq(Nodes), last_used : Addr \cup {NULL}]
  BY HeapNodes
<1>2. CASE ~ Splits(bl, n, m)
  <2>1. s = list
    BY <1>2 DEF Split
  <2> QED BY <1>1, <2>1
<1>3. CASE Splits(bl, n, m)
  <2>1. /\ s \in Seq(Nodes) /\ Len(s) = Len(list) + 1
        /\ \A j \in 1 .. n - 1 : s[j] = list[j]
        /\ s[n] = SplitHead(list[n], m) /\ s[n + 1] = SplitRest(list[n], m, id)
    BY <1>1, <1>3, SplitElements
  <2> HIDE DEF s
  <2>2. CASE n # 1
    <3>1. 1 \in 1 .. n - 1
      BY <1>1, <2>2
    <3>2. s[1] = list[1]
      BY <2>1, <3>1
    <3> QED BY <1>1, <2>1, <3>2, SMTT(40) DEF s
  <2>3. CASE n = 1
    <3>1. list[1] \in Nodes
      BY <1>1, <2>3, ElementOfSeq
    <3>2. s[1].block = list[1].block
      BY <2>1, <2>3, <3>1 DEF SplitHead, Nodes
    <3>3. m = room - ChunkHeaderLen
      <4>1. 0 \in 0 .. Len(list) /\ n - 1 = 0
        BY <1>1, <2>3
      <4>2. Fill(list, n - 1) = 0
        BY <1>1, <4>1, FillNat
      <4>3. ChunkHeaderLen \in Nat
        BY FormatAssumption
      <4> QED BY <4>2, <4>3 DEF Beside
    <3>4. /\ ChunkLen(s[1]) \in Nat
          /\ ChunkLen(s[1]) = ChunkLen(list[1]) \/ ChunkLen(s[1]) > (ChunkHeaderLen + m) - BlockSize
      BY <1>3, <2>1, <2>3, FirstLen
    <3>5. (ChunkHeaderLen + m) - BlockSize = room - BlockSize
      BY <3>3, FormatAssumption, SizesAssumption
    <3> QED BY <1>1, <2>1, <3>2, <3>4, <3>5, SMTT(40) DEF s
  <2> QED BY <2>2, <2>3
<1> QED BY <1>2, <1>3

LEMMA NextStays ==
  ASSUME NEW b \in Seq(Nodes), NEW l \in Seq(Nodes), NEW s \in Seq(Nodes),
         1 =< Len(l), Len(l) =< Len(s), s[1].block = l[1].block,
         NEW room \in Nat, room >= 8 * BlockSize,
         ChunkLen(s[1]) = ChunkLen(l[1]) \/ ChunkLen(s[1]) > room - BlockSize
  PROVE  SameTo(Len(b), b \o l, b \o s, room)
<1> DEFINE p == Len(b)
           v == b \o l
           w == b \o s
<1>1. /\ p \in Nat /\ Len(l) \in Nat /\ Len(s) \in Nat
      /\ \A i \in 1 .. p : v[i] = b[i]
      /\ \A i \in 1 .. p : w[i] = b[i]
      /\ \A i \in 1 .. Len(l) : v[p + i] = l[i]
      /\ \A i \in 1 .. Len(s) : w[p + i] = s[i]
  <2>1. /\ p \in Nat /\ Len(l) \in Nat
        /\ \A i \in 1 .. p : v[i] = b[i]
        /\ \A i \in 1 .. Len(l) : v[p + i] = l[i]
    BY ConcatPositions
  <2>2. /\ Len(s) \in Nat
        /\ \A i \in 1 .. p : w[i] = b[i]
        /\ \A i \in 1 .. Len(s) : w[p + i] = s[i]
    BY ConcatPositions
  <2> HIDE DEF p, v, w
  <2> QED BY <2>1, <2>2
<1>2. v \in Seq(Nodes) /\ w \in Seq(Nodes) /\ Len(v) = p + Len(l) /\ Len(w) = p + Len(s)
  BY ConcatProperties
<1> HIDE DEF p, v, w
<1>3. v[p + 1] = l[1] /\ w[p + 1] = s[1]
  <2>1. 1 \in 1 .. Len(l) /\ 1 \in 1 .. Len(s)
    BY <1>1
  <2> QED BY <1>1, <2>1
<1>4. ASSUME NEW q \in 0 .. p - 1, EndsBefore(Behind(v, q), p - q, room)
      PROVE  Fill(Behind(w, q), (p - q) + 1) > room
  <2> DEFINE x == Behind(v, q)
             y == Behind(w, q)
             n == p - q
  <2>1. q \in 0 .. Len(v) /\ q \in 0 .. Len(w)
    BY <1>1, <1>2
  <2>2. /\ x \in Seq(Nodes) /\ Len(x) = Len(v) - q
        /\ \A i \in 1 .. Len(v) - q : x[i] = v[q + i]
    BY <1>2, <2>1, BehindFacts
  <2>3. /\ y \in Seq(Nodes) /\ Len(y) = Len(w) - q
        /\ \A i \in 1 .. Len(w) - q : y[i] = w[q + i]
    BY <1>2, <2>1, BehindFacts
  <2>4. /\ n \in Nat \ {0} /\ q + (n + 1) = p + 1
        /\ n + 1 \in 1 .. Len(v) - q /\ n + 1 \in 1 .. Len(w) - q
        /\ n < Len(v) - q /\ n < Len(w) - q
        /\ \A i \in 1 .. n : i \in 1 .. Len(v) - q /\ i \in 1 .. Len(w) - q /\ q + i \in 1 .. p
    BY <1>1, <1>2
  <2>5. EndsBefore(x, n, room)
    BY <1>4
  <2> HIDE DEF x, y, n
  <2>6. n < Len(x) /\ n < Len(y)
    BY <2>2, <2>3, <2>4
  <2>7. ASSUME NEW i \in 1 .. n PROVE x[i] = y[i]
    <3>1. i \in 1 .. Len(v) - q /\ i \in 1 .. Len(w) - q /\ q + i \in 1 .. p
      BY <2>4
    <3> QED BY <1>1, <2>2, <2>3, <3>1
  <2>8. x[n + 1] = l[1] /\ y[n + 1] = s[1]
    BY <1>3, <2>2, <2>3, <2>4
  <2>9. Fill(y, n + 1) > room
    BY <2>2, <2>3, <2>4, <2>5, <2>6, <2>7, <2>8, NextStillTooLong
  <2> QED BY <2>9 DEF y, n
<1>5. Len(v) =< Len(w) /\ \A i \in 1 .. p : w[i] = v[i]
  BY <1>1, <1>2
<1>6. SameTo(p, v, w, room)
  BY <1>4, <1>5 DEF SameTo
<1> QED BY <1>6 DEF p, v, w

-----------------------------------------------------------------------------
(* The two passes.                                                         *)

\* The extents that went to files.
Passed == Out(out_s) \o tmp.list

\* The files that end because the next extent does not fit: all but the last.
Cuts == IF files = -1 THEN c ELSE files - 1

\* What is behind the first p extents fits one file.
LastFits(list, p, room) == Fill(Behind(list, p), Len(list) - p) =< room

FileCounts ==
  /\ files = -1 => out_s = <<>> /\ ~done
  /\ files # -1 =>
       /\ files \in Nat \ {0} /\ out_s_count = files
       /\ done => c = files /\ Len(out_s) = files /\ in_s.list = <<>>
       /\ ~done => c < files /\ Len(out_s) = c /\ tmp.list = <<>>

\* The files of the first pass still end where they did, and those of the second
\* end there too.
FileMarks ==
  \E f \in [0 .. Cuts -> 0 .. Len(Everything)] :
    /\ Marked(f, Everything, Cuts, Room)
    /\ ~done => f[c] = Len(Passed)
    /\ files # -1 => LastFits(Everything, f[Cuts], Room)

PInv == faults = <<>> => FileCounts /\ FileMarks

LEMMA NoFiles == Out(<<>>) = <<>>
<1>1. DOMAIN <<>> = {}
  OBVIOUS
<1>2. ListsOf(<<>>) \in [{} -> {}]
  BY <1>1 DEF ListsOf
<1>3. ListsOf(<<>>) = <<>>
  BY <1>2
<1> QED BY <1>3 DEF Out, FlattenSeq

LEMMA InitPInv == Init => PInv
<1> SUFFICES ASSUME Init PROVE PInv OBVIOUS
<1>1. files = -1 /\ c = 0 /\ out_s = <<>> /\ done = FALSE /\ tmp = EmptyList
  BY DEF Init
<1>2. FileCounts
  BY <1>1 DEF FileCounts
<1>3. Cuts = 0
  BY <1>1 DEF Cuts
<1>4. Len(Passed) = 0
  <2>1. Out(out_s) = <<>>
    BY <1>1, NoFiles
  <2>2. tmp.list = <<>>
    BY <1>1 DEF EmptyList
  <2> QED BY <2>1, <2>2 DEF Passed
<1>5. Len(Everything) \in Nat
  <2>1. origin \in Images /\ Everything = origin
    BY InitEverything
  <2> QED BY <2>1, ImagesFacts, LenProperties
<1> DEFINE f == [j \in 0 .. 0 |-> 0]
<1>6. /\ f \in [0 .. 0 -> 0 .. Len(Everything)] /\ f[0] = 0
      /\ \A i, j \in 0 .. 0 : i < j => f[i] < f[j]
      /\ 1 .. 0 = {}
  BY <1>5
<1> HIDE DEF f
<1>7. Marked(f, Everything, 0, Room)
  BY <1>6 DEF Marked
<1>8. FileMarks
  BY <1>1, <1>3, <1>4, <1>6, <1>7 DEF FileMarks
<1> QED BY <1>2, <1>8 DEF PInv

(* What a file takes goes from in_s behind what other files took.          *)
LEMMA FinishPassed ==
  ASSUME IInv, KInv, OInv, NEW from \in Heaps, NEW n \in 0 .. Len(from.list), NEW more \in BOOLEAN,
         FinishFile(from, n, more), ~more => n = Len(from.list),
         Ascending(Passed \o from.list)
  PROVE  /\ Everything' = Passed \o from.list
         /\ more => Len(Passed') = Len(Passed) + n
<1> DEFINE p     == Passed
           chain == SubSeq(from.list, 1, n)
           rest  == MoveFrom(from, n).list
<1>1. /\ Out(out_s) \in Seq(Bits) /\ tmp.list \in Seq(Bits) /\ p \in Seq(Bits)
      /\ \A x \in ToSet(p) : x \in Nodes /\ Inside(x)
  BY PiecesFacts DEF Passed
<1>2. from.list \in Seq(Bits) /\ Len(from.list) \in Nat
  BY HeapFacts
<1>3. /\ chain \in Seq(Bits) /\ rest \in Seq(Bits) /\ from.list = chain \o rest
      /\ Out(out_s') \in Seq(Bits) /\ tmp'.list \in Seq(Bits)
      /\ more => in_s'.list = rest
  <2> DEFINE kept == IF HasRoom THEN tmp ELSE MoveTo(tmp, chain)
  <2>1. /\ chain \in Seq(Bits) /\ rest \in Seq(Bits) /\ from.list = chain \o rest
        /\ Out(out_s') \in Seq(Bits) /\ kept.list \in Seq(Bits)
        /\ more => in_s' = MoveFrom(from, n) /\ tmp' = kept
        /\ ~more => tmp' = EmptyList
    BY FinishPieces
  <2>2. EmptyList.list \in Seq(Bits)
    BY DEF EmptyList
  <2> QED BY <2>1, <2>2
<1>4. ToSet(p) = ToSet(Out(out_s)) \cup ToSet(tmp.list)
  BY <1>1, ConcatToSet DEF Passed
<1> HIDE DEF p, chain, rest
<1>5. Before(tmp.list, chain)
  <2>1. Before(p, from.list)
    BY <1>1, <1>2, AscendingConcat DEF p
  <2>2. ToSet(from.list) = ToSet(chain) \cup ToSet(rest)
    BY <1>3, ConcatToSet
  <2> QED BY <1>4, <2>1, <2>2 DEF Before
<1>6. \A x \in ToSet(tmp.list) : x \in Nodes /\ Inside(x)
  BY <1>1, <1>4
<1>7. HasRoom => tmp.list = <<>>
  BY DEF OInv
<1>8. (Out(out_s') \o tmp'.list) \o in_s'.list = (Out(out_s) \o tmp.list) \o from.list
  BY <1>5, <1>6, <1>7, FinishSame DEF chain
<1>9. Everything' = (Out(out_s') \o tmp'.list) \o in_s'.list
  BY DEF Everything, Out, ListsOf
<1>10. Passed' = Out(out_s') \o tmp'.list
  BY DEF Passed, Out, ListsOf
<1>11. Everything' = Passed \o from.list
  BY <1>8, <1>9 DEF Passed
<1>12. ASSUME more PROVE Len(Passed') = Len(Passed) + n
  <2>1. Passed' \in Seq(Bits)
    BY <1>3, <1>10, ConcatProperties
  <2>2. Passed' \o rest = p \o from.list
    BY <1>3, <1>8, <1>10, <1>12 DEF p, Passed
  <2>3. Len(Passed' \o rest) = Len(Passed') + Len(rest) /\ Len(Passed') \in Nat /\ Len(rest) \in Nat
    BY <1>3, <2>1, ConcatProperties, LenProperties
  <2>4. Len(p \o from.list) = Len(p) + Len(from.list) /\ Len(p) \in Nat
    BY <1>1, <1>2, ConcatProperties, LenProperties
  <2>5. Len(from.list) = n + Len(rest)
    <3>1. Len(chain) = n
      <4>1. n + 1 \in 1 .. Len(from.list) + 1 /\ (n + 1) - 1 = n
        BY <1>2
      <4>2. Len(SubSeq(from.list, 1, (n + 1) - 1)) = (n + 1) - 1
        BY <1>2, <4>1, FrontProperties
      <4> QED BY <4>1, <4>2 DEF chain
    <3> QED BY <1>3, <3>1, ConcatProperties
  <2>6. Len(Passed') + Len(rest) = Len(p) + (n + Len(rest))
    BY <2>2, <2>3, <2>4, <2>5
  <2> QED BY <2>3, <2>4, <2>6 DEF p
<1> QED BY <1>11, <1>12

LEMMA MarksFacts ==
  ASSUME RoomForEightBlocks, FillFits, IInv, KInv
  PROVE  /\ Passed \in Seq(Nodes) /\ Len(Passed) \in Nat
         /\ in_s \in Heaps /\ in_s.list \in Seq(Nodes) /\ Len(in_s.list) \in Nat
         /\ Everything = Passed \o in_s.list /\ Everything \in Seq(Nodes)
         /\ Len(Everything) = Len(Passed) + Len(in_s.list)
         /\ Behind(Everything, Len(Passed)) = in_s.list
         /\ Room \in Nat /\ Room >= 8 * BlockSize /\ c \in Nat /\ out_s_count \in Nat
<1>1. Passed \in Seq(Bits) /\ in_s \in Heaps /\ in_s.list \in Seq(Bits)
  BY PiecesFacts DEF Passed
<1>2. Passed \in Seq(Nodes)
  <2>1. Bits \subseteq Nodes
    BY DEF Bits
  <2>2. Passed \in [1 .. Len(Passed) -> Bits] /\ Len(Passed) \in Nat
    BY <1>1, LenProperties
  <2> QED BY <2>1, <2>2, SeqDef
<1>3. in_s.list \in Seq(Nodes) /\ Len(in_s.list) \in Nat /\ Len(Passed) \in Nat
  BY <1>1, <1>2, HeapNodes, LenProperties
<1>4. Everything = Passed \o in_s.list
  BY EverythingIs DEF Passed
<1>5. Room \in Nat /\ Room >= 8 * BlockSize
  BY RoomNumbers
<1>6. c \in Nat /\ out_s_count \in Nat
  BY DEF IInv, CountsGood
<1> QED BY <1>1, <1>2, <1>3, <1>4, <1>5, <1>6, BehindConcat

(* A file of the first pass adds a mark.                                   *)
LEMMA FirstPassMarks ==
  ASSUME RoomForEightBlocks, FillFits, IInv, KInv, OInv, SInv, FileCounts, FileMarks, files = -1,
         NEW from \in Heaps, NEW n \in 0 .. Len(from.list), FinishFile(from, n, TRUE),
         Ascending(Passed \o from.list),
         1 =< Len(in_s.list), Len(in_s.list) =< Len(from.list),
         from.list[1].block = in_s.list[1].block,
         \/ ChunkLen(from.list[1]) = ChunkLen(in_s.list[1])
         \/ ChunkLen(from.list[1]) > Room - BlockSize,
         FileEnds(from.list, n, Room)
  PROVE  FileCounts' /\ FileMarks'
<1>1. /\ Passed \in Seq(Nodes) /\ Len(Passed) \in Nat /\ in_s.list \in Seq(Nodes)
      /\ Everything = Passed \o in_s.list /\ Everything \in Seq(Nodes)
      /\ Room \in Nat /\ Room >= 8 * BlockSize /\ c \in Nat
  BY MarksFacts
<1>2. /\ out_s' = out_s /\ files' = -1 /\ done' = done /\ c' = c + 1 /\ max_len' = max_len
      /\ out_s = <<>> /\ ~done
  <2>1. ~HasRoom
    BY <1>1 DEF SInv, HasRoom
  <2> QED BY <2>1 DEF FinishFile, FileCounts
<1>3. Room' = Room /\ Cuts = c /\ Cuts' = c + 1
  BY <1>2 DEF Room, Cuts
<1>4. FileCounts'
  BY <1>2 DEF FileCounts
<1>5. PICK f : Marked(f, Everything, c, Room) /\ f[c] = Len(Passed)
  BY <1>2, <1>3 DEF FileMarks
<1>6. Everything' = Passed \o from.list /\ Len(Passed') = Len(Passed) + n
  BY FinishPassed
<1>7. from.list \in Seq(Nodes)
  BY HeapNodes
<1> DEFINE p == Len(Passed)
           v == Passed \o in_s.list
           w == Passed \o from.list
<1>8. SameTo(p, v, w, Room)
  BY <1>1, <1>7, NextStays
<1>9. v \in Seq(Nodes) /\ w \in Seq(Nodes) /\ Behind(w, p) = from.list
  BY <1>1, <1>7, BehindConcat
<1>10. Marked(f, v, c, Room) /\ f[c] = p
  BY <1>1, <1>5
<1> HIDE DEF p, v, w
<1>11. FileEnds(Behind(w, p), n, Room)
  BY <1>9
<1>12. PICK g : Marked(g, w, c + 1, Room) /\ g[c + 1] = p + n
  <2>1. MarkedTo(p, v, c, Room)
    BY <1>10 DEF MarkedTo
  <2>2. MarkedTo(p + n, w, c + 1, Room)
    BY <1>1, <1>8, <1>9, <1>11, <2>1, MarkMore
  <2> QED BY <2>2 DEF MarkedTo
<1>13. /\ Marked(g, Everything', Cuts', Room') /\ g[c'] = Len(Passed')
       /\ g \in [0 .. Cuts' -> 0 .. Len(Everything')]
  <2>1. Marked(g, Everything', Cuts', Room') /\ g[c'] = Len(Passed')
    BY <1>2, <1>3, <1>6, <1>12 DEF w, p
  <2> QED BY <2>1 DEF Marked
<1>14. FileMarks'
  BY <1>2, <1>13 DEF FileMarks
<1> QED BY <1>4, <1>14

(* In the second pass in_s is what is behind a mark.                       *)
LEMMA AtMark ==
  ASSUME RoomForEightBlocks, FillFits, IInv, KInv, FileCounts, files # -1, ~done,
         NEW f, Marked(f, Everything, Cuts, Room), f[c] = Len(Passed),
         LastFits(Everything, f[Cuts], Room)
  PROVE  /\ c \in 0 .. Cuts /\ Cuts = files - 1 /\ files \in Nat \ {0}
         /\ c = Cuts => Fill(in_s.list, Len(in_s.list)) =< Room
         /\ c # Cuts => c + 1 \in 1 .. Cuts /\ FileEnds(in_s.list, f[c + 1] - Len(Passed), Room)
<1>1. /\ Len(Passed) \in Nat /\ Len(in_s.list) \in Nat /\ c \in Nat
      /\ Len(Everything) = Len(Passed) + Len(in_s.list)
      /\ Behind(Everything, Len(Passed)) = in_s.list
  BY MarksFacts
<1>2. files \in Nat \ {0} /\ c < files /\ Cuts = files - 1
  BY DEF FileCounts, Cuts
<1>3. c \in 0 .. Cuts /\ Cuts \in Nat
  BY <1>1, <1>2
<1>4. ASSUME c = Cuts PROVE Fill(in_s.list, Len(in_s.list)) =< Room
  <2>1. LastFits(Everything, Len(Passed), Room)
    BY <1>4
  <2>2. Len(Everything) - Len(Passed) = Len(in_s.list)
    BY <1>1
  <2> QED BY <1>1, <2>1, <2>2 DEF LastFits
<1>5. ASSUME c # Cuts
      PROVE  c + 1 \in 1 .. Cuts /\ FileEnds(in_s.list, f[c + 1] - Len(Passed), Room)
  <2>1. c + 1 \in 1 .. Cuts /\ (c + 1) - 1 = c
    BY <1>3, <1>5
  <2>2. FileEnds(Behind(Everything, f[(c + 1) - 1]), f[c + 1] - f[(c + 1) - 1], Room)
    BY <2>1 DEF Marked
  <2> QED BY <1>1, <2>1, <2>2
<1> QED BY <1>2, <1>3, <1>4, <1>5

(* A file of the second pass ends at the next one.                         *)
LEMMA SecondPassMarks ==
  ASSUME RoomForEightBlocks, FillFits, IInv, KInv, OInv, FileCounts, FileMarks, files # -1, ~done,
         "map" \notin ToSet(faults),
         NEW n \in 0 .. Len(in_s.list), FinishFile(in_s, n, TRUE),
         Fill(in_s.list, Len(in_s.list)) > Room,
         \A k : FileEnds(in_s.list, k, Room) => k = n
  PROVE  FileCounts' /\ FileMarks'
<1>1. /\ Len(Passed) \in Nat /\ in_s \in Heaps /\ in_s.list \in Seq(Nodes) /\ Len(in_s.list) \in Nat
      /\ Everything = Passed \o in_s.list
      /\ Room \in Nat /\ c \in Nat
  BY MarksFacts
<1>2. PICK f \in [0 .. Cuts -> 0 .. Len(Everything)] :
        /\ Marked(f, Everything, Cuts, Room) /\ f[c] = Len(Passed)
        /\ LastFits(Everything, f[Cuts], Room)
  BY DEF FileMarks
<1>3. /\ c \in 0 .. Cuts /\ Cuts = files - 1 /\ files \in Nat \ {0}
      /\ c = Cuts => Fill(in_s.list, Len(in_s.list)) =< Room
      /\ c # Cuts => c + 1 \in 1 .. Cuts /\ FileEnds(in_s.list, f[c + 1] - Len(Passed), Room)
  BY <1>2, AtMark
<1>4. Fill(in_s.list, Len(in_s.list)) \in Nat
  <2>1. Len(in_s.list) \in 0 .. Len(in_s.list)
    BY <1>1
  <2> QED BY <1>1, <2>1, FillNat
<1>5. c + 1 \in 1 .. Cuts /\ f[c + 1] - Len(Passed) = n
  BY <1>1, <1>3, <1>4
<1>6. /\ c < files /\ out_s_count = files /\ Len(out_s) = c /\ tmp.list = <<>> /\ HasRoom
  BY DEF FileCounts, HasRoom
<1>7. /\ out_s' = Append(out_s, MoveTo(EmptyList, SubSeq(in_s.list, 1, n)))
      /\ tmp' = tmp /\ c' = c + 1 /\ files' = files /\ out_s_count' = out_s_count
      /\ done' = done /\ max_len' = max_len
  BY <1>6 DEF FinishFile
<1>8. Len(out_s') = c + 1
  <2>1. out_s \in Seq(Heaps)
    BY DEF IInv, ListsGood
  <2> QED BY <1>6, <1>7, <2>1, AppendProperties
<1>9. FileCounts'
  <2>1. c + 1 < files
    BY <1>3, <1>5
  <2>2. files' # -1 /\ ~done'
    BY <1>7
  <2>3. /\ files' \in Nat \ {0} /\ out_s_count' = files'
        /\ c' < files' /\ Len(out_s') = c' /\ tmp'.list = <<>>
    BY <1>3, <1>6, <1>7, <1>8, <2>1
  <2> QED BY <2>2, <2>3 DEF FileCounts
<1>10. Room' = Room /\ Cuts' = Cuts
  BY <1>7 DEF Room, Cuts
<1>11. Everything' = Everything /\ Len(Passed') = Len(Passed) + n
  <2>1. Ascending(Passed \o in_s.list)
    BY <1>1 DEF OInv
  <2> QED BY <1>1, <2>1, FinishPassed
<1>12. f[c'] = Len(Passed')
  <2>1. f[c + 1] \in Nat
    <3>1. c + 1 \in 0 .. Cuts
      BY <1>5
    <3> QED BY <1>2, <3>1
  <2> DEFINE k == f[c + 1]
  <2>2. k \in Nat /\ k - Len(Passed) = n
    BY <1>5, <2>1
  <2> HIDE DEF k
  <2>3. k = Len(Passed) + n
    BY <1>1, <2>2
  <2> QED BY <1>7, <1>11, <2>3 DEF k
<1>13. FileMarks'
  BY <1>2, <1>7, <1>10, <1>11, <1>12 DEF FileMarks
<1> QED BY <1>9, <1>13

LEMMA MarkAhead ==
  ASSUME RoomForEightBlocks, FillFits, IInv, KInv, FileCounts, FileMarks, files # -1, ~done,
         Fill(in_s.list, Len(in_s.list)) > Room
  PROVE  \E k : FileEnds(in_s.list, k, Room)
<1>1. in_s.list \in Seq(Nodes) /\ Len(in_s.list) \in Nat /\ Room \in Nat
  BY MarksFacts
<1>2. PICK f \in [0 .. Cuts -> 0 .. Len(Everything)] :
        /\ Marked(f, Everything, Cuts, Room) /\ f[c] = Len(Passed)
        /\ LastFits(Everything, f[Cuts], Room)
  BY DEF FileMarks
<1>3. /\ c = Cuts => Fill(in_s.list, Len(in_s.list)) =< Room
      /\ c # Cuts => FileEnds(in_s.list, f[c + 1] - Len(Passed), Room)
  BY <1>2, AtMark
<1>4. Fill(in_s.list, Len(in_s.list)) \in Nat
  <2>1. Len(in_s.list) \in 0 .. Len(in_s.list)
    BY <1>1
  <2> QED BY <1>1, <2>1, FillNat
<1> QED BY <1>1, <1>3, <1>4

(* A pass ends where the last file ends, in the second one at the last     *)
(* mark.                                                                   *)
LEMMA EndMarks ==
  ASSUME RoomForEightBlocks, FillFits, IInv, KInv, OInv, SInv, FileCounts, FileMarks, ~done,
         "map" \notin ToSet(faults), scan.bb > Len(in_s.list), FinishFile(in_s, scan.last, FALSE)
  PROVE  FileCounts' /\ FileMarks'
<1>1. /\ Len(Passed) \in Nat /\ in_s \in Heaps /\ in_s.list \in Seq(Nodes) /\ Len(in_s.list) \in Nat
      /\ Everything = Passed \o in_s.list
      /\ Len(Everything) = Len(Passed) + Len(in_s.list)
      /\ Behind(Everything, Len(Passed)) = in_s.list
      /\ Room \in Nat /\ c \in Nat
  BY MarksFacts
<1>2. scan.last = Len(in_s.list) /\ Fill(in_s.list, Len(in_s.list)) =< Room
  <2>1. /\ scan.bb \in Nat /\ scan.last = scan.bb - 1 /\ scan.last \in 0 .. Len(in_s.list)
        /\ scan.file_len = Fill(in_s.list, scan.last) /\ scan.file_len =< Room
    BY ScanFills
  <2>2. scan.last = Len(in_s.list)
    BY <1>1, <2>1
  <2> QED BY <2>1, <2>2
<1>3. Everything' = Everything
  <2>1. Ascending(Passed \o in_s.list)
    BY <1>1 DEF OInv
  <2>2. scan.last \in 0 .. Len(in_s.list)
    BY <1>1, <1>2
  <2> QED BY <1>1, <1>2, <2>1, <2>2, FinishPassed
<1>4. PICK f \in [0 .. Cuts -> 0 .. Len(Everything)] :
        /\ Marked(f, Everything, Cuts, Room) /\ f[c] = Len(Passed)
        /\ files # -1 => LastFits(Everything, f[Cuts], Room)
  BY DEF FileMarks
<1>5. max_len' = max_len /\ tmp' = EmptyList
  BY DEF FinishFile
<1>6. Room' = Room
  BY <1>5 DEF Room
<1>7. CASE files = -1
  <2>1. /\ out_s' = <<>> /\ files' = c + 1 /\ out_s_count' = c + 1 /\ c' = 0 /\ ~done'
    <3>1. ~HasRoom
      BY <1>1, <1>7 DEF SInv, HasRoom
    <3> QED BY <1>7, <3>1 DEF FinishFile, FileCounts
  <2>2. files' # -1 /\ files' \in Nat \ {0} /\ Cuts = c /\ Cuts' = c
    BY <1>1, <1>7, <2>1 DEF Cuts
  <2>3. FileCounts'
    <3>1. c' < files' /\ Len(out_s') = c' /\ tmp'.list = <<>>
      BY <1>1, <1>5, <2>1 DEF EmptyList
    <3> QED BY <2>1, <2>2, <3>1 DEF FileCounts
  <2>4. Len(Passed') = 0
    <3>1. Passed' = Out(out_s') \o tmp'.list
      BY DEF Passed, Out, ListsOf
    <3> QED BY <1>5, <2>1, <3>1, NoFiles DEF EmptyList
  <2>5. f[c'] = Len(Passed')
    BY <1>4, <2>1, <2>4 DEF Marked
  <2>6. LastFits(Everything, f[c], Room)
    <3>1. Len(Everything) - Len(Passed) = Len(in_s.list)
      BY <1>1
    <3> QED BY <1>1, <1>2, <1>4, <3>1 DEF LastFits
  <2>7. FileMarks'
    BY <1>3, <1>4, <1>6, <2>2, <2>5, <2>6 DEF FileMarks
  <2> QED BY <2>3, <2>7
<1>8. CASE files # -1
  <2>1. /\ c \in 0 .. Cuts /\ Cuts = files - 1 /\ files \in Nat \ {0}
        /\ c # Cuts => FileEnds(in_s.list, f[c + 1] - Len(Passed), Room)
    BY <1>4, <1>8, AtMark
  <2>2. c = Cuts
    <3>1. ASSUME NEW k, FileEnds(in_s.list, k, Room) PROVE FALSE
      <4>1. Fill(in_s.list, Len(in_s.list)) > Room
        BY <1>1, <3>1, EndOverflows
      <4>2. Fill(in_s.list, Len(in_s.list)) \in Nat
        <5>1. Len(in_s.list) \in 0 .. Len(in_s.list)
          BY <1>1
        <5> QED BY <1>1, <5>1, FillNat
      <4> QED BY <1>1, <1>2, <4>1, <4>2
    <3> QED BY <2>1, <3>1
  <2>3. out_s_count = files /\ Len(out_s) = c /\ tmp.list = <<>> /\ HasRoom /\ c + 1 = files
    BY <1>1, <1>8, <2>1, <2>2 DEF FileCounts, HasRoom
  <2> DEFINE rest == MoveFrom(in_s, scan.last)
  <2>4. /\ out_s' = Append(out_s, MoveTo(EmptyList, SubSeq(in_s.list, 1, scan.last)))
        /\ in_s' = MoveTo(rest, tmp.list) /\ done' = TRUE /\ c' = c + 1
        /\ files' = files /\ out_s_count' = out_s_count
    BY <1>8, <2>3 DEF FinishFile
  <2>5. in_s'.list = <<>>
    <3>1. in_s' = rest
      BY <2>3, <2>4 DEF MoveTo
    <3>2. rest.list = <<>>
      BY <1>1, <1>2, RestEmpty
    <3> QED BY <3>1, <3>2
  <2> HIDE DEF rest
  <2>6. Len(out_s') = files
    <3>1. out_s \in Seq(Heaps)
      BY DEF IInv, ListsGood
    <3> QED BY <2>3, <2>4, <3>1, AppendProperties
  <2>7. FileCounts'
    BY <1>8, <2>1, <2>3, <2>4, <2>5, <2>6 DEF FileCounts
  <2>8. Cuts' = Cuts
    BY <1>8, <2>4 DEF Cuts
  <2>9. FileMarks'
    BY <1>3, <1>4, <1>6, <1>8, <2>4, <2>8 DEF FileMarks
  <2> QED BY <2>7, <2>9
<1> QED BY <1>7, <1>8

LEMMA NextPInv ==
  ASSUME RoomForEightBlocks, FillFits, IInv, KInv, OInv, SInv, PInv, [Next]_vars
  PROVE  PInv'
<1> DEFINE list == in_s.list
<1>1. /\ Passed \in Seq(Nodes) /\ in_s \in Heaps /\ list \in Seq(Nodes) /\ Len(list) \in Nat
      /\ Everything = Passed \o list /\ Room \in Nat /\ Room >= 8 * BlockSize
  BY MarksFacts
<1>2. /\ scan.bb \in Nat /\ scan.last = scan.bb - 1 /\ scan.last \in 0 .. Len(list)
      /\ Looking => /\ scan.bb \in 1 .. Len(list) /\ scan.bb \in 0 .. Len(list)
                    /\ scan.bb - 1 \in 0 .. Len(list)
                    /\ 1 =< Len(list) /\ Len(list) =< Len(list) /\ ~done
                    /\ Fits <=> Fill(list, scan.bb) =< Room
                    /\ Left = Beside(Fill(list, scan.bb - 1), Room)
                    /\ Fill(list, scan.bb - 1) =< Room
  <2>1. /\ scan.bb \in Nat /\ scan.last = scan.bb - 1 /\ scan.last \in 0 .. Len(list)
        /\ scan.file_len = Fill(list, scan.last) /\ scan.file_len =< Room
        /\ Looking => /\ scan.bb \in 1 .. Len(list)
                      /\ Fits <=> Fill(list, scan.bb) =< Room
                      /\ Left = Beside(Fill(list, scan.bb - 1), Room)
    BY ScanFills
  <2>2. Looking => ~done
    BY DEF Looking
  <2> HIDE DEF list
  <2> QED BY <1>1, <2>1, <2>2
<1>3. ASSUME UNCHANGED <<in_s, tmp, out_s, out_s_count, max_len, c, files, done, faults>>
      PROVE  PInv'
  <2>1. /\ Room' = Room /\ Cuts' = Cuts /\ Passed' = Passed /\ Everything' = Everything
    BY <1>3 DEF Room, Cuts, Passed, Everything
  <2>2. FileCounts => FileCounts'
    BY <1>3 DEF FileCounts
  <2>3. FileMarks => FileMarks'
    BY <1>3, <2>1 DEF FileMarks
  <2> QED BY <1>3, <2>2, <2>3 DEF PInv
<1>4. ASSUME NEW call, Fault(call) PROVE PInv'
  <2>1. faults' # <<>>
    <3>1. faults \in Seq({"map", "split"})
      BY DEF IInv, CountsGood
    <3>2. faults' = Append(faults, call)
      BY <1>4 DEF Fault
    <3> QED BY <3>1, <3>2
  <2> QED BY <2>1 DEF PInv
\* Where the first file of what in_s holds would not fit, the second pass is at
\* the mark the first one left.
<1>5. ASSUME Looking, ~Fits
      PROVE  /\ Fill(list, scan.bb) > Room /\ Fill(list, Len(list)) > Room
             /\ Fill(list, scan.bb) \in Nat
  <2>1. scan.bb \in 0 .. Len(list) /\ Len(list) \in 0 .. Len(list) /\ scan.bb =< Len(list)
    BY <1>1, <1>2, <1>5
  <2>2. /\ Fill(list, scan.bb) =< Fill(list, Len(list))
        /\ Fill(list, scan.bb) \in Nat /\ Fill(list, Len(list)) \in Nat
    BY <1>1, <2>1, FillGrows, FillNat
  <2>3. ~(Fill(list, scan.bb) =< Room)
    BY <1>2, <1>5
  <2> HIDE DEF list
  <2> QED BY <1>1, <2>2, <2>3
<1>6. ASSUME Looking, ~Fits, NEW k, FileEnds(list, k, Room)
      PROVE  IF MustSplit THEN k = scan.bb /\ list[k].len =< AlignDown(Left, BlockSize)
                          ELSE k = scan.last
  <2> DEFINE i == scan.bb
  <2>1. i \in 1 .. Len(list) /\ Fill(list, i-1) =< Room /\ Fill(list, i) > Room
    BY <1>2, <1>5, <1>6
  <2>2. MustSplit <=> (i = 1 \/ Beside(Fill(list, i-1), Room) > Room \div 8)
    BY <1>2, <1>6 DEF MustSplit
  <2>3. IF i = 1 \/ Beside(Fill(list, i-1), Room) > Room \div 8
        THEN i = k /\ list[k].len =< AlignDown(Beside(Fill(list, k-1), Room), BlockSize)
        ELSE i - 1 = k
    BY <1>1, <1>6, <2>1, EndFound
  <2> QED BY <1>2, <1>6, <2>2, <2>3
<1>7. CASE faults # <<>> \/ faults' # <<>>
  <2>1. faults' # <<>>
    <3>1. UNCHANGED faults \/ \E call : Fault(call)
      BY DEF Next, TakeChunk, SplitChunk, SplitFails, StopBefore, EndOfList, MapFails, vars
    <3>2. ASSUME NEW call, Fault(call) PROVE faults' # <<>>
      <4>1. faults \in Seq({"map", "split"})
        BY DEF IInv, CountsGood
      <4> QED BY <3>2, <4>1 DEF Fault
    <3> QED BY <1>7, <3>1, <3>2
  <2> QED BY <2>1 DEF PInv
<1>8. CASE faults = <<>> /\ faults' = <<>>
  <2>1. FileCounts /\ FileMarks /\ "map" \notin ToSet(faults)
    <3>1. ToSet(<<>>) = {}
      BY DEF ToSet
    <3> QED BY <1>8, <3>1 DEF PInv
  <2>2. Ascending(Passed \o list)
    BY <1>1, <2>1 DEF OInv
  <2>3. CASE TakeChunk
    <3>1. UNCHANGED <<in_s, tmp, out_s, out_s_count, max_len, c, files, done, faults>>
      BY <2>3 DEF TakeChunk
    <3> QED BY <1>3, <3>1
  <2>4. CASE Addr \ Held # {} /\ SplitChunk(Fresh)
    <3> DEFINE m    == U(Left)
               from == Split(in_s, scan.bb, m, Fresh)
    <3>1. Fresh \in Addr
      BY <2>4 DEF Fresh
    <3>2. Looking /\ ~Fits /\ MustSplit /\ FinishFile(from, scan.bb, TRUE)
      BY <2>4 DEF SplitChunk
    <3>3. m \in Nat /\ m = Left /\ m >= BlockSize
      BY <3>2, CountFacts
    <3>4. scan.bb \in 1 .. Len(list) /\ ~done /\ Left = Beside(Fill(list, scan.bb - 1), Room)
      BY <1>2, <3>2
    <3>5. FileEnds(from.list, scan.bb, Room)
      BY <3>1, <3>2, SplitEnds
    <3>6. CASE files = -1
      <4>1. Inside(list[scan.bb])
        <5>1. \A x \in ToSet(list) : Inside(x)
          BY PiecesFacts
        <5>2. list[scan.bb] \in ToSet(list)
          BY <1>1, <3>4, LenProperties DEF ToSet
        <5> QED BY <5>1, <5>2
      <4>2. /\ Len(from.list) \in Nat /\ Len(list) =< Len(from.list)
            /\ from.list[1].block = list[1].block
            /\ \/ ChunkLen(from.list[1]) = ChunkLen(list[1])
               \/ ChunkLen(from.list[1]) > Room - BlockSize
        <5>1. m = Beside(Fill(in_s.list, scan.bb - 1), Room)
          BY <3>3, <3>4
        <5> HIDE DEF m
        <5> QED BY <1>1, <3>1, <3>3, <3>4, <4>1, <5>1, SplitFirst
      <4>3. Ascending(Passed \o from.list)
        <5>1. /\ Passed \in Seq(Bits)
              /\ \A x \in ToSet(Passed) \cup ToSet(list) : x \in Nodes /\ Inside(x)
          BY PiecesFacts DEF Passed
        <5> QED BY <1>1, <2>2, <3>1, <3>3, <3>4, <5>1, SplitKeeps
      <4>4. from \in Heaps
        BY <1>1, <3>1, <3>3, <3>4, SplitGood
      <4>5. 1 =< Len(list) /\ scan.bb \in 0 .. Len(from.list)
        <5> HIDE DEF from, m, list
        <5> QED BY <1>1, <3>4, <4>2
      <4> HIDE DEF from, m
      <4>6. FileCounts' /\ FileMarks'
        BY <2>1, <3>2, <3>5, <3>6, <4>2, <4>3, <4>4, <4>5, FirstPassMarks
      <4> QED BY <4>6 DEF PInv
    <3>7. CASE files # -1
      <4>1. FileCounts' /\ FileMarks'
        <5>1. ASSUME NEW k, FileEnds(list, k, Room) PROVE k = scan.bb /\ from = in_s
          <6>1. k = scan.bb /\ list[k].len =< AlignDown(m, BlockSize)
            BY <1>6, <3>2, <3>3, <5>1
          <6>2. list[k] \in Nodes /\ AlignDown(m, BlockSize) \in Int
            <7>1. list[k] \in Nodes
              BY <1>1, <3>4, <6>1, ElementOfSeq
            <7>2. m \div BlockSize \in Nat /\ BlockSize \in Nat
              BY <3>3, SizesAssumption, DivFacts
            <7>3. BlockSize * (m \div BlockSize) \in Int
              BY <7>2
            <7> QED BY <7>1, <7>3 DEF AlignDown
          <6>3. list[k].len \in Nat
            <7>1. \A i \in 1 .. Len(list) : list[i].len \in Nat
              BY <1>1, HeapFacts
            <7> QED BY <3>4, <6>1, <7>1
          <6>4. ~Splits(in_s, scan.bb, m)
            BY <6>1, <6>2, <6>3 DEF Splits
          <6> QED BY <6>1, <6>4 DEF Split
        <5>2. \E k : FileEnds(list, k, Room)
          BY <1>5, <2>1, <3>2, <3>4, <3>7, MarkAhead
        <5>3. \A k : FileEnds(list, k, Room) => k = scan.bb
          BY <5>1
        <5>4. from = in_s
          BY <5>1, <5>2
        <5>5. scan.bb \in 0 .. Len(list)
          BY <1>1, <3>4
        <5> HIDE DEF from, m
        <5>6. FinishFile(in_s, scan.bb, TRUE)
          BY <3>2, <5>4
        <5> QED BY <1>5, <2>1, <3>2, <3>4, <3>7, <5>3, <5>5, <5>6, SecondPassMarks
      <4> QED BY <4>1 DEF PInv
    <3> QED BY <3>6, <3>7
  <2>5. CASE StopBefore
    <3>1. Looking /\ ~Fits /\ ~MustSplit /\ FinishFile(in_s, scan.last, TRUE)
      BY <2>5 DEF StopBefore
    <3>2. FileEnds(list, scan.last, Room)
      BY <3>1, StopEnds
    <3>3. CASE files = -1
      <4>1. FileCounts' /\ FileMarks'
        BY <1>1, <1>2, <2>1, <2>2, <3>1, <3>2, <3>3, FirstPassMarks
      <4> QED BY <4>1 DEF PInv
    <3>4. CASE files # -1
      <4>1. \A k : FileEnds(list, k, Room) => k = scan.last
        BY <1>6, <3>1
      <4>2. Fill(list, Len(list)) > Room /\ ~done
        BY <1>2, <1>5, <3>1
      <4>3. FileCounts' /\ FileMarks'
        BY <1>2, <2>1, <3>1, <3>4, <4>1, <4>2, SecondPassMarks
      <4> QED BY <4>3 DEF PInv
    <3> QED BY <3>3, <3>4
  <2>6. CASE EndOfList
    <3>1. ~done /\ scan.bb > Len(list) /\ FinishFile(in_s, scan.last, FALSE)
      BY <2>6 DEF EndOfList
    <3>2. FileCounts' /\ FileMarks'
      BY <2>1, <3>1, EndMarks
    <3> QED BY <3>2 DEF PInv
  <2>7. CASE SplitFails \/ MapFails
    BY <1>4, <2>7 DEF SplitFails, MapFails
  <2>8. CASE UNCHANGED vars
    <3>1. UNCHANGED <<in_s, tmp, out_s, out_s_count, max_len, c, files, done, faults>>
      BY <2>8 DEF vars
    <3> QED BY <1>3, <3>1
  <2> QED BY <2>3, <2>4, <2>5, <2>6, <2>7, <2>8 DEF Next
<1> QED BY <1>7, <1>8

THEOREM PassesInvariance == RoomForEightBlocks /\ FillFits => (Spec => []PInv)
<1> SUFFICES ASSUME RoomForEightBlocks, FillFits PROVE Spec => []PInv OBVIOUS
<1>1. IInv /\ KInv /\ OInv /\ SInv /\ PInv /\ [Next]_vars => PInv'
  BY NextPInv
<1>2. Spec => [](IInv /\ KInv /\ OInv /\ SInv)
  <2>1. Init => KInv /\ OInv
    BY InitKInv, InitOInv
  <2>2. Spec => []SInv
    BY SizesInvariance
  <2> QED BY <2>1, <2>2, NextKInv, NextOInv, Invariance, PTL DEF Spec
<1> QED BY <1>1, <1>2, InitPInv, PTL DEF Spec

(* When no call fails, the second pass of sparse_file_resparse returns as  *)
(* many files as the first one, however the extents it splits fall: the    *)
(* array simg2simg allocates is filled, and no further than it reaches.    *)
THEOREM SameCount == RoomForEightBlocks /\ FillFits => (Spec => []PassesAgree)
<1> SUFFICES ASSUME RoomForEightBlocks, FillFits PROVE Spec => []PassesAgree OBVIOUS
<1>1. PInv => PassesAgree
  BY DEF PInv, FileCounts, PassesAgree
<1> QED BY <1>1, PassesInvariance, PTL

(* When no call fails, sparse_file_resparse leaves nothing of the image    *)
(* behind when it returns.                                                 *)
THEOREM AllHandedOut == RoomForEightBlocks /\ FillFits => (Spec => []Complete)
<1> SUFFICES ASSUME RoomForEightBlocks, FillFits PROVE Spec => []Complete OBVIOUS
<1>1. PInv => Complete
  BY DEF PInv, FileCounts, Complete
<1> QED BY <1>1, PassesInvariance, PTL
=============================================================================
