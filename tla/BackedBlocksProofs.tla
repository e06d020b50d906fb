------------------------- MODULE BackedBlocksProofs -------------------------
(***************************************************************************)
(* Lemmas about the operators of BackedBlocks: the arithmetic of whole      *)
(* blocks, what merge_bb, queue_bb and backed_block_split do to a list in   *)
(* order, and what they do to the image it stands for.                      *)
(***************************************************************************)
EXTENDS BackedBlocks, ListLemmas

\* One block to spare: DIV_ROUND_UP adds block_size-1 before it divides.
ASSUME ImageFits == (Blocks + 1) * BlockSize =< UIntMod

-----------------------------------------------------------------------------
(* Arithmetic of whole blocks.                                             *)

(* DIV_ROUND_UP of a length that lies inside the image does not wrap.      *)
LEMMA RoundUpFacts ==
  ASSUME NEW n \in Nat, n =< Blocks * BlockSize
  PROVE  LET k == DivRoundUp(n, BlockSize)
         IN /\ k \in Nat
            /\ n =< BlockSize * k
            /\ BlockSize * k < n + BlockSize
<1> DEFINE B == BlockSize
<1>1. B \in Nat \ {0} /\ Blocks \in Nat /\ UIntMod \in Nat \ {0}
  BY SizesAssumption
<1>2. n + B - 1 \in Nat /\ n + B - 1 < UIntMod
  <2>1. (Blocks + 1) * B = Blocks * B + B
    BY <1>1
  <2>2. Blocks * B \in Nat
    BY <1>1
  <2> QED BY <1>1, <2>1, <2>2, ImageFits
<1>3. DivRoundUp(n, B) = (n + B - 1) \div B
  <2>1. (n + B - 1) % UIntMod = n + B - 1
    BY <1>1, <1>2
  <2> QED BY <2>1 DEF DivRoundUp, U
<1>4. /\ (n + B - 1) \div B \in Nat
      /\ B * ((n + B - 1) \div B) =< n + B - 1
      /\ n + B - 1 < B * ((n + B - 1) \div B) + B
  BY <1>1, <1>2, DivFacts
<1> DEFINE k == (n + B - 1) \div B
<1>5. B * k \in Int
  BY <1>1, <1>4
<1>6. n =< B * k /\ B * k < n + B
  <2> HIDE DEF k
  <2> QED BY <1>1, <1>4, <1>5 DEF k
<1> QED BY <1>3, <1>4, <1>6

LEMMA RoundUpUnique ==
  ASSUME NEW n \in Nat, n =< Blocks * BlockSize,
         NEW k \in Nat, n =< BlockSize * k, BlockSize * k < n + BlockSize
  PROVE  DivRoundUp(n, BlockSize) = k
<1> DEFINE j == DivRoundUp(n, BlockSize)
<1>1. j \in Nat /\ n =< BlockSize * j /\ BlockSize * j < n + BlockSize
  BY RoundUpFacts
<1>2. BlockSize \in Nat \ {0}
  BY SizesAssumption
<1> HIDE DEF j
<1>3. BlockSize * (k + 1) = BlockSize * k + BlockSize /\ BlockSize * (j + 1) = BlockSize * j + BlockSize
  BY <1>1, <1>2
<1>4. BlockSize * j < BlockSize * (k + 1) /\ BlockSize * k < BlockSize * (j + 1)
  BY <1>1, <1>2, <1>3
<1>5. j < k + 1 /\ k < j + 1
  BY <1>1, <1>2, <1>4, MulLess
<1> QED BY <1>1, <1>5 DEF j

\* It ends inside the image, and may hold nothing.
Inside(x) == x.block * BlockSize + x.len =< Blocks * BlockSize

(* An extent that ends inside the image covers no block beyond it.         *)
LEMMA InsideFacts ==
  ASSUME NEW x \in Nodes, Inside(x)
  PROVE  /\ x.len \in Nat /\ x.len =< Blocks * BlockSize
         /\ NBlocks(x) \in Nat
         /\ x.len =< BlockSize * NBlocks(x)
         /\ BlockSize * NBlocks(x) < x.len + BlockSize
         /\ x.block \in Nat /\ x.block + NBlocks(x) =< Blocks
<1>1. BlockSize \in Nat \ {0} /\ Blocks \in Nat /\ UIntMod \in Nat \ {0}
  BY SizesAssumption
<1>2. x.len \in Nat /\ x.block \in Nat
  BY <1>1 DEF Nodes, UInt
<1>3. x.block * BlockSize \in Nat /\ Blocks * BlockSize \in Nat
  BY <1>1, <1>2
<1>4. x.len =< Blocks * BlockSize
  BY <1>2, <1>3 DEF Inside
<1>5. NBlocks(x) = DivRoundUp(x.len, BlockSize)
  BY DEF NBlocks
<1>6. /\ NBlocks(x) \in Nat
      /\ x.len =< BlockSize * NBlocks(x)
      /\ BlockSize * NBlocks(x) < x.len + BlockSize
  BY <1>2, <1>4, <1>5, RoundUpFacts
<1> DEFINE k == NBlocks(x)
<1> HIDE DEF k
<1>7. x.block + k =< Blocks
  <2>1. BlockSize * (x.block + k) = BlockSize * x.block + BlockSize * k
    BY <1>1, <1>2, <1>6, MulLess DEF k
  <2>2. BlockSize * (Blocks + 1) = Blocks * BlockSize + BlockSize /\ BlockSize * x.block = x.block * BlockSize
    BY <1>1, <1>2
  <2>3. BlockSize * k \in Int /\ k \in Nat
    BY <1>1, <1>6 DEF k
  <2>4. BlockSize * (x.block + k) < BlockSize * (Blocks + 1)
    BY <2>1, <2>2, <2>3, <1>1, <1>2, <1>3, <1>6 DEF Inside, k
  <2>5. x.block + k < Blocks + 1
    BY <2>3, <2>4, <1>1, <1>2, MulLess
  <2> QED BY <2>3, <2>5, <1>1, <1>2
<1> QED BY <1>2, <1>4, <1>6, <1>7 DEF k

(* A well placed extent covers at least one block.                         *)
LEMMA PlacedFacts ==
  ASSUME NEW x \in Nodes, WellPlaced(x)
  PROVE  /\ x.len \in Nat \ {0} /\ x.len =< Blocks * BlockSize
         /\ NBlocks(x) \in Nat \ {0}
         /\ x.len =< BlockSize * NBlocks(x)
         /\ BlockSize * NBlocks(x) < x.len + BlockSize
         /\ x.block \in Nat /\ x.block + NBlocks(x) =< Blocks
<1> DEFINE k == NBlocks(x)
<1>1. BlockSize \in Nat \ {0} /\ x.len > 0 /\ Inside(x)
  BY SizesAssumption DEF WellPlaced, Inside
<1>2. /\ x.len \in Nat /\ x.len =< Blocks * BlockSize
      /\ k \in Nat /\ x.len =< BlockSize * k /\ BlockSize * k < x.len + BlockSize
      /\ x.block \in Nat /\ x.block + k =< Blocks
  BY <1>1, InsideFacts
<1> HIDE DEF k
<1>3. k # 0
  <2> SUFFICES ASSUME k = 0 PROVE FALSE OBVIOUS
  <2>1. BlockSize * k = 0 BY <1>1
  <2> QED BY <2>1, <1>1, <1>2
<1> QED BY <1>1, <1>2, <1>3 DEF k
-----------------------------------------------------------------------------
(* Lists of extents.                                                       *)

GoodList(list) ==
  /\ list \in Seq(Nodes)
  /\ \A i \in DOMAIN list : WellPlaced(list[i])
  /\ Ascending(list)

LEMMA GoodListFacts ==
  ASSUME NEW list, GoodList(list)
  PROVE  /\ Len(list) \in Nat /\ DOMAIN list = 1 .. Len(list)
         /\ \A i \in 1 .. Len(list) :
              /\ list[i] \in Nodes /\ WellPlaced(list[i])
              /\ list[i].block \in Nat /\ NBlocks(list[i]) \in Nat \ {0}
         /\ \A i, j \in 1 .. Len(list) :
              i < j => list[i].block + NBlocks(list[i]) =< list[j].block
<1>1. list \in Seq(Nodes) /\ Len(list) \in Nat /\ DOMAIN list = 1 .. Len(list)
  BY LenProperties DEF GoodList
<1>2. \A i \in 1 .. Len(list) : list[i] \in Nodes /\ WellPlaced(list[i])
  BY <1>1, ElementOfSeq DEF GoodList
<1>3. \A i \in 1 .. Len(list) : list[i].block \in Nat /\ NBlocks(list[i]) \in Nat \ {0}
  BY <1>2, PlacedFacts
<1> QED BY <1>1, <1>2, <1>3 DEF GoodList, Ascending

(* Two disjoint extents lie one wholly behind the other.                   *)
LEMMA DisjointOrder ==
  ASSUME NEW x \in Nodes, NEW y \in Nodes, WellPlaced(x), WellPlaced(y),
         Covered(x) \cap Covered(y) = {}, x.block =< y.block
  PROVE  x.block + NBlocks(x) =< y.block
<1>1. /\ x.block \in Nat /\ NBlocks(x) \in Nat \ {0}
      /\ y.block \in Nat /\ NBlocks(y) \in Nat \ {0}
  BY PlacedFacts
<1>2. y.block \in Covered(y)
  BY <1>1 DEF Covered
<1>3. y.block \notin Covered(x)
  BY <1>2
<1> QED BY <1>1, <1>3 DEF Covered

LEMMA InsertGood ==
  ASSUME NEW list, GoodList(list), NEW new \in Nodes, WellPlaced(new),
         NEW at \in 0 .. Len(list),
         \A i \in 1 .. at : list[i].block + NBlocks(list[i]) =< new.block,
         \A i \in at+1 .. Len(list) : new.block + NBlocks(new) =< list[i].block
  PROVE  GoodList(InsertAt(list, at+1, new))
<1> DEFINE n == Len(list)
           l == InsertAt(list, at+1, new)
<1>1. /\ n \in Nat /\ list \in Seq(Nodes)
      /\ \A i \in 1 .. n : /\ list[i] \in Nodes /\ WellPlaced(list[i])
                           /\ list[i].block \in Nat /\ NBlocks(list[i]) \in Nat \ {0}
      /\ \A i, j \in 1 .. n : i < j => list[i].block + NBlocks(list[i]) =< list[j].block
  BY GoodListFacts DEF GoodList
<1>2. at+1 \in 1 .. n+1
  BY <1>1
<1>3. /\ l \in Seq(Nodes) /\ Len(l) = n + 1
      /\ \A j \in 1 .. n + 1 : l[j] = IF j < at+1 THEN list[j]
                                      ELSE IF j = at+1 THEN new ELSE list[j - 1]
  BY <1>1, <1>2, InsertAtProperties
<1>4. DOMAIN l = 1 .. n + 1
  BY <1>3, LenProperties
<1> HIDE DEF n, l
<1>5. ASSUME NEW i \in 1 .. n + 1 PROVE WellPlaced(l[i])
  <2>1. CASE i < at+1
    <3>1. l[i] = list[i] /\ i \in 1 .. n
      BY <1>1, <1>2, <1>3, <2>1
    <3> QED BY <1>1, <3>1
  <2>2. CASE i = at+1
    BY <1>3, <2>2
  <2>3. CASE i > at+1
    <3>1. l[i] = list[i-1] /\ i-1 \in 1 .. n
      BY <1>1, <1>2, <1>3, <2>3
    <3> QED BY <1>1, <3>1
  <2> QED BY <1>1, <1>2, <2>1, <2>2, <2>3
<1>6. new.block \in Nat /\ NBlocks(new) \in Nat \ {0}
  BY PlacedFacts
<1>7. ASSUME NEW i \in 1 .. n+1, NEW j \in 1 .. n+1, i < j
      PROVE  l[i].block + NBlocks(l[i]) =< l[j].block
  <2>1. CASE j < at+1
    <3>1. l[i] = list[i] /\ l[j] = list[j] /\ i \in 1 .. n /\ j \in 1 .. n
      BY <1>1, <1>2, <1>3, <1>7, <2>1
    <3> QED BY <1>1, <1>7, <3>1
  <2>2. CASE j = at+1
    <3>1. l[i] = list[i] /\ l[j] = new /\ i \in 1 .. at
      BY <1>1, <1>2, <1>3, <1>7, <2>2
    <3> QED BY <3>1
  <2>3. CASE j > at+1 /\ i < at+1
    <3>1. l[i] = list[i] /\ l[j] = list[j-1] /\ i \in 1 .. n /\ j-1 \in 1 .. n /\ i < j-1
      BY <1>1, <1>2, <1>3, <1>7, <2>3
    <3> QED BY <1>1, <3>1
  <2>4. CASE j > at+1 /\ i = at+1
    <3>1. l[i] = new /\ l[j] = list[j-1] /\ j-1 \in at+1 .. n
      BY <1>1, <1>2, <1>3, <1>7, <2>4
    <3> QED BY <3>1 DEF n
  <2>5. CASE j > at+1 /\ i > at+1
    <3>1. l[i] = list[i-1] /\ l[j] = list[j-1] /\ i-1 \in 1 .. n /\ j-1 \in 1 .. n /\ i-1 < j-1
      BY <1>1, <1>2, <1>3, <1>7, <2>5, SMTT(40)
    <3> QED BY <1>1, <3>1
  <2> QED BY <1>2, <2>1, <2>2, <2>3, <2>4, <2>5
<1> QED BY <1>3, <1>4, <1>5, <1>7 DEF GoodList, Ascending, n, l

(* A merge happens only behind an extent of whole blocks; the merged extent *)
(* covers exactly the blocks of the two.                                    *)
LEMMA MergedFacts ==
  ASSUME NEW a \in Nodes, NEW b \in Nodes, WellPlaced(a), WellPlaced(b),
         a.block + NBlocks(a) =< b.block, Mergeable(a, b)
  PROVE  /\ a.len = BlockSize * NBlocks(a)
         /\ a.block + NBlocks(a) = b.block
         /\ Merged(a, b) \in Nodes
         /\ Merged(a, b) = [a EXCEPT !.len = a.len + b.len]
         /\ WellPlaced(Merged(a, b))
         /\ NBlocks(Merged(a, b)) = NBlocks(a) + NBlocks(b)
<1> DEFINE B == BlockSize
           q == a.len \div B
           k == NBlocks(a)
           m == NBlocks(b)
<1>1. B \in Nat \ {0} /\ Blocks \in Nat \ {0} /\ UIntMod \in Nat \ {0}
  BY SizesAssumption
<1>2. /\ a.len \in Nat \ {0} /\ a.block \in Nat
      /\ k \in Nat \ {0} /\ a.len =< B * k /\ B * k < a.len + B
  BY PlacedFacts
<1>3. /\ b.len \in Nat \ {0} /\ b.block \in Nat
      /\ m \in Nat \ {0} /\ b.len =< B * m /\ B * m < b.len + B
      /\ b.block + m =< Blocks
  BY PlacedFacts
<1>4. q \in Nat /\ B * q =< a.len /\ a.len < B * q + B
  BY <1>1, <1>2, DivFacts
<1>5. (a.block + q) % UIntMod = b.block
  BY DEF Mergeable, U
<1> HIDE DEF q, k, m
<1>6. q =< k
  <2>1. B * (k + 1) = B * k + B
    BY <1>1, <1>2
  <2>2. B * q < B * (k + 1)
    BY <1>1, <1>2, <1>4, <2>1
  <2> QED BY <1>1, <1>2, <1>4, <2>2, MulLess
<1>7. a.block + q < UIntMod
  <2>1. a.block + q =< Blocks
    <3>1. a.block + k =< b.block BY DEF k
    <3> QED BY <3>1, <1>1, <1>2, <1>3, <1>4, <1>6
  <2>2. Blocks + 1 =< (Blocks + 1) * B
    BY <1>1
  <2> QED BY <1>1, <1>2, <1>4, <2>1, <2>2, ImageFits
<1>8. a.block + q = b.block
  <2>1. (a.block + q) % UIntMod = a.block + q
    BY <1>1, <1>2, <1>4, <1>7
  <2> QED BY <1>5, <2>1
<1>9. k = q
  BY <1>2, <1>3, <1>4, <1>6, <1>8 DEF k
<1>10. a.len = B * k
  BY <1>1, <1>2, <1>4, <1>9
<1>11. a.block + k = b.block
  BY <1>8, <1>9
<1>12. B * (a.block + k) = B * a.block + B * k
  BY <1>1, <1>2
<1>13. b.block * B + b.len =< Blocks * B
  BY DEF WellPlaced
<1>14. a.block * B + (a.len + b.len) =< Blocks * B
  <2>1. b.block * B = a.block * B + B * k
    BY <1>1, <1>2, <1>11, <1>12
  <2> QED BY <2>1, <1>1, <1>2, <1>3, <1>10, <1>13
<1>15. a.len + b.len =< Blocks * B /\ Blocks * B < UIntMod
  <2>1. a.block * B \in Nat /\ Blocks * B \in Nat /\ (Blocks + 1) * B = Blocks * B + B
    BY <1>1, <1>2
  <2> QED BY <2>1, <1>1, <1>2, <1>3, <1>14, ImageFits
<1>16. U(a.len + b.len) = a.len + b.len /\ a.len + b.len \in UInt
  <2>1. Blocks * B \in Nat
    BY <1>1
  <2> QED BY <2>1, <1>1, <1>2, <1>3, <1>15 DEF U, UInt
<1>17. Merged(a, b) = [a EXCEPT !.len = a.len + b.len]
  BY <1>16 DEF Merged
<1>18. Merged(a, b) \in Nodes
  BY <1>16, <1>17 DEF Nodes
<1>19. Merged(a, b).len = a.len + b.len /\ Merged(a, b).block = a.block
  BY <1>17 DEF Nodes
<1>20. WellPlaced(Merged(a, b))
  BY <1>2, <1>3, <1>14, <1>19 DEF WellPlaced
<1>21. DivRoundUp(a.len + b.len, B) = k + m
  <2>1. B * (k + m) = B * k + B * m /\ B * k \in Nat /\ B * m \in Nat
    BY <1>1, <1>2, <1>3
  <2>2. a.len + b.len =< B * (k + m) /\ B * (k + m) < a.len + b.len + B
    BY <2>1, <1>1, <1>2, <1>3, <1>10
  <2>3. k + m \in Nat /\ a.len + b.len \in Nat
    BY <1>2, <1>3
  <2> QED BY <2>2, <2>3, <1>15, RoundUpUnique
<1>22. NBlocks(Merged(a, b)) = k + m
  BY <1>19, <1>21 DEF NBlocks
<1> QED BY <1>10, <1>11, <1>17, <1>18, <1>20, <1>22 DEF k, m

(* The nodes after merge_bb on positions i and i+1.                        *)
LEMMA MergeAtElements ==
  ASSUME NEW list, GoodList(list), NEW i \in 1 .. Len(list),
         i < Len(list), Mergeable(list[i], list[i+1])
  PROVE  /\ Len(MergeAt(list, i)) = Len(list) - 1
         /\ MergeAt(list, i) \in Seq(Nodes)
         /\ \A j \in 1 .. Len(list) - 1 : MergeAt(list, i)[j] =
              IF j < i THEN list[j] ELSE IF j = i THEN Merged(list[i], list[i+1]) ELSE list[j+1]
<1> DEFINE n == Len(list)
           m == Merged(list[i], list[i+1])
           e == [list EXCEPT ![i] = m]
           l == RemoveAt(e, i+1)
<1>1. /\ n \in Nat /\ list \in Seq(Nodes) /\ i \in 1 .. n /\ i+1 \in 1 .. n
      /\ list[i] \in Nodes /\ list[i+1] \in Nodes
      /\ WellPlaced(list[i]) /\ WellPlaced(list[i+1])
      /\ list[i].block + NBlocks(list[i]) =< list[i+1].block
  BY GoodListFacts DEF GoodList
<1>2. m \in Nodes
  BY <1>1, MergedFacts
<1>3. e \in Seq(Nodes) /\ Len(e) = n /\ \A j \in 1 .. n : e[j] = IF j = i THEN m ELSE list[j]
  <2> HIDE DEF m
  <2> QED BY <1>1, <1>2, ExceptSeq
<1>4. /\ l \in Seq(Nodes) /\ Len(l) = n - 1
      /\ \A j \in 1 .. n - 1 : l[j] = IF j < i+1 THEN e[j] ELSE e[j + 1]
  <2> HIDE DEF e
  <2> QED BY <1>1, <1>3, RemoveAtProperties
<1>5. MergeAt(list, i) = l
  BY <1>1 DEF MergeAt
<1>6. ASSUME NEW j \in 1 .. n - 1
      PROVE  l[j] = IF j < i THEN list[j] ELSE IF j = i THEN m ELSE list[j+1]
  <2> HIDE DEF l, e, m, n
  <2> QED BY <1>1, <1>3, <1>4
<1> HIDE DEF l, m
<1> QED BY <1>4, <1>5, <1>6 DEF m

LEMMA MergeGood ==
  ASSUME NEW list, GoodList(list), NEW i \in 1 .. Len(list)
  PROVE  GoodList(MergeAt(list, i))
<1>1. CASE ~(i < Len(list) /\ Mergeable(list[i], list[i+1]))
  BY <1>1 DEF MergeAt
<1>2. CASE i < Len(list) /\ Mergeable(list[i], list[i+1])
  <2> DEFINE n == Len(list)
             m == Merged(list[i], list[i+1])
             l == MergeAt(list, i)
  <2>1. /\ n \in Nat /\ list \in Seq(Nodes) /\ i \in 1 .. n /\ i+1 \in 1 .. n
        /\ \A j \in 1 .. n : /\ list[j] \in Nodes /\ WellPlaced(list[j])
                             /\ list[j].block \in Nat /\ NBlocks(list[j]) \in Nat \ {0}
        /\ \A j, k \in 1 .. n : j < k => list[j].block + NBlocks(list[j]) =< list[k].block
    BY <1>2, GoodListFacts DEF GoodList
  <2>2. list[i].block + NBlocks(list[i]) =< list[i+1].block
    BY <2>1
  <2>3. /\ list[i].block + NBlocks(list[i]) = list[i+1].block
        /\ m \in Nodes /\ WellPlaced(m) /\ m.block = list[i].block
        /\ NBlocks(m) = NBlocks(list[i]) + NBlocks(list[i+1])
    <3>1. list[i] \in Nodes /\ list[i+1] \in Nodes /\ WellPlaced(list[i]) /\ WellPlaced(list[i+1])
      BY <2>1
    <3>2. m = [list[i] EXCEPT !.len = list[i].len + list[i+1].len]
      BY <1>2, <2>2, <3>1, MergedFacts
    <3>3. m.block = list[i].block
      BY <3>1, <3>2 DEF Nodes
    <3> QED BY <1>2, <2>2, <3>1, <3>3, MergedFacts
  <2>4. /\ l \in Seq(Nodes) /\ Len(l) = n - 1
        /\ \A j \in 1 .. n - 1 : l[j] = IF j < i THEN list[j] ELSE IF j = i THEN m ELSE list[j+1]
    BY <1>2, MergeAtElements
  <2>5. DOMAIN l = 1 .. n - 1
    BY <2>4, LenProperties
  <2> HIDE DEF l, m, n
  <2>6. ASSUME NEW j \in 1 .. n - 1 PROVE WellPlaced(l[j])
    <3>1. CASE j = i BY <2>3, <2>4, <3>1
    <3>2. CASE j < i
      <4>1. l[j] = list[j] /\ j \in 1 .. n BY <2>1, <2>4, <3>2
      <4> QED BY <2>1, <4>1
    <3>3. CASE j > i
      <4>1. l[j] = list[j+1] /\ j+1 \in 1 .. n BY <2>1, <2>4, <3>3
      <4> QED BY <2>1, <4>1
    <3> QED BY <2>1, <3>1, <3>2, <3>3
  <2>7. ASSUME NEW j \in 1 .. n - 1, NEW k \in 1 .. n - 1, j < k
        PROVE  l[j].block + NBlocks(l[j]) =< l[k].block
    <3>1. CASE k < i
      <4>1. l[j] = list[j] /\ l[k] = list[k] /\ j \in 1 .. n /\ k \in 1 .. n
        BY <2>1, <2>4, <2>7, <3>1
      <4> QED BY <2>1, <2>7, <4>1
    <3>2. CASE k = i
      <4>1. l[k] = m
        BY <2>4, <3>2
      <4>2. l[j] = list[j] /\ j \in 1 .. n /\ j < i
        BY <2>1, <2>4, <2>7, <3>2
      <4> QED BY <2>1, <2>3, <4>1, <4>2
    <3>3. CASE k > i /\ j < i
      <4>1. l[j] = list[j] /\ l[k] = list[k+1] /\ j \in 1 .. n /\ k+1 \in 1 .. n /\ j < k+1
        BY <2>1, <2>4, <2>7, <3>3
      <4> QED BY <2>1, <4>1
    <3>4. CASE k > i /\ j = i
      <4>1. l[j] = m /\ l[k] = list[k+1] /\ k+1 \in 1 .. n /\ i+1 < k+1
        BY <2>1, <2>4, <2>7, <3>4
      <4>2. list[i+1].block + NBlocks(list[i+1]) =< list[k+1].block
        BY <2>1, <4>1
      <4>3. /\ list[i].block \in Nat /\ NBlocks(list[i]) \in Nat /\ list[i+1].block \in Nat
            /\ NBlocks(list[i+1]) \in Nat /\ list[k+1].block \in Nat
        BY <2>1, <4>1
      <4> QED BY <2>3, <4>1, <4>2, <4>3, SMTT(40)
    <3>5. CASE k > i /\ j > i
      <4>1. l[j] = list[j+1] /\ l[k] = list[k+1] /\ j+1 \in 1 .. n /\ k+1 \in 1 .. n /\ j+1 < k+1
        BY <2>1, <2>4, <2>7, <3>5
      <4> QED BY <2>1, <4>1
    <3> QED BY <2>1, <3>1, <3>2, <3>3, <3>4, <3>5
  <2> QED BY <2>4, <2>5, <2>6, <2>7 DEF GoodList, Ascending, l
<1> QED BY <1>1, <1>2

(* merge_bb frees the second node and keeps every node up to the first.    *)
LEMMA MergeKeepsFront ==
  ASSUME NEW list, GoodList(list), NEW i \in 1 .. Len(list)
  PROVE  /\ i =< Len(MergeAt(list, i))
         /\ \A j \in 1 .. i : MergeAt(list, i)[j].id = list[j].id
<1>1. CASE ~(i < Len(list) /\ Mergeable(list[i], list[i+1]))
  BY <1>1, GoodListFacts DEF MergeAt
<1>2. CASE i < Len(list) /\ Mergeable(list[i], list[i+1])
  <2>1. /\ Len(list) \in Nat /\ list[i] \in Nodes /\ list[i+1] \in Nodes
        /\ WellPlaced(list[i]) /\ WellPlaced(list[i+1])
        /\ list[i].block + NBlocks(list[i]) =< list[i+1].block
    BY <1>2, GoodListFacts
  <2>2. Merged(list[i], list[i+1]).id = list[i].id
    BY <2>1 DEF Merged, Nodes
  <2>3. /\ Len(MergeAt(list, i)) = Len(list) - 1
        /\ \A j \in 1 .. Len(list) - 1 : MergeAt(list, i)[j] =
             IF j < i THEN list[j] ELSE IF j = i THEN Merged(list[i], list[i+1]) ELSE list[j+1]
    BY <1>2, MergeAtElements
  <2> QED BY <1>2, <2>1, <2>2, <2>3
<1> QED BY <1>1, <1>2

-----------------------------------------------------------------------------
(* queue_bb: the search ends at the node the new extent belongs behind,    *)
(* whether it starts at last_used or at the head.                          *)
LEMMA PredecessorFacts ==
  ASSUME NEW bl, GoodList(bl.list), NEW new \in Nodes, WellPlaced(new),
         \A i \in DOMAIN bl.list : Covered(bl.list[i]) \cap Covered(new) = {},
         ~ BeforeHead(bl, new)
  PROVE  LET at == Predecessor(bl, new)
         IN /\ at \in 1 .. Len(bl.list)
            /\ \A i \in 1 .. at : bl.list[i].block + NBlocks(bl.list[i]) =< new.block
            /\ \A i \in at+1 .. Len(bl.list) : new.block + NBlocks(new) =< bl.list[i].block
<1> DEFINE list == bl.list
           n == Len(list)
           start == SearchStart(bl, new)
           at == Predecessor(bl, new)
<1>1. /\ n \in Nat /\ DOMAIN list = 1 .. n
      /\ \A i \in 1 .. n : /\ list[i] \in Nodes /\ WellPlaced(list[i])
                           /\ list[i].block \in Nat /\ NBlocks(list[i]) \in Nat \ {0}
      /\ \A i, j \in 1 .. n : i < j => list[i].block + NBlocks(list[i]) =< list[j].block
  BY GoodListFacts
<1>2. new.block \in Nat /\ NBlocks(new) \in Nat \ {0}
  BY PlacedFacts
<1>3. \A i \in 1 .. n : list[i].block =< new.block => list[i].block + NBlocks(list[i]) =< new.block
  BY <1>1, DisjointOrder
<1>4. \A i \in 1 .. n : new.block =< list[i].block => new.block + NBlocks(new) =< list[i].block
  <2> SUFFICES ASSUME NEW i \in 1 .. n, new.block =< list[i].block
               PROVE  new.block + NBlocks(new) =< list[i].block
    OBVIOUS
  <2>1. Covered(new) \cap Covered(list[i]) = {}
    BY <1>1
  <2> QED BY <1>1, <2>1, DisjointOrder
<1>5. n >= 1 /\ list[1].block =< new.block
  <2>1. list # <<>> /\ ~(list[1].block > new.block)
    BY DEF BeforeHead
  <2>2. n # 0
    BY <2>1, EmptySeq, <1>1 DEF GoodList
  <2>3. 1 \in 1 .. n
    BY <1>1, <2>2
  <2> QED BY <1>1, <1>2, <2>1, <2>3
<1>6. start \in 1 .. n /\ list[start].block =< new.block
  <2> DEFINE cached == {i \in DOMAIN list : list[i].id = bl.last_used /\ new.block > list[i].block}
  <2>1. start = IF cached # {} THEN CHOOSE i \in cached : TRUE ELSE 1
    BY DEF SearchStart
  <2>2. CASE cached = {}
    BY <1>1, <1>5, <2>1, <2>2
  <2>3. CASE cached # {}
    <3>1. start \in cached
      BY <2>1, <2>3
    <3> QED BY <3>1, <1>1, <1>2
  <2> QED BY <2>2, <2>3
<1> HIDE DEF start
<1>7. PICK m \in start .. n : /\ m = n \/ list[m+1].block >= new.block
                              /\ \A j \in start .. m-1 : list[j+1].block < new.block
  <2> DEFINE T == {i \in start .. n : i = n \/ list[i+1].block >= new.block}
  <2>1. T \in SUBSET Nat /\ n \in T
    BY <1>1, <1>6
  <2>2. PICK m \in T : \A k \in T : m =< k
    <3> HIDE DEF T
    <3> QED BY <2>1, LeastElement
  <2>3. m \in start .. n /\ (m = n \/ list[m+1].block >= new.block)
    BY <2>2
  <2>4. ASSUME NEW j \in start .. m-1 PROVE list[j+1].block < new.block
    <3>1. j \notin T
      BY <2>2, <2>3, <1>1, <1>6
    <3>2. j \in start .. n /\ j+1 \in 1 .. n
      BY <2>3, <1>1, <1>6
    <3>3. ~(list[j+1].block >= new.block)
      BY <3>1, <3>2
    <3> QED BY <3>2, <3>3, <1>1, <1>2, SMTT(40)
  <2> QED BY <2>3, <2>4
<1>8. /\ at \in start .. n
      /\ at = n \/ list[at+1].block >= new.block
      /\ \A j \in start .. at-1 : list[j+1].block < new.block
  BY <1>7 DEF Predecessor, start
<1> HIDE DEF at
<1>9. at \in 1 .. n
  BY <1>1, <1>6, <1>8
<1>10. list[at].block =< new.block
  <2>1. CASE at = start
    BY <1>6, <2>1
  <2>2. CASE at # start
    <3>1. at-1 \in start .. at-1 /\ (at-1)+1 = at
      BY <1>1, <1>6, <1>8, <2>2
    <3>2. list[at].block < new.block
      BY <1>8, <3>1
    <3> QED BY <1>1, <1>2, <1>9, <3>2
  <2> QED BY <2>1, <2>2
<1>11. ASSUME NEW i \in 1 .. at PROVE list[i].block + NBlocks(list[i]) =< new.block
  <2>1. i \in 1 .. n /\ i =< at
    BY <1>1, <1>9
  <2>2. list[i].block =< list[at].block
    BY <1>1, <1>9, <2>1, SMTT(40)
  <2>3. list[i].block =< new.block
    BY <1>1, <1>2, <1>9, <1>10, <2>1, <2>2, SMTT(40)
  <2> QED BY <1>3, <2>1, <2>3
<1>12. ASSUME NEW i \in at+1 .. n PROVE new.block + NBlocks(new) =< list[i].block
  <2>1. i \in 1 .. n /\ at+1 \in 1 .. n /\ at+1 =< i /\ at # n
    BY <1>1, <1>9
  <2>2. new.block =< list[at+1].block
    BY <1>1, <1>2, <1>8, <2>1
  <2>3. list[at+1].block =< list[i].block
    BY <1>1, <2>1, SMTT(40)
  <2>4. new.block =< list[i].block
    BY <1>1, <1>2, <2>1, <2>2, <2>3, SMTT(40)
  <2> QED BY <1>4, <2>1, <2>4
<1> QED BY <1>9, <1>11, <1>12 DEF at

(* queue_bb never trips its assert, keeps the list in order, and last_used *)
(* ends up on a node that is still there.                                  *)
LEMMA QueueFacts ==
  ASSUME NEW bl, GoodList(bl.list), NEW new \in Nodes, WellPlaced(new),
         bl \in [list : Seq(Nodes), last_used : Addr \cup {NULL}],
         bl.last_used # NULL => bl.last_used \in Ids(bl),
         \A i \in DOMAIN bl.list : Covered(bl.list[i]) \cap Covered(new) = {}
  PROVE  /\ QueueAsserts(bl, new)
         /\ GoodList(Queue(bl, new).list)
         /\ Queue(bl, new) \in [list : Seq(Nodes), last_used : Addr \cup {NULL}]
         /\ Queue(bl, new).last_used # NULL =>
              Queue(bl, new).last_used \in Ids(Queue(bl, new))
<1> DEFINE list == bl.list
           n == Len(list)
<1>1. /\ n \in Nat /\ DOMAIN list = 1 .. n /\ list \in Seq(Nodes)
      /\ \A i \in 1 .. n : /\ list[i] \in Nodes /\ WellPlaced(list[i])
                           /\ list[i].block \in Nat /\ NBlocks(list[i]) \in Nat \ {0}
      /\ \A i, j \in 1 .. n : i < j => list[i].block + NBlocks(list[i]) =< list[j].block
  BY GoodListFacts DEF GoodList
<1>2. new.block \in Nat /\ NBlocks(new) \in Nat \ {0} /\ new.id \in Addr
  BY PlacedFacts DEF Nodes
<1>3. CASE BeforeHead(bl, new)
  <2> DEFINE l == <<new>> \o list
  <2>1. Queue(bl, new) = [bl EXCEPT !.list = l]
    BY <1>3 DEF Queue
  <2>2. Queue(bl, new).list = l /\ Queue(bl, new).last_used = bl.last_used
    BY <2>1
  <2>3. /\ l \in Seq(Nodes) /\ Len(l) = n + 1
        /\ \A j \in 1 .. n + 1 : l[j] = IF j = 1 THEN new ELSE list[j - 1]
    BY <1>1, PrependProperties
  <2>4. DOMAIN l = 1 .. n + 1
    BY <2>3, LenProperties
  <2> HIDE DEF l
  <2>5. \A i \in 1 .. n : new.block + NBlocks(new) =< list[i].block
    <3> SUFFICES ASSUME NEW i \in 1 .. n PROVE new.block + NBlocks(new) =< list[i].block
      OBVIOUS
    <3>1. 1 \in 1 .. n /\ list # <<>>
      BY <1>1, EmptySeq
    <3>2. list[1].block > new.block
      BY <1>3, <3>1 DEF BeforeHead
    <3>3. list[1].block =< list[i].block
      BY <1>1, <3>1
    <3>4. new.block =< list[i].block
      BY <1>1, <1>2, <3>1, <3>2, <3>3
    <3>5. Covered(new) \cap Covered(list[i]) = {}
      BY <1>1
    <3> QED BY <1>1, <3>4, <3>5, DisjointOrder
  <2>6. ASSUME NEW i \in 1 .. n+1 PROVE WellPlaced(l[i])
    <3>1. CASE i = 1 BY <2>3, <3>1
    <3>2. CASE i # 1
      <4>1. l[i] = list[i-1] /\ i-1 \in 1 .. n BY <1>1, <2>3, <3>2
      <4> QED BY <1>1, <4>1
    <3> QED BY <3>1, <3>2
  <2>7. ASSUME NEW i \in 1 .. n+1, NEW j \in 1 .. n+1, i < j
        PROVE  l[i].block + NBlocks(l[i]) =< l[j].block
    <3>1. l[j] = list[j-1] /\ j-1 \in 1 .. n
      BY <1>1, <2>3, <2>7
    <3>2. CASE i = 1
      <4>1. l[i] = new BY <2>3, <3>2
      <4> QED BY <2>5, <3>1, <4>1
    <3>3. CASE i # 1
      <4>1. l[i] = list[i-1] /\ i-1 \in 1 .. n /\ i-1 < j-1 BY <1>1, <2>3, <2>7, <3>3
      <4> QED BY <1>1, <3>1, <4>1
    <3> QED BY <3>2, <3>3
  <2>8. GoodList(l)
    BY <2>3, <2>4, <2>6, <2>7 DEF GoodList, Ascending
  <2>9. Ids(bl) \subseteq Ids(Queue(bl, new))
    <3> SUFFICES ASSUME NEW i \in DOMAIN list PROVE list[i].id \in Ids(Queue(bl, new))
      BY DEF Ids
    <3>1. i+1 \in DOMAIN l /\ l[i+1] = list[i]
      BY <1>1, <2>3, <2>4
    <3>2. l[i+1].id \in {l[j].id : j \in DOMAIN l}
      BY <3>1
    <3> QED BY <2>2, <3>1, <3>2 DEF Ids
  <2>10. QueueAsserts(bl, new)
    BY <1>3 DEF QueueAsserts
  <2> QED BY <2>1, <2>2, <2>3, <2>8, <2>9, <2>10
<1>4. CASE ~ BeforeHead(bl, new)
  <2> DEFINE at == Predecessor(bl, new)
             ins == InsertAt(list, at + 1, new)
             forward == MergeAt(ins, at + 1)
             backward == MergeAt(forward, at)
  <2>1. /\ at \in 1 .. n
        /\ \A i \in 1 .. at : list[i].block + NBlocks(list[i]) =< new.block
        /\ \A i \in at+1 .. n : new.block + NBlocks(new) =< list[i].block
    BY <1>4, PredecessorFacts
  <2> HIDE DEF at
  <2>2. at \in 0 .. n /\ at+1 \in 1 .. n+1
    BY <1>1, <2>1
  <2>3. GoodList(ins)
    BY <2>1, <2>2, InsertGood
  <2>4. /\ Len(ins) = n + 1 /\ ins \in Seq(Nodes)
        /\ \A j \in 1 .. n + 1 : ins[j] = IF j < at+1 THEN list[j]
                                          ELSE IF j = at+1 THEN new ELSE list[j - 1]
    BY <1>1, <2>2, InsertAtProperties, SMTT(40)
  <2> HIDE DEF ins
  <2>5. at \in 1 .. Len(ins) /\ at+1 \in 1 .. Len(ins)
    BY <1>1, <2>1, <2>2, <2>4
  <2>6. GoodList(forward) /\ at+1 =< Len(forward) /\ \A j \in 1 .. at+1 : forward[j].id = ins[j].id
    BY <2>3, <2>5, MergeGood, MergeKeepsFront
  <2>7. forward[at+1].id = new.id
    <3>1. ins[at+1] = new BY <2>2, <2>4
    <3> QED BY <2>2, <2>6, <3>1
  <2> HIDE DEF forward
  <2>8. Len(forward) \in Nat /\ at \in 1 .. Len(forward) /\ at+1 \in 1 .. Len(forward)
    BY <2>1, <2>2, <2>6, GoodListFacts
  <2>9. GoodList(backward) /\ at =< Len(backward) /\ \A j \in 1 .. at : backward[j].id = forward[j].id
    BY <2>6, <2>8, MergeGood, MergeKeepsFront
  <2>10. backward \in Seq(Nodes) /\ Len(backward) \in Nat /\ DOMAIN backward = 1 .. Len(backward)
    BY <2>9, GoodListFacts DEF GoodList
  <2>11. Queue(bl, new) =
           [list |-> backward,
            last_used |-> IF Mergeable(forward[at], forward[at+1]) THEN forward[at].id ELSE new.id]
    BY <1>4 DEF Queue, QueueAfter, backward, forward, ins, at
  <2>12. QueueAsserts(bl, new)
    <3>1. list[at].block < new.block
      <4>1. list[at].block + NBlocks(list[at]) =< new.block
        BY <1>1, <2>1
      <4> QED BY <1>1, <1>2, <2>1, <4>1
    <3>2. at < n => new.block < list[at+1].block
      <4> SUFFICES ASSUME at < n PROVE new.block < list[at+1].block OBVIOUS
      <4>1. at+1 \in at+1 .. n /\ at+1 \in 1 .. n
        BY <1>1, <2>1
      <4>2. new.block + NBlocks(new) =< list[at+1].block
        BY <2>1, <4>1
      <4> QED BY <1>1, <1>2, <4>1, <4>2
    <3> QED BY <3>1, <3>2 DEF QueueAsserts, at
  <2>13. CASE Mergeable(forward[at], forward[at+1])
    <3>1. Queue(bl, new) = [list |-> backward, last_used |-> forward[at].id]
      BY <2>11, <2>13
    <3>2. at \in DOMAIN backward /\ backward[at].id = forward[at].id
      BY <2>8, <2>9, <2>10
    <3> HIDE DEF backward
    <3>3. backward[at].id \in Addr
      <4>1. backward[at] \in Nodes
        BY <2>10, <3>2, ElementOfSeq
      <4> QED BY <4>1 DEF Nodes
    <3>4. Queue(bl, new).last_used \in Ids(Queue(bl, new))
      BY <3>1, <3>2 DEF Ids
    <3>5. Queue(bl, new) \in [list : Seq(Nodes), last_used : Addr \cup {NULL}]
      BY <2>10, <3>1, <3>2, <3>3
    <3> QED BY <2>9, <2>12, <3>1, <3>4, <3>5
  <2>14. CASE ~ Mergeable(forward[at], forward[at+1])
    <3>1. Queue(bl, new) = [list |-> backward, last_used |-> new.id]
      BY <2>11, <2>14
    <3>2. backward = forward
      BY <2>14 DEF MergeAt
    <3>3. at+1 \in DOMAIN backward /\ backward[at+1].id = new.id
      BY <2>7, <2>8, <2>10, <3>2
    <3> HIDE DEF backward
    <3>4. Queue(bl, new).last_used \in Ids(Queue(bl, new))
      BY <3>1, <3>3 DEF Ids
    <3>5. Queue(bl, new) \in [list : Seq(Nodes), last_used : Addr \cup {NULL}]
      BY <1>2, <2>10, <3>1
    <3> QED BY <2>9, <2>12, <3>1, <3>4, <3>5
  <2> QED BY <2>13, <2>14
<1> QED BY <1>3, <1>4

-----------------------------------------------------------------------------
(* backed_block_split keeps whole blocks, and no number wraps.             *)
LEMMA SplitNumbers ==
  ASSUME NEW bb \in Nodes, Inside(bb),
         NEW max_len \in Nat, bb.len > AlignDown(max_len, BlockSize)
  PROVE  LET k == max_len \div BlockSize
         IN /\ k \in Nat /\ k < NBlocks(bb) /\ bb.block + k < UIntMod
            /\ AlignDown(max_len, BlockSize) = BlockSize * k
            /\ BlockSize * k \in Nat /\ BlockSize * k < bb.len
            /\ (BlockSize * k) \div BlockSize = k /\ U(bb.block + k) = bb.block + k
<1> DEFINE B    == BlockSize
           k    == max_len \div B
           keep == B * k
           m    == NBlocks(bb)
<1>1. B \in Nat \ {0} /\ Blocks \in Nat \ {0} /\ UIntMod \in Nat \ {0}
  BY SizesAssumption
<1>2. /\ bb.len \in Nat /\ bb.block \in Nat
      /\ m \in Nat /\ bb.len =< B * m /\ B * m < bb.len + B /\ bb.block + m =< Blocks
  BY InsideFacts
<1>3. k \in Nat /\ B * k =< max_len /\ max_len < B * k + B
  BY <1>1, DivFacts
<1>4. AlignDown(max_len, B) = keep
  BY DEF AlignDown
<1>5. bb \in [id : Addr, type : Types, src : Srcs, off : Nat, len : UInt, block : UInt]
  BY DEF Nodes
<1> HIDE DEF k, m
<1>7. keep \in Nat /\ keep < bb.len
  <2>1. keep \in Nat BY <1>1, <1>3
  <2> QED BY <2>1, <1>4
<1>8. keep \div B = k
  BY <1>1, <1>3, <1>7, DivUnique
<1>9. k < m
  <2>1. B * k < B * m
    BY <1>1, <1>2, <1>3, <1>7
  <2> QED BY <2>1, <1>1, <1>2, <1>3, MulLess
<1>10. bb.block + k < UIntMod /\ U(bb.block + k) = bb.block + k
  <2>1. bb.block + k =< Blocks
    BY <1>1, <1>2, <1>3, <1>9
  <2>2. Blocks + 1 =< (Blocks + 1) * B
    BY <1>1
  <2>3. bb.block + k < UIntMod /\ bb.block + k \in Nat
    BY <1>1, <1>2, <1>3, <2>1, <2>2, ImageFits
  <2>4. (bb.block + k) % UIntMod = bb.block + k
    BY <1>1, <2>3
  <2> QED BY <2>3, <2>4 DEF U
<1> QED BY <1>3, <1>4, <1>7, <1>8, <1>9, <1>10 DEF k, m

(* backed_block_split: the two pieces cover the blocks of the extent, each *)
(* block by exactly one of them.  The limit may be less than a block, then *)
(* the head holds nothing.                                                 *)
LEMMA SplitPieces ==
  ASSUME NEW bb \in Nodes, Inside(bb), NEW id \in Addr,
         NEW max_len \in Nat, bb.len > AlignDown(max_len, BlockSize)
  PROVE  LET head == SplitHead(bb, max_len)
             rest == SplitRest(bb, max_len, id)
             k    == max_len \div BlockSize
         IN /\ k \in Nat /\ AlignDown(max_len, BlockSize) = BlockSize * k
            /\ head \in Nodes /\ Inside(head) /\ rest \in Nodes /\ Inside(rest)
            /\ head.len = BlockSize * k /\ rest.len = bb.len - BlockSize * k /\ rest.len > 0
            /\ head.block = bb.block /\ NBlocks(head) = k
            /\ rest.block = bb.block + k /\ NBlocks(rest) = NBlocks(bb) - k
<1> DEFINE B    == BlockSize
           k    == max_len \div B
           keep == B * k
           off  == IF bb.type = "fill" THEN bb.off ELSE bb.off + keep
           head == SplitHead(bb, max_len)
           rest == SplitRest(bb, max_len, id)
           m    == NBlocks(bb)
<1>1. B \in Nat \ {0} /\ Blocks \in Nat \ {0} /\ UIntMod \in Nat \ {0}
  BY SizesAssumption
<1>2. /\ bb.len \in Nat /\ bb.block \in Nat
      /\ m \in Nat /\ bb.len =< B * m /\ B * m < bb.len + B /\ bb.block + m =< Blocks
  BY InsideFacts
<1>3. k \in Nat /\ AlignDown(max_len, B) = keep /\ k < m
  BY SplitNumbers
<1>5. bb \in [id : Addr, type : Types, src : Srcs, off : Nat, len : UInt, block : UInt]
  BY DEF Nodes
<1>7. keep \in Nat /\ keep < bb.len /\ bb.block + k < UIntMod
  BY SplitNumbers
<1>8. keep \div B = k /\ U(bb.block + k) = bb.block + k
  BY SplitNumbers
<1> HIDE DEF k, m
<1>11. head = [bb EXCEPT !.len = keep]
  <2> HIDE DEF keep
  <2> QED BY <1>3 DEF SplitHead
<1>13. rest = [bb EXCEPT !.id = id, !.len = bb.len - keep, !.block = bb.block + k, !.off = off]
  <2> HIDE DEF keep
  <2> QED BY <1>3, <1>5, <1>8 DEF SplitRest
<1>6. off \in Nat
  <2> HIDE DEF keep
  <2> QED BY <1>5, <1>7
<1> HIDE DEF keep, off, head, rest
<1>12. head \in Nodes /\ head.block = bb.block /\ head.len = keep
  <2>1. keep \in UInt
    BY <1>1, <1>2, <1>5, <1>7 DEF UInt
  <2> QED BY <1>5, <1>11, <2>1 DEF Nodes
<1>14. rest \in Nodes /\ rest.block = bb.block + k /\ rest.len = bb.len - keep
  <2>1. bb.len - keep \in UInt /\ bb.block + k \in UInt
    BY <1>1, <1>2, <1>3, <1>5, <1>7 DEF UInt
  <2> QED BY <1>5, <1>6, <1>13, <2>1 DEF Nodes
<1>15. bb.block * B \in Nat /\ Blocks * B \in Nat /\ bb.block * B + bb.len =< Blocks * B
  BY <1>1, <1>2 DEF Inside
<1>16. Inside(head)
  BY <1>2, <1>7, <1>12, <1>15 DEF Inside
<1>17. Inside(rest)
  <2>1. (bb.block + k) * B = bb.block * B + keep
    BY <1>1, <1>2, <1>3 DEF keep
  <2>2. rest.block * B + rest.len = bb.block * B + bb.len
    BY <2>1, <1>2, <1>7, <1>14, <1>15
  <2> QED BY <2>2, <1>15 DEF Inside
<1>18. NBlocks(head) = k
  <2>1. B * k = keep
    BY DEF keep
  <2>2. keep =< B * k /\ B * k < keep + B /\ keep =< Blocks * B
    BY <2>1, <1>1, <1>2, <1>7, <1>15
  <2>3. DivRoundUp(keep, B) = k
    BY <1>3, <1>7, <2>2, RoundUpUnique
  <2> QED BY <1>12, <2>3 DEF NBlocks
<1>19. NBlocks(rest) = m - k
  <2>1. B * (m - k) = B * m - keep
    BY <1>1, <1>2, <1>3 DEF keep
  <2>2. B * m \in Nat
    BY <1>1, <1>2
  <2>3. bb.len - keep =< B * (m - k) /\ B * (m - k) < bb.len - keep + B /\ bb.len - keep =< Blocks * B
    BY <1>1, <1>2, <1>7, <1>15, <2>1, <2>2
  <2>4. bb.len - keep \in Nat /\ m - k \in Nat
    BY <1>2, <1>3, <1>7
  <2>5. DivRoundUp(bb.len - keep, B) = m - k
    BY <2>3, <2>4, RoundUpUnique
  <2> QED BY <1>14, <2>5 DEF NBlocks
<1>20. rest.len > 0
  BY <1>2, <1>7, <1>14
<1> QED BY <1>3, <1>12, <1>14, <1>16, <1>17, <1>18, <1>19, <1>20 DEF keep, k, m, head, rest

(* With a limit of a block or more both pieces hold something.             *)
LEMMA SplitHalves ==
  ASSUME NEW bb \in Nodes, WellPlaced(bb), NEW id \in Addr,
         NEW max_len \in Nat, max_len >= BlockSize, bb.len > AlignDown(max_len, BlockSize)
  PROVE  LET head == SplitHead(bb, max_len)
             rest == SplitRest(bb, max_len, id)
         IN /\ head \in Nodes /\ WellPlaced(head) /\ rest \in Nodes /\ WellPlaced(rest)
            /\ head.block = bb.block /\ NBlocks(head) \in Nat \ {0}
            /\ rest.block = bb.block + NBlocks(head) /\ NBlocks(rest) = NBlocks(bb) - NBlocks(head)
<1> DEFINE head == SplitHead(bb, max_len)
           rest == SplitRest(bb, max_len, id)
           k    == max_len \div BlockSize
<1>1. BlockSize \in Nat \ {0}
  BY SizesAssumption
<1>2. /\ k \in Nat /\ head \in Nodes /\ Inside(head) /\ rest \in Nodes /\ Inside(rest)
      /\ head.len = BlockSize * k /\ rest.len > 0
      /\ head.block = bb.block /\ NBlocks(head) = k
      /\ rest.block = bb.block + k /\ NBlocks(rest) = NBlocks(bb) - k
  <2>1. Inside(bb)
    BY DEF Inside, WellPlaced
  <2> QED BY <2>1, SplitPieces
<1>3. max_len < BlockSize * k + BlockSize
  BY <1>1, DivFacts
<1> HIDE DEF head, rest, k
<1>4. k # 0 /\ BlockSize * k > 0
  <2>1. k # 0
    BY <1>1, <1>3
  <2> QED BY <1>1, <1>2, <2>1
<1>5. WellPlaced(head) /\ WellPlaced(rest)
  BY <1>2, <1>4 DEF WellPlaced, Inside
<1> QED BY <1>2, <1>4, <1>5 DEF head, rest

LEMMA SplitFacts ==
  ASSUME NEW bl, GoodList(bl.list),
         bl \in [list : Seq(Nodes), last_used : Addr \cup {NULL}],
         bl.last_used # NULL => bl.last_used \in Ids(bl),
         NEW i \in DOMAIN bl.list, NEW id \in Addr,
         NEW max_len \in Nat, max_len >= BlockSize
  PROVE  LET next == Split(bl, i, max_len, id)
         IN /\ GoodList(next.list)
            /\ next \in [list : Seq(Nodes), last_used : Addr \cup {NULL}]
            /\ next.last_used # NULL => next.last_used \in Ids(next)
<1> DEFINE list == bl.list
           n    == Len(list)
           bb   == list[i]
           head == SplitHead(bb, max_len)
           rest == SplitRest(bb, max_len, id)
           hs   == [list EXCEPT ![i] = head]
           l    == InsertAt(hs, i+1, rest)
<1>1. CASE ~ Splits(bl, i, max_len)
  BY <1>1 DEF Split
<1>2. CASE Splits(bl, i, max_len)
  <2>1. /\ n \in Nat /\ DOMAIN list = 1 .. n /\ list \in Seq(Nodes) /\ i \in 1 .. n
        /\ \A j \in 1 .. n : /\ list[j] \in Nodes /\ WellPlaced(list[j])
                             /\ list[j].block \in Nat /\ NBlocks(list[j]) \in Nat \ {0}
        /\ \A j, k \in 1 .. n : j < k => list[j].block + NBlocks(list[j]) =< list[k].block
    BY GoodListFacts DEF GoodList
  <2>2. /\ head \in Nodes /\ WellPlaced(head) /\ rest \in Nodes /\ WellPlaced(rest)
        /\ head.block = bb.block /\ NBlocks(head) \in Nat \ {0}
        /\ rest.block = bb.block + NBlocks(head)
        /\ NBlocks(rest) = NBlocks(bb) - NBlocks(head)
    <3>1. bb \in Nodes /\ WellPlaced(bb) /\ bb.len > AlignDown(max_len, BlockSize)
      BY <1>2, <2>1 DEF Splits
    <3> HIDE DEF bb
    <3> QED BY <3>1, SplitHalves
  <2>3. head.id = bb.id
    BY <2>1 DEF SplitHead, Nodes
  <2>4. Split(bl, i, max_len, id) = [bl EXCEPT !.list = l]
    BY <1>2 DEF Split
  <2>5. Split(bl, i, max_len, id).list = l /\ Split(bl, i, max_len, id).last_used = bl.last_used
    BY <2>4
  <2> HIDE DEF head, rest
  <2>6. hs \in Seq(Nodes) /\ Len(hs) = n /\ \A j \in 1 .. n : hs[j] = IF j = i THEN head ELSE list[j]
    BY <2>1, <2>2, ExceptSeq
  <2>7. DOMAIN hs = 1 .. n
    BY <2>6, LenProperties
  <2> HIDE DEF hs
  <2>8. GoodList(hs)
    <3>1. ASSUME NEW j \in 1 .. n PROVE WellPlaced(hs[j])
      BY <2>1, <2>2, <2>6
    <3>2. ASSUME NEW j \in 1 .. n, NEW k \in 1 .. n, j < k
          PROVE  hs[j].block + NBlocks(hs[j]) =< hs[k].block
      <4>1. hs[k].block = list[k].block
        BY <2>2, <2>6
      <4>2. list[j].block + NBlocks(list[j]) =< list[k].block
        BY <2>1, <3>2
      <4>3. CASE j # i
        BY <2>6, <4>1, <4>2, <4>3
      <4>4. CASE j = i
        <5>1. hs[j] = head /\ list[j] = bb
          BY <2>6, <4>4
        <5>2. rest.block \in Nat /\ NBlocks(rest) \in Nat \ {0}
          BY <2>2, PlacedFacts
        <5>3. bb.block \in Nat /\ NBlocks(bb) \in Nat /\ list[k].block \in Nat
          BY <2>1
        <5>4. bb.block + NBlocks(bb) =< list[k].block
          BY <4>2, <5>1
        <5> HIDE DEF bb
        <5>5. head.block + NBlocks(head) =< list[k].block
          BY <2>2, <5>2, <5>3, <5>4, SMTT(40)
        <5> QED BY <4>1, <5>1, <5>5
      <4> QED BY <4>3, <4>4
    <3> QED BY <2>6, <2>7, <3>1, <3>2 DEF GoodList, Ascending
  <2>9. GoodList(l)
    <3>1. i \in 0 .. Len(hs)
      BY <2>1, <2>6
    <3>2. rest.block \in Nat /\ NBlocks(rest) \in Nat \ {0} /\ bb.block \in Nat /\ NBlocks(bb) \in Nat
      BY <2>1, <2>2, PlacedFacts
    <3>3. ASSUME NEW j \in 1 .. i PROVE hs[j].block + NBlocks(hs[j]) =< rest.block
      <4>1. j \in 1 .. n BY <2>1
      <4>2. CASE j = i
        <5>1. hs[j] = head
          BY <2>6, <4>1, <4>2
        <5> HIDE DEF bb
        <5> QED BY <2>2, <3>2, <5>1
      <4>3. CASE j # i
        <5>1. hs[j] = list[j] /\ j < i /\ list[j].block \in Nat /\ NBlocks(list[j]) \in Nat
          BY <2>1, <2>6, <4>1, <4>3
        <5>2. list[j].block + NBlocks(list[j]) =< bb.block
          BY <2>1, <4>1, <5>1
        <5> HIDE DEF bb
        <5> QED BY <2>2, <3>2, <5>1, <5>2, SMTT(40)
      <4> QED BY <4>2, <4>3
    <3>4. ASSUME NEW j \in i+1 .. Len(hs) PROVE rest.block + NBlocks(rest) =< hs[j].block
      <4>1. j \in 1 .. n /\ i < j /\ j # i
        BY <2>1, <2>6
      <4>2. hs[j] = list[j] /\ list[j].block \in Nat
        BY <2>1, <2>6, <4>1
      <4>3. bb.block + NBlocks(bb) =< list[j].block
        BY <2>1, <4>1
      <4> HIDE DEF bb
      <4> QED BY <2>2, <3>2, <4>2, <4>3
    <3> QED BY <2>2, <2>8, <3>1, <3>3, <3>4, InsertGood
  <2>10. /\ l \in Seq(Nodes) /\ Len(l) = n + 1
         /\ \A j \in 1 .. n + 1 : l[j] = IF j < i+1 THEN hs[j] ELSE IF j = i+1 THEN rest ELSE hs[j - 1]
    <3> DEFINE p == i+1
    <3>1. p \in 1 .. Len(hs) + 1 /\ hs \in Seq(Nodes) /\ rest \in Nodes
      BY <2>1, <2>2, <2>6
    <3> HIDE DEF p
    <3>2. /\ l \in Seq(Nodes) /\ Len(l) = Len(hs) + 1
          /\ \A j \in 1 .. Len(hs) + 1 :
               l[j] = IF j < i+1 THEN hs[j] ELSE IF j = i+1 THEN rest ELSE hs[j - 1]
      <4>1. /\ InsertAt(hs, p, rest) \in Seq(Nodes) /\ Len(InsertAt(hs, p, rest)) = Len(hs) + 1
            /\ \A j \in 1 .. Len(hs) + 1 : InsertAt(hs, p, rest)[j] =
                 IF j < p THEN hs[j] ELSE IF j = p THEN rest ELSE hs[j - 1]
        BY <3>1, InsertAtProperties
      <4> QED BY <4>1 DEF p
    <3> HIDE DEF l
    <3> QED BY <2>6, <3>2
  <2>11. DOMAIN l = 1 .. n + 1
    BY <2>10, LenProperties
  <2> HIDE DEF l
  <2>12. Ids(bl) \subseteq Ids(Split(bl, i, max_len, id))
    <3> SUFFICES ASSUME NEW j \in DOMAIN list
                 PROVE  list[j].id \in Ids(Split(bl, i, max_len, id))
      BY DEF Ids
    <3>1. j \in 1 .. n /\ hs[j].id = list[j].id
      BY <2>1, <2>3, <2>6
    <3>2. \E k \in DOMAIN l : l[k] = hs[j]
      <4>1. CASE j < i+1
        <5>1. j \in 1 .. n+1
          BY <2>1, <3>1
        <5>2. l[j] = hs[j]
          BY <2>10, <4>1, <5>1
        <5> QED BY <2>11, <5>1, <5>2
      <4>2. CASE ~(j < i+1)
        <5>1. j+1 \in 1 .. n+1 /\ ~(j+1 < i+1) /\ j+1 # i+1 /\ (j+1)-1 = j
          BY <2>1, <3>1, <4>2
        <5>2. l[j+1] = hs[j]
          BY <2>10, <5>1
        <5> QED BY <2>11, <5>1, <5>2
      <4> QED BY <4>1, <4>2
    <3>3. hs[j].id \in {l[k].id : k \in DOMAIN l}
      BY <3>2
    <3> QED BY <2>5, <3>1, <3>3 DEF Ids
  <2> QED BY <2>4, <2>5, <2>9, <2>10, <2>12
<1> QED BY <1>1, <1>2

-----------------------------------------------------------------------------
(* The image a list stands for.                                            *)

\* Extent x gives block b the content v; some extent of the list does.
Gives(x, b, v) == b \in Covered(x) /\ v = CellOf(x, b)

Holds(list, b, v) == \E x \in ToSet(list) : Gives(x, b, v)

Apart(list) == \A i, j \in DOMAIN list : i # j => Covered(list[i]) \cap Covered(list[j]) = {}

(* Extents in ascending order do not overlap.                              *)
LEMMA AscendingApart ==
  ASSUME NEW list \in Seq(Nodes), \A i \in DOMAIN list : Inside(list[i]), Ascending(list)
  PROVE  Apart(list)
<1> SUFFICES ASSUME NEW i \in DOMAIN list, NEW j \in DOMAIN list, i # j
             PROVE  Covered(list[i]) \cap Covered(list[j]) = {}
  BY DEF Apart
<1>1. DOMAIN list = 1 .. Len(list) /\ Len(list) \in Nat
  BY LenProperties
<1>2. list[i] \in Nodes /\ list[j] \in Nodes /\ Inside(list[i]) /\ Inside(list[j])
  BY <1>1, ElementOfSeq
<1>3. /\ list[i].block \in Nat /\ NBlocks(list[i]) \in Nat
      /\ list[j].block \in Nat /\ NBlocks(list[j]) \in Nat
  BY <1>2, InsideFacts
<1>4. \/ list[i].block + NBlocks(list[i]) =< list[j].block
      \/ list[j].block + NBlocks(list[j]) =< list[i].block
  <2>1. i < j \/ j < i
    BY <1>1
  <2> QED BY <2>1 DEF Ascending
<1> QED BY <1>3, <1>4, SMTT(40) DEF Covered

(* Where no extents overlap, the image of a block is what its extent gives. *)
LEMMA ImageHolds ==
  ASSUME NEW list, Apart(list), NEW b \in 0 .. Blocks-1
  PROVE  /\ \A v : Holds(list, b, v) => ImageOf(list)[b] = v
         /\ (\A v : ~ Holds(list, b, v)) => ImageOf(list)[b] = Hole
<1> DEFINE holders == {i \in DOMAIN list : b \in Covered(list[i])}
<1>1. ImageOf(list)[b] = IF holders = {} THEN Hole ELSE CellOf(list[CHOOSE i \in holders : TRUE], b)
  BY DEF ImageOf
<1>2. ASSUME NEW v, Holds(list, b, v) PROVE ImageOf(list)[b] = v
  <2>1. PICK i \in DOMAIN list : b \in Covered(list[i]) /\ v = CellOf(list[i], b)
    BY <1>2 DEF Holds, Gives, ToSet
  <2>2. \A j \in holders : j = i
    BY <2>1 DEF Apart
  <2>3. i \in holders
    BY <2>1
  <2>4. (CHOOSE j \in holders : TRUE) = i
    <3> HIDE DEF holders
    <3> QED BY <2>2, <2>3
  <2> QED BY <1>1, <2>1, <2>3, <2>4
<1>3. ASSUME \A v : ~ Holds(list, b, v) PROVE ImageOf(list)[b] = Hole
  <2>1. holders = {}
    BY <1>3 DEF Holds, Gives, ToSet
  <2> QED BY <1>1, <2>1
<1> QED BY <1>2, <1>3

(* The image depends on what the blocks are given and on nothing else.     *)
LEMMA SameImage ==
  ASSUME NEW l, NEW m, Apart(l), Apart(m), \A b, v : Holds(l, b, v) <=> Holds(m, b, v)
  PROVE  ImageOf(l) = ImageOf(m)
<1>1. ASSUME NEW b \in 0 .. Blocks-1 PROVE ImageOf(l)[b] = ImageOf(m)[b]
  <2>1. CASE \E v : Holds(l, b, v)
    <3>1. PICK v : Holds(l, b, v) BY <2>1
    <3>2. Holds(m, b, v) BY <3>1
    <3> QED BY <3>1, <3>2, ImageHolds
  <2>2. CASE \A v : ~ Holds(l, b, v)
    <3>1. \A v : ~ Holds(m, b, v) BY <2>2
    <3> QED BY <2>2, <3>1, ImageHolds
  <2> QED BY <2>1, <2>2
<1>2. /\ ImageOf(l) = [b \in 0 .. Blocks-1 |-> ImageOf(l)[b]]
      /\ ImageOf(m) = [b \in 0 .. Blocks-1 |-> ImageOf(m)[b]]
  BY DEF ImageOf
<1> QED BY <1>1, <1>2

(* Two extents that continue each other give the blocks what the one does  *)
(* that they are merged into, or were split from.                          *)
LEMMA JoinedGives ==
  ASSUME NEW w \in Nodes, NEW a \in Nodes, NEW r \in Nodes,
         NBlocks(a) \in Nat, NBlocks(r) \in Nat, NBlocks(w) = NBlocks(a) + NBlocks(r),
         a.len = BlockSize * NBlocks(a), w.len = a.len + r.len,
         w.block = a.block, r.block = a.block + NBlocks(a),
         a.type = w.type, r.type = w.type, a.src = w.src, r.src = w.src,
         w.type = "fill" \/ (w.off = a.off /\ r.off = a.off + a.len)
  PROVE  \A b, v : Gives(w, b, v) <=> Gives(a, b, v) \/ Gives(r, b, v)
<1> DEFINE B == BlockSize
           Skipped(x, b) == (b - x.block) * B
           Bytes(x, b) == IF x.len - Skipped(x, b) < B THEN x.len - Skipped(x, b) ELSE B
           Off(x, b) == IF x.type = "fill" THEN 0 ELSE x.off + Skipped(x, b)
           k == NBlocks(a)
           m == NBlocks(r)
<1>1. /\ B \in Nat \ {0}
      /\ a.block \in Nat /\ a.len \in Nat /\ r.len \in Nat /\ a.off \in Nat /\ r.off \in Nat
  BY SizesAssumption DEF Nodes, UInt
<1>2. \A x, b : CellOf(x, b) = [type |-> x.type, src |-> x.src, off |-> Off(x, b), bytes |-> Bytes(x, b)]
  BY DEF CellOf
<1>3. /\ Covered(a) = a.block .. a.block + k - 1
      /\ Covered(r) = r.block .. r.block + m - 1
      /\ Covered(w) = w.block .. w.block + (k + m) - 1
  BY DEF Covered
<1>4. /\ k \in Nat /\ m \in Nat /\ a.block \in Int
      /\ w.block = a.block /\ r.block = a.block + k
  BY <1>1
<1>5. a.len = B * k
  OBVIOUS
<1> HIDE DEF k, m
<1>6. ASSUME NEW b \in Covered(a) PROVE CellOf(w, b) = CellOf(a, b)
  <2> DEFINE d == b - a.block
  <2>0. b \in a.block .. a.block + k - 1
    BY <1>3
  <2>1. d \in Nat /\ d + 1 =< k
    BY <1>4, <2>0
  <2> HIDE DEF d
  <2>2. B * (d + 1) =< B * k /\ B * (d + 1) = d * B + B /\ d * B \in Nat
    BY <1>1, <1>4, <1>5, <2>1, MulLess
  <2>3. Skipped(w, b) = d * B /\ Skipped(a, b) = d * B
    BY DEF d
  <2> HIDE DEF Skipped
  <2>4. ~(a.len - d * B < B) /\ ~(w.len - d * B < B)
    BY <1>1, <1>5, <2>2
  <2>5. Bytes(w, b) = B /\ Bytes(a, b) = B
    BY <2>3, <2>4
  <2>6. Off(w, b) = Off(a, b)
    BY <2>3
  <2> HIDE DEF Bytes, Off
  <2> QED BY <1>2, <2>5, <2>6
<1>7. ASSUME NEW b \in Covered(r) PROVE CellOf(w, b) = CellOf(r, b)
  <2> DEFINE d == b - r.block
  <2>0. b \in r.block .. r.block + m - 1
    BY <1>3
  <2>1. d \in Nat /\ b - w.block = k + d
    BY <1>4, <2>0
  <2>2. (k + d) * B = a.len + d * B /\ d * B \in Nat
    <3> HIDE DEF d
    <3> QED BY <1>1, <1>4, <1>5, <2>1
  <2>3. Skipped(w, b) = a.len + d * B /\ Skipped(r, b) = d * B
    BY <2>1, <2>2
  <2> HIDE DEF d, Skipped
  <2>4. w.len - Skipped(w, b) = r.len - Skipped(r, b)
    BY <1>1, <2>2, <2>3
  <2>5. Bytes(w, b) = Bytes(r, b)
    BY <2>4
  <2>6. Off(w, b) = Off(r, b)
    <3>1. CASE w.type = "fill"
      BY <3>1
    <3>2. CASE w.type # "fill"
      BY <1>1, <2>2, <2>3, <3>2
    <3> QED BY <3>1, <3>2
  <2> HIDE DEF Bytes, Off
  <2> QED BY <1>2, <2>5, <2>6
<1>8. Covered(w) = Covered(a) \cup Covered(r)
  <2>1. \A b \in Int : b \in Covered(w) <=> b \in Covered(a) \/ b \in Covered(r)
    BY <1>3, <1>4, SMTT(40)
  <2>2. Covered(w) \subseteq Int /\ Covered(a) \subseteq Int /\ Covered(r) \subseteq Int
    BY <1>3
  <2> QED BY <2>1, <2>2
<1> QED BY <1>6, <1>7, <1>8 DEF Gives

(* Adding an extent gives its blocks something and no other block.         *)
LEMMA InsertHolds ==
  ASSUME NEW list \in Seq(Nodes), NEW at \in 1 .. Len(list) + 1, NEW new \in Nodes
  PROVE  \A b, v : Holds(InsertAt(list, at, new), b, v) <=> Holds(list, b, v) \/ Gives(new, b, v)
<1>1. ToSet(InsertAt(list, at, new)) = ToSet(list) \cup {new}
  BY InsertAtToSet
<1> QED BY <1>1 DEF Holds

(* A merge is invisible.                                                   *)
LEMMA MergeHolds ==
  ASSUME NEW list, GoodList(list), NEW i \in 1 .. Len(list)
  PROVE  \A b, v : Holds(MergeAt(list, i), b, v) <=> Holds(list, b, v)
<1>1. CASE ~(i < Len(list) /\ Mergeable(list[i], list[i+1]))
  BY <1>1 DEF MergeAt
<1>2. CASE i < Len(list) /\ Mergeable(list[i], list[i+1])
  <2> DEFINE n == Len(list)
             a == list[i]
             r == list[i+1]
             w == Merged(a, r)
             l == MergeAt(list, i)
             others == {list[j] : j \in (1 .. n) \ {i, i+1}}
  <2>1. /\ n \in Nat /\ DOMAIN list = 1 .. n /\ i \in 1 .. n /\ i+1 \in 1 .. n
        /\ a \in Nodes /\ r \in Nodes /\ WellPlaced(a) /\ WellPlaced(r)
        /\ a.block + NBlocks(a) =< r.block
    BY <1>2, GoodListFacts
  <2>2. /\ l \in Seq(Nodes) /\ Len(l) = n - 1
        /\ \A j \in 1 .. n - 1 : l[j] = IF j < i THEN list[j] ELSE IF j = i THEN w ELSE list[j+1]
    BY <1>2, MergeAtElements
  <2>3. DOMAIN l = 1 .. n - 1
    BY <2>2, LenProperties
  <2>4. \A b, v : Gives(w, b, v) <=> Gives(a, b, v) \/ Gives(r, b, v)
    <3> HIDE DEF a, r
    <3>1. Mergeable(a, r)
      BY <1>2 DEF a, r
    <3>2. /\ a.len = BlockSize * NBlocks(a) /\ a.block + NBlocks(a) = r.block
          /\ w \in Nodes /\ w = [a EXCEPT !.len = a.len + r.len]
          /\ NBlocks(w) = NBlocks(a) + NBlocks(r)
      BY <2>1, <3>1, MergedFacts
    <3>3. NBlocks(a) \in Nat /\ NBlocks(r) \in Nat
      BY <2>1, PlacedFacts
    <3>4. /\ w.len = a.len + r.len /\ w.block = a.block /\ w.type = a.type
          /\ w.src = a.src /\ w.off = a.off
      BY <2>1, <3>2 DEF Nodes
    <3>5. r.type = a.type /\ r.src = a.src /\ (a.type = "fill" \/ r.off = a.off + a.len)
      BY <3>1 DEF Mergeable
    <3> HIDE DEF w
    <3>6. /\ w \in Nodes /\ a \in Nodes /\ r \in Nodes
          /\ NBlocks(a) \in Nat /\ NBlocks(r) \in Nat /\ NBlocks(w) = NBlocks(a) + NBlocks(r)
          /\ a.len = BlockSize * NBlocks(a) /\ w.len = a.len + r.len
          /\ w.block = a.block /\ r.block = a.block + NBlocks(a)
          /\ a.type = w.type /\ r.type = w.type /\ a.src = w.src /\ r.src = w.src
          /\ w.type = "fill" \/ (w.off = a.off /\ r.off = a.off + a.len)
      BY <2>1, <3>2, <3>3, <3>4, <3>5
    <3> QED BY <3>6, JoinedGives
  <2> HIDE DEF l, n, w
  <2>5. ToSet(list) = others \cup {a, r}
    <3>1. \A j \in 1 .. n : j = i \/ j = i+1 \/ j \in (1 .. n) \ {i, i+1}
      OBVIOUS
    <3> QED BY <2>1, <3>1 DEF ToSet
  <2>6. ToSet(l) = others \cup {w}
    <3>1. ASSUME NEW j \in 1 .. n - 1 PROVE l[j] \in others \cup {w}
      <4>1. CASE j < i
        <5>1. l[j] = list[j] /\ j \in (1 .. n) \ {i, i+1}
          BY <2>1, <2>2, <4>1
        <5> QED BY <5>1
      <4>2. CASE j = i
        BY <2>2, <4>2
      <4>3. CASE j > i
        <5>1. l[j] = list[j+1] /\ j+1 \in (1 .. n) \ {i, i+1}
          BY <2>1, <2>2, <4>3
        <5> QED BY <5>1
      <4> QED BY <2>1, <4>1, <4>2, <4>3
    <3>2. ASSUME NEW j \in (1 .. n) \ {i, i+1} PROVE list[j] \in ToSet(l)
      <4>1. CASE j < i
        <5>1. j \in 1 .. n - 1 /\ l[j] = list[j]
          BY <2>1, <2>2, <4>1
        <5> QED BY <2>3, <5>1 DEF ToSet
      <4>2. CASE j > i + 1
        <5>1. j-1 \in 1 .. n - 1 /\ ~(j-1 < i) /\ j-1 # i /\ (j-1)+1 = j
          BY <2>1, <4>2
        <5>2. l[j-1] = list[j]
          BY <2>2, <5>1
        <5> QED BY <2>3, <5>1, <5>2 DEF ToSet
      <4> QED BY <2>1, <4>1, <4>2
    <3>3. w \in ToSet(l)
      <4>1. i \in 1 .. n - 1 /\ ~(i < i)
        BY <1>2, <2>1 DEF n
      <4>2. l[i] = w
        BY <2>2, <4>1
      <4> QED BY <2>3, <4>1, <4>2 DEF ToSet
    <3>4. \A x \in ToSet(l) : x \in others \cup {w}
      BY <2>3, <3>1 DEF ToSet
    <3>5. \A x \in others \cup {w} : x \in ToSet(l)
      BY <3>2, <3>3
    <3> QED BY <3>4, <3>5
  <2> HIDE DEF others, a, r
  <2> QED BY <2>4, <2>5, <2>6 DEF Holds, l
<1> QED BY <1>1, <1>2

(* queue_bb gives the blocks of the new extent what it holds, and changes  *)
(* no other block, whatever it merges.                                     *)
LEMMA QueueHolds ==
  ASSUME NEW bl, GoodList(bl.list), NEW new \in Nodes, WellPlaced(new),
         \A i \in DOMAIN bl.list : Covered(bl.list[i]) \cap Covered(new) = {}
  PROVE  \A b, v : Holds(Queue(bl, new).list, b, v) <=> Holds(bl.list, b, v) \/ Gives(new, b, v)
<1> DEFINE list == bl.list
           n == Len(list)
<1>1. list \in Seq(Nodes) /\ n \in Nat
  BY LenProperties DEF GoodList
<1>2. CASE BeforeHead(bl, new)
  <2>1. Queue(bl, new).list = <<new>> \o list
    BY <1>2 DEF Queue
  <2>2. <<new>> \in Seq(Nodes) /\ ToSet(<<new>>) = {new}
    BY DEF ToSet
  <2>3. ToSet(<<new>> \o list) = {new} \cup ToSet(list)
    <3> DEFINE one == <<new>>
    <3> HIDE DEF list, one
    <3>1. one \in Seq(Nodes) /\ ToSet(one) = {new}
      BY <2>2 DEF one
    <3>2. ToSet(one \o list) = ToSet(one) \cup ToSet(list)
      BY <1>1, <3>1, ConcatToSet
    <3> QED BY <3>1, <3>2 DEF one
  <2> QED BY <2>1, <2>3 DEF Holds
<1>3. CASE ~ BeforeHead(bl, new)
  <2> DEFINE at == Predecessor(bl, new)
             ins == InsertAt(list, at + 1, new)
             forward == MergeAt(ins, at + 1)
             backward == MergeAt(forward, at)
  <2>1. /\ at \in 1 .. n
        /\ \A i \in 1 .. at : list[i].block + NBlocks(list[i]) =< new.block
        /\ \A i \in at+1 .. n : new.block + NBlocks(new) =< list[i].block
    BY <1>3, PredecessorFacts
  <2>2. Queue(bl, new).list = backward
    BY <1>3 DEF Queue, QueueAfter
  <2> HIDE DEF at
  <2>3. at \in 0 .. n /\ at+1 \in 1 .. n+1
    BY <1>1, <2>1
  <2>4. GoodList(ins)
    BY <2>1, <2>3, InsertGood
  <2>5. \A b, v : Holds(ins, b, v) <=> Holds(list, b, v) \/ Gives(new, b, v)
    <3> HIDE DEF list
    <3>1. list \in Seq(Nodes) /\ at+1 \in 1 .. Len(list) + 1
      BY <1>1, <2>3
    <3> QED BY <3>1, InsertHolds
  <2>6. Len(ins) = n + 1
    <3> DEFINE p == at + 1
    <3> HIDE DEF list, p
    <3>1. list \in Seq(Nodes) /\ p \in 1 .. Len(list) + 1
      BY <1>1, <2>3 DEF p
    <3>2. Len(InsertAt(list, p, new)) = Len(list) + 1
      BY <3>1, InsertAtElements
    <3> QED BY <3>2 DEF p
  <2> HIDE DEF ins
  <2>7. at+1 \in 1 .. Len(ins)
    BY <1>1, <2>3, <2>6
  <2>8. GoodList(forward) /\ at+1 =< Len(forward)
    BY <2>4, <2>7, MergeGood, MergeKeepsFront
  <2>9. \A b, v : Holds(forward, b, v) <=> Holds(ins, b, v)
    BY <2>4, <2>7, MergeHolds
  <2> HIDE DEF forward
  <2>10. at \in 1 .. Len(forward)
    BY <1>1, <2>1, <2>8, GoodListFacts
  <2>11. \A b, v : Holds(backward, b, v) <=> Holds(forward, b, v)
    BY <2>8, <2>10, MergeHolds
  <2> HIDE DEF backward
  <2> QED BY <2>2, <2>5, <2>9, <2>11
<1> QED BY <1>2, <1>3

(* The nodes after backed_block_split of the one at position i.            *)
LEMMA SplitElements ==
  ASSUME NEW bl \in [list : Seq(Nodes), last_used : Addr \cup {NULL}],
         NEW i \in 1 .. Len(bl.list), NEW id \in Addr, NEW max_len \in Nat,
         Inside(bl.list[i]), Splits(bl, i, max_len)
  PROVE  LET list == bl.list
             l    == Split(bl, i, max_len, id).list
         IN /\ l \in Seq(Nodes) /\ Len(l) = Len(list) + 1
            /\ \A j \in 1 .. i - 1 : l[j] = list[j]
            /\ l[i] = SplitHead(list[i], max_len)
            /\ l[i + 1] = SplitRest(list[i], max_len, id)
            /\ \A j \in i + 1 .. Len(list) : l[j + 1] = list[j]
<1> DEFINE list == bl.list
           n    == Len(list)
           head == SplitHead(list[i], max_len)
           rest == SplitRest(list[i], max_len, id)
           hs   == [list EXCEPT ![i] = head]
           p    == i + 1
           l    == InsertAt(hs, p, rest)
<1>1. list \in Seq(Nodes) /\ n \in Nat /\ i \in 1 .. n
  BY LenProperties
<1>2. head \in Nodes /\ rest \in Nodes
  <2> DEFINE bb == list[i]
  <2>1. bb \in Nodes /\ Inside(bb) /\ bb.len > AlignDown(max_len, BlockSize)
    BY <1>1, ElementOfSeq DEF Splits
  <2> HIDE DEF bb
  <2>2. SplitHead(bb, max_len) \in Nodes /\ SplitRest(bb, max_len, id) \in Nodes
    BY <2>1, SplitPieces
  <2> QED BY <2>2 DEF bb
<1>3. Split(bl, i, max_len, id).list = l
  BY DEF Split
<1> HIDE DEF head, rest
<1>4. hs \in Seq(Nodes) /\ Len(hs) = n /\ \A j \in 1 .. n : hs[j] = IF j = i THEN head ELSE list[j]
  BY <1>1, <1>2, ExceptSeq
<1> HIDE DEF hs
<1>5. hs \in Seq(Nodes) /\ p \in 1 .. Len(hs) + 1 /\ rest \in Nodes
  BY <1>1, <1>2, <1>4
<1> HIDE DEF p
<1>6. /\ l \in Seq(Nodes) /\ Len(l) = Len(hs) + 1
      /\ \A j \in 1 .. p - 1 : l[j] = hs[j]
      /\ l[p] = rest
      /\ \A j \in p .. Len(hs) : l[j + 1] = hs[j]
  BY <1>5, InsertAtElements
<1> HIDE DEF l
<1>7. p = i + 1
  BY DEF p
<1> HIDE DEF list, n
<1>8. \A j \in 1 .. i - 1 : l[j] = list[j]
  <2> SUFFICES ASSUME NEW j \in 1 .. i - 1 PROVE l[j] = list[j] OBVIOUS
  <2>1. j \in 1 .. n /\ j # i /\ j \in 1 .. p - 1
    BY <1>1, <1>7
  <2> QED BY <1>4, <1>6, <2>1
<1>9. l[i] = head
  <2>1. i \in 1 .. p - 1
    BY <1>1, <1>7
  <2> QED BY <1>1, <1>4, <1>6, <2>1
<1>10. \A j \in i + 1 .. n : l[j + 1] = list[j]
  <2> SUFFICES ASSUME NEW j \in i + 1 .. n PROVE l[j + 1] = list[j] OBVIOUS
  <2>1. j \in 1 .. n /\ j # i /\ j \in p .. Len(hs)
    BY <1>1, <1>4, <1>7
  <2> QED BY <1>4, <1>6, <2>1
<1> QED BY <1>3, <1>4, <1>6, <1>7, <1>8, <1>9, <1>10 DEF list, n, head, rest

(* A split is invisible.                                                   *)
LEMMA SplitHolds ==
  ASSUME NEW bl \in [list : Seq(Nodes), last_used : Addr \cup {NULL}],
         NEW i \in 1 .. Len(bl.list), NEW id \in Addr, NEW max_len \in Nat,
         Inside(bl.list[i])
  PROVE  \A b, v : Holds(Split(bl, i, max_len, id).list, b, v) <=> Holds(bl.list, b, v)
<1>1. CASE ~ Splits(bl, i, max_len)
  BY <1>1 DEF Split
<1>2. CASE Splits(bl, i, max_len)
  <2> DEFINE list == bl.list
             n    == Len(list)
             bb   == list[i]
             head == SplitHead(bb, max_len)
             rest == SplitRest(bb, max_len, id)
             l    == Split(bl, i, max_len, id).list
             others == {list[j] : j \in (1 .. n) \ {i}}
  <2>1. /\ n \in Nat /\ DOMAIN list = 1 .. n /\ i \in 1 .. n
        /\ bb \in Nodes /\ Inside(bb) /\ bb.len > AlignDown(max_len, BlockSize)
    BY <1>2, LenProperties, ElementOfSeq DEF Splits
  <2>2. /\ l \in Seq(Nodes) /\ Len(l) = n + 1
        /\ \A j \in 1 .. i - 1 : l[j] = list[j]
        /\ l[i] = head /\ l[i + 1] = rest
        /\ \A j \in i + 1 .. n : l[j + 1] = list[j]
    BY <1>2, SplitElements
  <2>3. DOMAIN l = 1 .. n + 1
    BY <2>2, LenProperties
  <2>4. \A b, v : Gives(bb, b, v) <=> Gives(head, b, v) \/ Gives(rest, b, v)
    <3> DEFINE k == max_len \div BlockSize
               keep == BlockSize * k
    <3> HIDE DEF bb
    <3>1. /\ k \in Nat /\ head \in Nodes /\ rest \in Nodes
          /\ NBlocks(head) = k /\ NBlocks(rest) = NBlocks(bb) - k
          /\ rest.block = bb.block + k
      BY <2>1, SplitPieces
    <3>2. AlignDown(max_len, BlockSize) = keep /\ keep \in Nat /\ keep \div BlockSize = k /\ k < NBlocks(bb)
      BY <2>1, SplitNumbers
    <3>3. NBlocks(bb) \in Nat
      BY <2>1, InsideFacts
    <3>4. bb \in [id : Addr, type : Types, src : Srcs, off : Nat, len : UInt, block : UInt] /\ bb.len \in Nat
      BY <2>1, InsideFacts DEF Nodes
    <3> HIDE DEF k
    <3>5. keep = BlockSize * k
      OBVIOUS
    <3> HIDE DEF keep
    <3>6. /\ head.len = keep /\ head.block = bb.block /\ head.type = bb.type
          /\ head.src = bb.src /\ head.off = bb.off
      BY <3>2, <3>4 DEF SplitHead
    <3>7. /\ rest.len = bb.len - keep /\ rest.type = bb.type /\ rest.src = bb.src
          /\ bb.type = "fill" \/ rest.off = bb.off + keep
      BY <3>2, <3>4 DEF SplitRest
    <3>8. bb.len = head.len + rest.len
      BY <3>2, <3>4, <3>6, <3>7
    <3> HIDE DEF head, rest
    <3>9. /\ bb \in Nodes /\ head \in Nodes /\ rest \in Nodes
          /\ NBlocks(head) \in Nat /\ NBlocks(rest) \in Nat /\ NBlocks(bb) = NBlocks(head) + NBlocks(rest)
          /\ head.len = BlockSize * NBlocks(head) /\ bb.len = head.len + rest.len
          /\ bb.block = head.block /\ rest.block = head.block + NBlocks(head)
          /\ head.type = bb.type /\ rest.type = bb.type /\ head.src = bb.src /\ rest.src = bb.src
          /\ bb.type = "fill" \/ (bb.off = head.off /\ rest.off = head.off + head.len)
      BY <2>1, <3>1, <3>2, <3>3, <3>5, <3>6, <3>7, <3>8
    <3> QED BY <3>9, JoinedGives
  <2> HIDE DEF l, n, head, rest
  <2>5. ToSet(list) = others \cup {bb}
    BY <2>1 DEF ToSet
  <2>6. ToSet(l) = others \cup {head, rest}
    <3>1. ASSUME NEW j \in 1 .. n + 1 PROVE l[j] \in others \cup {head, rest}
      <4>1. CASE j < i
        <5>1. l[j] = list[j] /\ j \in (1 .. n) \ {i}
          BY <2>1, <2>2, <4>1
        <5> QED BY <5>1
      <4>2. CASE j = i \/ j = i + 1
        BY <2>2, <4>2
      <4>3. CASE j > i + 1
        <5>1. j-1 \in i + 1 .. n /\ (j-1) + 1 = j /\ j-1 \in (1 .. n) \ {i}
          BY <2>1, <4>3
        <5>2. l[j] = list[j-1]
          BY <2>2, <5>1
        <5> QED BY <5>1, <5>2
      <4> QED BY <2>1, <4>1, <4>2, <4>3
    <3>2. ASSUME NEW j \in (1 .. n) \ {i} PROVE list[j] \in ToSet(l)
      <4>1. CASE j < i
        <5>1. j \in 1 .. n + 1 /\ l[j] = list[j]
          BY <2>1, <2>2, <4>1
        <5> QED BY <2>3, <5>1 DEF ToSet
      <4>2. CASE j > i
        <5>1. j+1 \in 1 .. n + 1 /\ j \in i + 1 .. n
          BY <2>1, <4>2
        <5>2. l[j+1] = list[j]
          BY <2>2, <5>1
        <5> QED BY <2>3, <5>1, <5>2 DEF ToSet
      <4> QED BY <2>1, <4>1, <4>2
    <3>3. head \in ToSet(l) /\ rest \in ToSet(l)
      <4>1. i \in 1 .. n + 1 /\ i + 1 \in 1 .. n + 1
        BY <2>1
      <4> QED BY <2>2, <2>3, <4>1 DEF ToSet
    <3>4. \A x \in ToSet(l) : x \in others \cup {head, rest}
      BY <2>3, <3>1 DEF ToSet
    <3>5. \A x \in others \cup {head, rest} : x \in ToSet(l)
      BY <3>2, <3>3
    <3> QED BY <3>4, <3>5
  <2> HIDE DEF others, bb
  <2> QED BY <2>4, <2>5, <2>6 DEF Holds, l
<1> QED BY <1>1, <1>2

(* What the three operations do to the image: an addition fills the blocks *)
(* of its extent, which were holes; a split leaves the image as it is.     *)
LEMMA GoodApart ==
  ASSUME NEW list, GoodList(list)
  PROVE  Apart(list)
<1>1. list \in Seq(Nodes) /\ Ascending(list) /\ \A i \in DOMAIN list : Inside(list[i])
  BY DEF GoodList, WellPlaced, Inside
<1> QED BY <1>1, AscendingApart

LEMMA QueueImage ==
  ASSUME NEW bl, NEW new \in Nodes, WellPlaced(new),
         GoodList(bl.list), GoodList(Queue(bl, new).list),
         \A i \in DOMAIN bl.list : Covered(bl.list[i]) \cap Covered(new) = {}
  PROVE  /\ \A b \in Covered(new) : ImageOf(bl.list)[b] = Hole
         /\ ImageOf(Queue(bl, new).list) =
              [b \in 0 .. Blocks-1 |->
                 IF b \in Covered(new) THEN CellOf(new, b) ELSE ImageOf(bl.list)[b]]
<1> DEFINE l == Queue(bl, new).list
<1>1. Apart(bl.list) /\ Apart(l)
  BY GoodApart
<1>2. \A b, v : Holds(l, b, v) <=> Holds(bl.list, b, v) \/ Gives(new, b, v)
  BY QueueHolds
<1> HIDE DEF l
<1>3. ASSUME NEW b \in Covered(new) PROVE b \in 0 .. Blocks-1 /\ ImageOf(bl.list)[b] = Hole
  <2>1. b \in 0 .. Blocks-1
    <3>1. new.block \in Nat /\ NBlocks(new) \in Nat /\ new.block + NBlocks(new) =< Blocks
      BY PlacedFacts
    <3>2. b \in new.block .. new.block + NBlocks(new) - 1 /\ Blocks \in Nat
      BY SizesAssumption DEF Covered
    <3> QED BY <3>1, <3>2
  <2>2. \A v : ~ Holds(bl.list, b, v)
    BY DEF Holds, Gives, ToSet
  <2> QED BY <1>1, <2>1, <2>2, ImageHolds
<1>4. ASSUME NEW b \in 0 .. Blocks-1
      PROVE  ImageOf(l)[b] = IF b \in Covered(new) THEN CellOf(new, b) ELSE ImageOf(bl.list)[b]
  <2>1. CASE b \in Covered(new)
    <3>1. Holds(l, b, CellOf(new, b))
      BY <1>2, <2>1 DEF Gives
    <3> QED BY <1>1, <2>1, <3>1, ImageHolds
  <2>2. CASE b \notin Covered(new) /\ \E v : Holds(bl.list, b, v)
    <3>1. PICK v : Holds(bl.list, b, v)
      BY <2>2
    <3>2. Holds(l, b, v)
      BY <1>2, <3>1
    <3> QED BY <1>1, <2>2, <3>1, <3>2, ImageHolds
  <2>3. CASE b \notin Covered(new) /\ \A v : ~ Holds(bl.list, b, v)
    <3>1. \A v : ~ Holds(l, b, v)
      BY <1>2, <2>3 DEF Gives
    <3> QED BY <1>1, <2>3, <3>1, ImageHolds
  <2> QED BY <2>1, <2>2, <2>3
<1>5. ImageOf(l) = [b \in 0 .. Blocks-1 |-> ImageOf(l)[b]]
  BY DEF ImageOf
<1>6. ImageOf(l) = [b \in 0 .. Blocks-1 |->
                      IF b \in Covered(new) THEN CellOf(new, b) ELSE ImageOf(bl.list)[b]]
  BY <1>4, <1>5
<1> QED BY <1>3, <1>6 DEF l

LEMMA SplitImage ==
  ASSUME NEW bl \in [list : Seq(Nodes), last_used : Addr \cup {NULL}],
         NEW i \in DOMAIN bl.list, NEW id \in Addr, NEW max_len \in Nat,
         GoodList(bl.list), GoodList(Split(bl, i, max_len, id).list)
  PROVE  ImageOf(Split(bl, i, max_len, id).list) = ImageOf(bl.list)
<1> DEFINE l == Split(bl, i, max_len, id).list
<1>1. Apart(bl.list) /\ Apart(l)
  BY GoodApart
<1>2. i \in 1 .. Len(bl.list) /\ Inside(bl.list[i])
  BY GoodListFacts DEF WellPlaced, Inside
<1>3. \A b, v : Holds(l, b, v) <=> Holds(bl.list, b, v)
  BY <1>2, SplitHolds
<1> HIDE DEF l
<1>4. ImageOf(l) = ImageOf(bl.list)
  BY <1>1, <1>3, SameImage
<1> QED BY <1>4 DEF l
=============================================================================
