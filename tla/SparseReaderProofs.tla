------------------------- MODULE SparseReaderProofs -------------------------
(***************************************************************************)
(* Proofs about SparseReader: whatever a file holds, and whatever it was   *)
(* made by, a cookie that is read from it is one that can be written.      *)
(***************************************************************************)
EXTENDS SparseReader, BackedBlocksProofs, TLAPS

-----------------------------------------------------------------------------
(* queue_bb on a list that need not be in order.                           *)

Lists == [list : Seq(Nodes), last_used : Addr \cup {NULL}]

LEMMA UType == ASSUME NEW n \in Int PROVE U(n) \in UInt
  BY SizesAssumption DEF U, UInt

LEMMA NodeNumbers == ASSUME NEW x \in Nodes PROVE x.len \in Nat /\ x.block \in Nat
  BY SizesAssumption DEF Nodes, UInt

LEMMA MergeTyped ==
  ASSUME NEW list \in Seq(Nodes), NEW i \in 1 .. Len(list)
  PROVE  MergeAt(list, i) \in Seq(Nodes) /\ i =< Len(MergeAt(list, i))
<1> DEFINE n == Len(list)
           m == Merged(list[i], list[i+1])
           e == [list EXCEPT ![i] = m]
<1>1. n \in Nat /\ i \in 1 .. n /\ list[i] \in Nodes
  BY LenProperties, ElementOfSeq
<1>2. CASE ~(i < n /\ Mergeable(list[i], list[i+1]))
  BY <1>1, <1>2 DEF MergeAt
<1>3. CASE i < n /\ Mergeable(list[i], list[i+1])
  <2>1. i + 1 \in 1 .. n
    BY <1>1, <1>3
  <2>2. list[i+1] \in Nodes
    BY <2>1, ElementOfSeq
  <2>3. U(list[i].len + list[i+1].len) \in UInt
    <3>1. list[i].len \in Int /\ list[i+1].len \in Int
      BY <1>1, <2>2, NodeNumbers
    <3> QED BY <3>1, UType
  <2>4. m \in Nodes
    BY <1>1, <2>3 DEF Merged, Nodes
  <2>5. e \in Seq(Nodes) /\ Len(e) = n
    <3> HIDE DEF m
    <3> QED BY <1>1, <2>4, ExceptSeq
  <2>6. MergeAt(list, i) = RemoveAt(e, i + 1)
    BY <1>3 DEF MergeAt
  <2> HIDE DEF e
  <2>7. RemoveAt(e, i+1) \in Seq(Nodes) /\ Len(RemoveAt(e, i+1)) = n - 1
    BY <2>1, <2>5, RemoveAtProperties
  <2> QED BY <1>1, <1>3, <2>6, <2>7
<1> QED BY <1>2, <1>3

LEMMA PredecessorExists ==
  ASSUME NEW bl \in Lists, NEW new \in Nodes, ~BeforeHead(bl, new)
  PROVE  Predecessor(bl, new) \in 1 .. Len(bl.list)
<1> DEFINE list  == bl.list
           n     == Len(list)
           start == SearchStart(bl, new)
           T     == {i \in start .. n : i = n \/ list[i+1].block >= new.block}
<1>1. list \in Seq(Nodes) /\ n \in Nat /\ DOMAIN list = 1 .. n
  BY LenProperties DEF Lists
<1>2. n >= 1
  <2>1. list # <<>>
    BY DEF BeforeHead
  <2>2. n # 0
    BY <1>1, <2>1, EmptySeq
  <2> QED BY <1>1, <2>2
<1>3. start \in 1 .. n
  <2> DEFINE cached == {i \in DOMAIN list : list[i].id = bl.last_used /\ new.block > list[i].block}
  <2>1. start = IF cached # {} THEN CHOOSE i \in cached : TRUE ELSE 1
    BY DEF SearchStart
  <2>2. cached # {} => start \in cached
    BY <2>1
  <2> HIDE DEF start
  <2> QED BY <1>1, <1>2, <2>1, <2>2
<1> HIDE DEF start
<1>4. PICK m \in T : \A k \in T : m =< k
  <2>1. T \in SUBSET Nat /\ n \in T
    BY <1>1, <1>3
  <2> HIDE DEF T
  <2> QED BY <2>1, LeastElement
<1>5. \E i \in start .. n : /\ i = n \/ list[i+1].block >= new.block
                            /\ \A j \in start .. i-1 : list[j+1].block < new.block
  <2>1. m \in start .. n /\ (m = n \/ list[m+1].block >= new.block)
    BY <1>4
  <2>2. ASSUME NEW j \in start .. m-1 PROVE list[j+1].block < new.block
    <3>1. j \notin T
      BY <1>3, <1>4, <2>1
    <3>2. j + 1 \in 1 .. n
      BY <1>1, <1>3, <2>1
    <3>3. list[j+1].block \in Int /\ new.block \in Int
      <4>1. list[j+1] \in Nodes
        BY <1>1, <3>2, ElementOfSeq
      <4> QED BY <4>1, NodeNumbers
    <3> QED BY <1>1, <1>3, <2>1, <3>1, <3>3
  <2> QED BY <2>1, <2>2
<1>6. Predecessor(bl, new) \in start .. n
  BY <1>5 DEF Predecessor, start
<1> QED BY <1>1, <1>3, <1>6

LEMMA QueueTyped ==
  ASSUME NEW bl \in Lists, NEW new \in Nodes
  PROVE  Queue(bl, new) \in Lists
<1> DEFINE list == bl.list
           n    == Len(list)
<1>1. list \in Seq(Nodes) /\ n \in Nat /\ bl.last_used \in Addr \cup {NULL} /\ new.id \in Addr
  BY LenProperties DEF Lists, Nodes
<1>2. CASE BeforeHead(bl, new)
  <2>1. <<new>> \o list \in Seq(Nodes)
    BY <1>1, PrependProperties
  <2> QED BY <1>2, <2>1 DEF Queue, Lists
<1>3. CASE ~BeforeHead(bl, new)
  <2> DEFINE at      == Predecessor(bl, new)
             ins     == InsertAt(list, at + 1, new)
             forward == MergeAt(ins, at + 1)
             last    == IF Mergeable(forward[at], forward[at+1]) THEN forward[at].id ELSE new.id
  <2>1. at \in 1 .. n /\ at + 1 \in 1 .. n + 1
    BY <1>1, <1>3, PredecessorExists
  <2>2. Queue(bl, new) = [list |-> MergeAt(forward, at), last_used |-> last]
    BY <1>3 DEF Queue, QueueAfter
  <2> HIDE DEF at
  <2>3. ins \in Seq(Nodes) /\ Len(ins) = n + 1
    BY <1>1, <2>1, InsertAtProperties
  <2> HIDE DEF ins
  <2>4. forward \in Seq(Nodes) /\ at + 1 =< Len(forward)
    BY <2>1, <2>3, MergeTyped
  <2> HIDE DEF forward
  <2>5. at \in 1 .. Len(forward)
    BY <1>1, <2>1, <2>4, LenProperties
  <2>6. MergeAt(forward, at) \in Seq(Nodes)
    BY <2>4, <2>5, MergeTyped
  <2>7. last \in Addr
    <3>1. forward[at] \in Nodes
      BY <2>4, <2>5, ElementOfSeq
    <3> QED BY <1>1, <3>1 DEF Nodes
  <2> HIDE DEF last
  <2> QED BY <2>2, <2>6, <2>7 DEF Lists
<1> QED BY <1>2, <1>3

-----------------------------------------------------------------------------
(* Where extents end.                                                      *)

End(x) == x.block * BlockSize + x.len

(* An extent ends where its last block is filled.                          *)
LEMMA LastCell ==
  ASSUME NEW x \in Nodes, WellPlaced(x)
  PROVE  LET b == x.block + NBlocks(x) - 1
         IN b \in Covered(x) /\ End(x) = b * BlockSize + CellOf(x, b).bytes
<1> DEFINE k == NBlocks(x)
           b == x.block + k - 1
           left == x.len - (b - x.block) * BlockSize
<1>1. /\ x.len \in Nat /\ k \in Nat \ {0} /\ x.block \in Nat /\ BlockSize \in Nat \ {0}
      /\ x.len =< BlockSize * k
  BY PlacedFacts, SizesAssumption
<1>2. CellOf(x, b).bytes = IF left < BlockSize THEN left ELSE BlockSize
  BY DEF CellOf
<1> HIDE DEF k
<1>3. b \in Covered(x)
  BY <1>1 DEF Covered, k
<1>4. (b - x.block) * BlockSize = BlockSize * k - BlockSize
  <2>1. b - x.block = k - 1
    BY <1>1
  <2> QED BY <1>1, <2>1
<1>5. b * BlockSize = x.block * BlockSize + (BlockSize * k - BlockSize)
  <2>1. b * BlockSize = x.block * BlockSize + (k - 1) * BlockSize
    BY <1>1
  <2> QED BY <1>1, <2>1
<1>6. BlockSize * k \in Nat /\ x.block * BlockSize \in Nat
  BY <1>1
<1>7. left =< BlockSize /\ left = x.len - (BlockSize * k - BlockSize)
  BY <1>1, <1>4, <1>6
<1>8. CellOf(x, b).bytes = left
  <2>1. left \in Int
    BY <1>1, <1>6, <1>7
  <2> HIDE DEF left, b
  <2> QED BY <1>1, <1>2, <1>7, <2>1
<1>9. b * BlockSize + CellOf(x, b).bytes = x.block * BlockSize + x.len
  BY <1>1, <1>5, <1>6, <1>7, <1>8
<1> QED BY <1>3, <1>9 DEF End, k

(* No block of an extent is filled beyond its end.                         *)
LEMMA CellInside ==
  ASSUME NEW x \in Nodes, WellPlaced(x), NEW b \in Covered(x)
  PROVE  b * BlockSize + CellOf(x, b).bytes =< End(x) /\ CellOf(x, b).bytes \in Int /\ b \in Nat
<1> DEFINE left == x.len - (b - x.block) * BlockSize
<1>1. x.len \in Nat /\ NBlocks(x) \in Nat /\ x.block \in Nat /\ BlockSize \in Nat \ {0}
  BY PlacedFacts, SizesAssumption
<1>2. b \in Nat
  BY <1>1 DEF Covered
<1>3. CellOf(x, b).bytes = IF left < BlockSize THEN left ELSE BlockSize
  BY DEF CellOf
<1>4. b * BlockSize = x.block * BlockSize + (b - x.block) * BlockSize
  BY <1>1, <1>2
<1>5. b * BlockSize \in Int /\ x.block * BlockSize \in Int /\ (b - x.block) * BlockSize \in Int
  BY <1>1, <1>2
<1>6. CellOf(x, b).bytes =< left /\ CellOf(x, b).bytes \in Int
  BY <1>1, <1>3, <1>5
<1> QED BY <1>1, <1>2, <1>4, <1>5, <1>6 DEF End

(* queue_bb merges extents and moves none, so the list ends where it did, or *)
(* where the new one does.                                                 *)
LEMMA QueueEnds ==
  ASSUME NEW bl \in Lists, GoodList(bl.list), NEW new \in Nodes, WellPlaced(new),
         bl.last_used # NULL => bl.last_used \in Ids(bl),
         \A i \in DOMAIN bl.list : Covered(bl.list[i]) \cap Covered(new) = {},
         NEW m \in Int, End(new) =< m, \A x \in ToSet(bl.list) : End(x) =< m
  PROVE  \A x \in ToSet(Queue(bl, new).list) : End(x) =< m
<1> DEFINE list == Queue(bl, new).list
<1>1. GoodList(list)
  BY QueueFacts DEF Lists
<1>2. \A b, v : Holds(list, b, v) => Holds(bl.list, b, v) \/ Gives(new, b, v)
  BY QueueHolds
<1> HIDE DEF list
<1> SUFFICES ASSUME NEW x \in ToSet(list) PROVE End(x) =< m
  BY DEF list
<1>3. x \in Nodes /\ WellPlaced(x)
  BY <1>1, GoodListFacts DEF ToSet
<1> DEFINE b == x.block + NBlocks(x) - 1
<1>4. b \in Covered(x) /\ End(x) = b * BlockSize + CellOf(x, b).bytes
  BY <1>3, LastCell
<1> HIDE DEF b
<1>5. Holds(list, b, CellOf(x, b))
  BY <1>4 DEF Holds, Gives
<1>6. PICK y \in ToSet(bl.list) \cup {new} : Gives(y, b, CellOf(x, b))
  BY <1>2, <1>5 DEF Holds
<1>7. y \in Nodes /\ WellPlaced(y)
  <2>1. \A z \in ToSet(bl.list) : z \in Nodes /\ WellPlaced(z)
    BY GoodListFacts DEF ToSet
  <2> QED BY <2>1
<1>8. b \in Covered(y) /\ CellOf(x, b) = CellOf(y, b)
  BY <1>6 DEF Gives
<1>9. End(x) =< End(y) /\ End(x) \in Int /\ End(y) \in Int
  <2>1. b * BlockSize + CellOf(y, b).bytes =< End(y)
    BY <1>7, <1>8, CellInside
  <2>2. \A z \in Nodes : WellPlaced(z) => End(z) \in Int
    BY PlacedFacts, SizesAssumption DEF End
  <2> QED BY <1>3, <1>4, <1>7, <1>8, <2>1, <2>2
<1>10. End(y) =< m
  OBVIOUS
<1> QED BY <1>9, <1>10

-----------------------------------------------------------------------------
(* What a file announces.                                                  *)

\* A sequence of words whose headers are headers.
Words(bytes) ==
  /\ bytes \in Seq(Srcs)
  /\ \A k \in DOMAIN bytes : /\ bytes[k][1] = "header" => bytes[k][2] \in Headers
                             /\ bytes[k][1] = "chunk" => bytes[k][2] \in Chunks

\* One that announces no more than the image has.
Fits(bytes) ==
  /\ Words(bytes)
  /\ Announced(bytes, Len(bytes)) =< Blocks /\ Len(bytes) =< Blocks * BlockSize

BlocksAt(b) == IF Begins(b, "chunk") THEN b[2].chunk_sz ELSE 0

Counts(bytes, n) == [k \in 1 .. n |-> BlocksAt(bytes[k])]

LEMMA CountsType ==
  ASSUME NEW bytes, Words(bytes), NEW n \in 0 .. Len(bytes)
  PROVE  /\ Counts(bytes, n) \in Seq(Nat) /\ Len(Counts(bytes, n)) = n
         /\ \A k \in 1 .. n : Counts(bytes, n)[k] = BlocksAt(bytes[k])
         /\ Announced(bytes, n) = Total(Counts(bytes, n))
<1>1. Len(bytes) \in Nat /\ DOMAIN bytes = 1 .. Len(bytes)
  BY LenProperties DEF Words
<1>2. \A k \in 1 .. n : BlocksAt(bytes[k]) \in Nat
  BY <1>1 DEF Words, BlocksAt, Begins, Chunks
<1>3. Counts(bytes, n) \in [1 .. n -> Nat] /\ n \in Nat
  BY <1>1, <1>2 DEF Counts
<1>4. Counts(bytes, n) \in Seq(Nat)
  BY <1>3, SeqDef
<1>5. Len(Counts(bytes, n)) = n
  BY <1>3, <1>4, LenProperties DEF Counts
<1> QED BY <1>4, <1>5 DEF Announced, Counts, BlocksAt

LEMMA AnnouncedNext ==
  ASSUME NEW bytes, Words(bytes), NEW n \in 0 .. Len(bytes) - 1
  PROVE  /\ Announced(bytes, n + 1) = Announced(bytes, n) + BlocksAt(bytes[n+1])
         /\ Announced(bytes, n) \in Nat /\ Announced(bytes, n + 1) \in Nat
<1> DEFINE h == Counts(bytes, n)
           k == Counts(bytes, n + 1)
<1>1. n \in 0 .. Len(bytes) /\ n + 1 \in 0 .. Len(bytes) /\ n \in Nat
  BY LenProperties DEF Words
<1>2. /\ h \in Seq(Nat) /\ Len(h) = n /\ Announced(bytes, n) = Total(h)
      /\ \A j \in 1 .. n : h[j] = BlocksAt(bytes[j])
  BY <1>1, CountsType
<1>3. /\ k \in Seq(Nat) /\ Len(k) = n + 1 /\ Announced(bytes, n + 1) = Total(k)
      /\ \A j \in 1 .. n + 1 : k[j] = BlocksAt(bytes[j])
  BY <1>1, CountsType
<1> HIDE DEF h, k
<1>4. /\ \A j \in 1 .. Len(h) : k[j] = h[j]
      /\ k[Len(k)] = BlocksAt(bytes[n+1]) /\ Len(k) = Len(h) + 1
  BY <1>1, <1>2, <1>3
<1> QED BY <1>2, <1>3, <1>4, TotalNext

LEMMA AnnouncedNat ==
  ASSUME NEW bytes, Words(bytes), NEW n \in 0 .. Len(bytes)
  PROVE  Announced(bytes, n) \in Nat
<1>1. Len(bytes) \in Nat
  BY LenProperties DEF Words
<1>2. CASE n = 0
  <2>1. Len(Counts(bytes, n)) = 0 /\ Announced(bytes, n) = Total(Counts(bytes, n))
    BY <1>2, CountsType
  <2> QED BY <2>1, TotalEmpty
<1>3. CASE n # 0
  <2>1. n - 1 \in 0 .. Len(bytes) - 1 /\ (n - 1) + 1 = n
    BY <1>1, <1>3
  <2> QED BY <2>1, AnnouncedNext
<1> QED BY <1>2, <1>3

LEMMA AnnouncedUpto ==
  ASSUME NEW bytes, Words(bytes), NEW m \in 0 .. Len(bytes), NEW n \in m .. Len(bytes)
  PROVE  Announced(bytes, m) =< Announced(bytes, n)
<1> DEFINE T == {k \in m .. Len(bytes) : ~(Announced(bytes, m) =< Announced(bytes, k))}
<1>1. Len(bytes) \in Nat /\ m \in Nat
  BY LenProperties DEF Words
<1> SUFFICES ASSUME T # {} PROVE FALSE
  OBVIOUS
<1>2. PICK k \in T : \A j \in T : k =< j
  <2>1. T \in SUBSET Nat
    BY <1>1
  <2> HIDE DEF T
  <2> QED BY <2>1, LeastElement
<1>3. k \in m .. Len(bytes) /\ ~(Announced(bytes, m) =< Announced(bytes, k))
  OBVIOUS
<1>4. k # m
  BY <1>1, <1>3, AnnouncedNat
<1>5. k - 1 \in m .. Len(bytes) /\ k - 1 \in 0 .. Len(bytes) - 1 /\ (k - 1) + 1 = k /\ ~(k =< k - 1)
  BY <1>1, <1>3, <1>4
<1>6. Announced(bytes, m) =< Announced(bytes, k - 1)
  BY <1>2, <1>5
<1>7. /\ Announced(bytes, k) = Announced(bytes, k - 1) + BlocksAt(bytes[k])
      /\ Announced(bytes, k - 1) \in Nat /\ Announced(bytes, m) \in Nat
  BY <1>1, <1>5, AnnouncedNext, AnnouncedNat
<1>8. BlocksAt(bytes[k]) \in Nat
  <2>1. k \in DOMAIN bytes
    BY <1>1, <1>3, <1>5, LenProperties DEF Words
  <2> QED BY <2>1 DEF Words, BlocksAt, Begins, Chunks
<1> QED BY <1>3, <1>6, <1>7, <1>8

LEMMA AnnouncedSame ==
  ASSUME NEW bytes, Words(bytes), NEW more, Words(more), Len(bytes) =< Len(more),
         \A k \in 1 .. Len(bytes) : BlocksAt(bytes[k]) = BlocksAt(more[k])
  PROVE  Announced(bytes, Len(bytes)) =< Announced(more, Len(more))
<1> DEFINE n == Len(bytes)
<1>1. n \in Nat /\ Len(more) \in Nat /\ n \in 0 .. Len(bytes) /\ n \in 0 .. Len(more)
      /\ Len(more) \in n .. Len(more)
  BY LenProperties DEF Words
<1> HIDE DEF n
<1>2. Counts(bytes, n) = Counts(more, n)
  BY DEF Counts, n
<1>3. Announced(bytes, n) = Announced(more, n)
  BY <1>1, <1>2, CountsType
<1>4. Announced(more, n) =< Announced(more, Len(more))
  BY <1>1, AnnouncedUpto
<1> QED BY <1>3, <1>4 DEF n

(* A file stays one that fits when it is cut short or a word of it rots.   *)
LEMMA FileFits == ASSUME NEW bytes \in Files PROVE Fits(bytes)
  BY FilesAssumption DEF Fits, Words

LEMMA DamagedFits ==
  ASSUME NEW bytes, Fits(bytes), NEW left \in Damaged(bytes)
  PROVE  Fits(left.bytes)
<1> DEFINE b == left.bytes
<1>1. bytes \in Seq(Srcs) /\ Len(bytes) \in Nat /\ DOMAIN bytes = 1 .. Len(bytes) /\ Words(bytes)
      /\ Announced(bytes, Len(bytes)) =< Blocks /\ Len(bytes) =< Blocks * BlockSize
  BY LenProperties DEF Fits, Words
<1>2. Words(b) /\ Len(b) \in Nat /\ Len(b) =< Len(bytes)
      /\ \A k \in 1 .. Len(b) : BlocksAt(b[k]) = BlocksAt(bytes[k])
  <2>1. CASE b = bytes
    BY <1>1, <2>1
  <2>2. ASSUME NEW n \in 0 .. Len(bytes) - 1, b = SubSeq(bytes, 1, n) PROVE <1>2
    <3>1. n \in Nat /\ n =< Len(bytes)
      BY <1>1
    <3>2. /\ b \in Seq(Srcs) /\ Len(b) = n /\ \A k \in 1 .. n : b[k] = bytes[k]
      BY <1>1, <2>2, <3>1, SubSeqProperties
    <3>3. DOMAIN b = 1 .. n
      BY <3>2, LenProperties
    <3>4. Words(b)
      <4>1. \A k \in 1 .. n : k \in DOMAIN bytes
        BY <1>1, <3>1
      <4> HIDE DEF b
      <4> QED BY <1>1, <3>2, <3>3, <4>1 DEF Words
    <3> HIDE DEF b
    <3> QED BY <3>1, <3>2, <3>4
  <2>3. ASSUME NEW n \in DOMAIN bytes, bytes[n][1] = "data",
               b = [bytes EXCEPT ![n] = <<"data", "rotten">>]
        PROVE  <1>2
    <3> DEFINE r == <<"data", "rotten">>
    <3>1. r \in Srcs /\ r[1] = "data"
      BY FilesAssumption
    <3>2. BlocksAt(r) = 0 /\ BlocksAt(bytes[n]) = 0
      BY <2>3 DEF BlocksAt, Begins
    <3> HIDE DEF r
    <3>3. b \in Seq(Srcs) /\ Len(b) = Len(bytes) /\ \A k \in 1 .. Len(bytes) : b[k] = IF k = n THEN r ELSE bytes[k]
      BY <1>1, <2>3, <3>1, ExceptSeq DEF r
    <3>4. DOMAIN b = 1 .. Len(bytes)
      BY <3>3, LenProperties
    <3> HIDE DEF b
    <3>5. Words(b)
      BY <1>1, <3>1, <3>3, <3>4 DEF Words
    <3> QED BY <1>1, <3>2, <3>3, <3>5
  <2> QED BY <2>1, <2>2, <2>3 DEF Damaged
<1> HIDE DEF b
<1>3. Announced(b, Len(b)) =< Announced(bytes, Len(bytes))
  BY <1>1, <1>2, AnnouncedSame
<1>4. Len(b) =< Blocks * BlockSize /\ Announced(b, Len(b)) =< Blocks
  <2>1. Announced(b, Len(b)) \in Nat /\ Announced(bytes, Len(bytes)) \in Nat
    BY <1>1, <1>2, AnnouncedNat
  <2>2. Blocks * BlockSize \in Nat /\ Blocks \in Nat
    BY SizesAssumption
  <2> QED BY <1>1, <1>2, <1>3, <2>1, <2>2
<1> QED BY <1>2, <1>4 DEF b, Fits

-----------------------------------------------------------------------------
(* The invariant.                                                          *)

Cookies == [list : Seq(Nodes), last_used : Addr \cup {NULL}, len : Nat]

Reached(p) == IF p =< Len(disk["in"]) THEN p ELSE Len(disk["in"])

Typed ==
  /\ Fits(disk["in"])
  /\ fd = [path |-> "in", pos |-> fd.pos] /\ fd.pos \in Nat
  /\ rd = [pc |-> rd.pc, auto |-> rd.auto, crc |-> rd.crc, hdr |-> rd.hdr, i |-> rd.i,
           cur_block |-> rd.cur_block, crc32 |-> rd.crc32, faults |-> rd.faults]
  /\ rd.pc \in {"header", "chunk", "normal", "done", "aborted"}
  /\ rd.i \in Nat /\ rd.cur_block \in Nat /\ rd.faults \in Nat
  /\ rd.pc = "header" => rd.cur_block = 0
  /\ cookie = NULL \/ cookie \in Cookies
  /\ rd.pc \in {"chunk", "normal", "aborted"} => cookie \in Cookies

\* The sparse reader has not come further in the image than the file announces.
InChunks ==
  rd.pc = "chunk" =>
    /\ rd.hdr \in Headers /\ rd.hdr.chunk_hdr_sz >= ChunkHeaderLen
    /\ cookie.len = rd.hdr.total_blks * BlockSize
    /\ rd.cur_block =< Announced(disk["in"], Reached(fd.pos))

\* The plain reader is at a block of the file, or at its end.
AtBlock ==
  rd.pc = "normal" =>
    /\ cookie.len = Len(disk["in"]) /\ fd.pos =< cookie.len
    /\ fd.pos =< rd.cur_block * BlockSize
    /\ fd.pos < cookie.len => fd.pos = rd.cur_block * BlockSize

\* A list in order that ends at m, with a cache that points into it.
Kept(c, m) ==
  /\ GoodList(c.list)
  /\ c.last_used # NULL => c.last_used \in Ids(c)
  /\ \A x \in ToSet(c.list) : End(x) =< m

\* The list ends where the reader is, and never behind the end of the image.
Ordered ==
  ~EmptyChunk =>
    /\ rd.pc \in {"chunk", "normal"} => Kept(cookie, rd.cur_block * BlockSize)
    /\ rd.pc \in {"normal", "done"} /\ cookie # NULL => Kept(cookie, cookie.len)

RInv == Typed /\ InChunks /\ AtBlock /\ Ordered /\ NoAbort

-----------------------------------------------------------------------------
(* One step.                                                               *)

(* No step changes the file.                                               *)
LEMMA SameFile ==
  ASSUME Typed, disk' = disk, fd'.path = "in"
  PROVE  Bytes = disk["in"] /\ Bytes' = disk["in"] /\ (EmptyChunk' <=> EmptyChunk)
<1>1. fd.path = "in"
  BY DEF Typed
<1>2. Bytes = disk["in"] /\ Bytes' = disk["in"]
  BY <1>1 DEF Bytes
<1> QED BY <1>2 DEF EmptyChunk

LEMMA EmptyKept == ASSUME NEW n \in Nat PROVE EmptyCookie(n) \in Cookies /\ \A m : Kept(EmptyCookie(n), m)
<1>1. <<>> \in Seq(Nodes) /\ DOMAIN <<>> = {} /\ Len(<<>>) = 0
  OBVIOUS
<1>2. GoodList(<<>>)
  BY <1>1 DEF GoodList, Ascending
<1>3. ToSet(<<>>) = {}
  BY <1>1 DEF ToSet
<1> QED BY <1>1, <1>2, <1>3 DEF EmptyCookie, Cookies, Kept

LEMMA InitHolds == ASSUME Init PROVE RInv
<1>1. PICK bytes \in Files : \E left \in Damaged(bytes) :
        /\ disk = [name \in {"in"} |-> left.bytes]
        /\ fd = [path |-> "in", pos |-> 0]
        /\ \/ /\ cookie = NULL
              /\ \E auto, crc \in BOOLEAN :
                   rd = [Idle EXCEPT !.pc = "header", !.auto = auto, !.crc = crc]
           \/ /\ cookie = EmptyCookie(Len(left.bytes))
              /\ rd = [Idle EXCEPT !.pc = "normal"]
  BY DEF Init
<1>2. PICK left \in Damaged(bytes) :
        /\ disk = [name \in {"in"} |-> left.bytes]
        /\ fd = [path |-> "in", pos |-> 0]
        /\ \/ /\ cookie = NULL
              /\ \E auto, crc \in BOOLEAN :
                   rd = [Idle EXCEPT !.pc = "header", !.auto = auto, !.crc = crc]
           \/ /\ cookie = EmptyCookie(Len(left.bytes))
              /\ rd = [Idle EXCEPT !.pc = "normal"]
  BY <1>1
<1>3. disk["in"] = left.bytes /\ Fits(disk["in"]) /\ Len(disk["in"]) \in Nat
  <2>1. Fits(left.bytes)
    BY FileFits, DamagedFits
  <2>2. disk["in"] = left.bytes
    BY <1>2
  <2> QED BY <2>1, <2>2, LenProperties DEF Fits, Words
<1>4. EmptyCookie(Len(disk["in"])) \in Cookies /\ \A m : Kept(EmptyCookie(Len(disk["in"])), m)
  BY <1>3, EmptyKept
<1>5. CASE /\ cookie = NULL
           /\ \E auto, crc \in BOOLEAN : rd = [Idle EXCEPT !.pc = "header", !.auto = auto, !.crc = crc]
  <2>1. PICK auto, crc \in BOOLEAN :
          rd = [pc |-> "header", auto |-> auto, crc |-> crc, hdr |-> NULL, i |-> 0,
                cur_block |-> 0, crc32 |-> <<>>, faults |-> 0]
    BY <1>5 DEF Idle
  <2>2. rd.pc = "header" /\ Typed
    BY <1>2, <1>3, <1>5, <2>1 DEF Typed
  <2> QED BY <2>1, <2>2 DEF RInv, InChunks, AtBlock, Ordered, NoAbort
<1>6. CASE cookie = EmptyCookie(Len(left.bytes)) /\ rd = [Idle EXCEPT !.pc = "normal"]
  <2>1. cookie = EmptyCookie(Len(disk["in"])) /\ cookie.len = Len(disk["in"])
    BY <1>3, <1>6 DEF EmptyCookie
  <2>2. Typed
    BY <1>2, <1>3, <1>4, <1>6, <2>1 DEF Typed, Idle
  <2>3. rd.pc = "normal" /\ rd.cur_block = 0 /\ fd.pos = 0
    BY <1>2, <1>6 DEF Idle
  <2>4. AtBlock
    BY <1>3, <2>1, <2>3, SizesAssumption DEF AtBlock
  <2>5. Ordered
    BY <1>4, <2>1 DEF Ordered
  <2> QED BY <2>2, <2>3, <2>4, <2>5 DEF RInv, InChunks, NoAbort
<1> QED BY <1>2, <1>5, <1>6

(* import_auto starts again with a plain cookie that is empty.             *)
LEMMA RefuseKeeps ==
  ASSUME RInv, disk' = disk, NEW n \in {0, 1}, Refuse(n)
  PROVE  RInv'
<1>1. fd' = [path |-> "in", pos |-> 0]
  BY DEF RInv, Typed, Refuse
<1>2. Bytes = disk["in"] /\ Bytes' = disk["in"] /\ (EmptyChunk' <=> EmptyChunk) /\ fd'.path = "in"
  BY <1>1, SameFile DEF RInv
<1>3. Fits(disk["in"]) /\ Len(disk["in"]) \in Nat
  BY LenProperties DEF RInv, Typed, Fits, Words
<1>4. /\ rd' = [pc |-> IF rd.auto THEN "normal" ELSE "done", auto |-> rd.auto, crc |-> FALSE,
                hdr |-> NULL, i |-> 0, cur_block |-> 0, crc32 |-> <<>>, faults |-> rd.faults + n]
      /\ rd.faults + n \in Nat
  <2>1. rd.faults + n \in Nat
    BY DEF RInv, Typed
  <2>2. rd' = [Idle EXCEPT !.pc = IF rd.auto THEN "normal" ELSE "done", !.auto = rd.auto,
                           !.faults = rd.faults + n]
    BY DEF Refuse
  <2> QED BY <2>1, <2>2 DEF Idle
<1>5. EmptyCookie(Len(disk["in"])) \in Cookies /\ \A m : Kept(EmptyCookie(Len(disk["in"])), m)
  BY <1>3, EmptyKept
<1>6. CASE rd.auto
  <2>1. cookie' = EmptyCookie(Len(disk["in"])) /\ cookie'.len = Len(disk["in"])
    BY <1>2, <1>6 DEF Refuse, EmptyCookie
  <2>2. Typed'
    BY <1>1, <1>3, <1>4, <1>5, <1>6, <2>1 DEF Typed
  <2>3. rd'.pc = "normal" /\ rd'.cur_block = 0 /\ fd'.pos = 0
    BY <1>1, <1>4, <1>6
  <2>4. AtBlock'
    BY <1>3, <2>1, <2>3, SizesAssumption DEF AtBlock
  <2>5. Ordered'
    BY <1>5, <2>1 DEF Ordered
  <2> QED BY <2>2, <2>3, <2>4, <2>5 DEF RInv, InChunks, NoAbort
<1>7. CASE ~rd.auto
  <2>1. cookie' = NULL /\ rd'.pc = "done"
    BY <1>4, <1>7 DEF Refuse
  <2>2. Typed'
    BY <1>1, <1>3, <1>4, <1>7, <2>1 DEF Typed
  <2> QED BY <2>1, <2>2 DEF RInv, InChunks, AtBlock, Ordered, NoAbort
<1> QED BY <1>6, <1>7

LEMMA HeaderTyped ==
  ASSUME NEW bytes, Words(bytes), NEW h, h = HeaderOf(bytes), Supported(h)
  PROVE  h \in Headers /\ h.chunk_hdr_sz >= ChunkHeaderLen
<1>1. h = Record(bytes, "header", 0, HeaderLen) /\ h # NULL
  BY DEF HeaderOf, Supported
<1>2. 0 + HeaderLen =< Len(bytes) /\ bytes[0+1][1] = "header" /\ h = bytes[0+1][2]
  BY <1>1 DEF Record
<1>3. 1 \in DOMAIN bytes
  BY <1>2, LenProperties, ReaderAssumption DEF Words
<1> QED BY <1>2, <1>3 DEF Words, Supported

(* Where a chunk header is read, the file has one.                         *)
LEMMA ChunkTyped ==
  ASSUME NEW bytes, Words(bytes), NEW pos \in Nat, NEW c,
         c = Record(bytes, "chunk", pos, ChunkHeaderLen), c # NULL
  PROVE  /\ c \in Chunks /\ pos + 1 \in DOMAIN bytes /\ bytes[pos+1][1] = "chunk"
         /\ bytes[pos+1][2] = c /\ BlocksAt(bytes[pos+1]) = c.chunk_sz
<1>1. /\ pos + ChunkHeaderLen =< Len(bytes) /\ bytes[pos+1][1] = "chunk" /\ c = bytes[pos+1][2]
      /\ \A j \in 1 .. ChunkHeaderLen : bytes[pos+j] = <<"chunk", bytes[pos+1][2], j>>
  BY DEF Record
<1>2. ChunkHeaderLen \in Nat \ {0} /\ Len(bytes) \in Nat /\ DOMAIN bytes = 1 .. Len(bytes)
  BY ReaderAssumption, LenProperties DEF Words
<1>3. pos + 1 \in DOMAIN bytes /\ 1 \in 1 .. ChunkHeaderLen
  BY <1>1, <1>2
<1>4. bytes[pos+1][3] = 1
  BY <1>1, <1>3
<1> QED BY <1>1, <1>3, <1>4 DEF Words, BlocksAt, Begins

(* Behind a chunk header the file has announced its blocks, and never more *)
(* than the image has.                                                     *)
LEMMA ChunkCounted ==
  ASSUME Typed, NEW q \in Nat, fd.pos + 1 \in DOMAIN disk["in"], fd.pos + 1 =< q
  PROVE  /\ Announced(disk["in"], Reached(fd.pos)) + BlocksAt(disk["in"][fd.pos+1])
              =< Announced(disk["in"], Reached(q))
         /\ Announced(disk["in"], Reached(fd.pos)) \in Nat
         /\ Announced(disk["in"], Reached(q)) \in Nat
         /\ BlocksAt(disk["in"][fd.pos+1]) \in Nat
         /\ Announced(disk["in"], Reached(q)) =< Blocks
<1> DEFINE bytes == disk["in"]
           n == Len(bytes)
           p == fd.pos
<1>1. /\ Words(bytes) /\ n \in Nat /\ DOMAIN bytes = 1 .. n /\ p \in Nat
      /\ Announced(bytes, n) =< Blocks
  BY LenProperties DEF Typed, Fits, Words
<1>2. Reached(p) = p /\ Reached(q) = IF q =< n THEN q ELSE n
  BY <1>1 DEF Reached
<1> HIDE DEF bytes, n, p
<1>3. p \in 0 .. n - 1 /\ p + 1 =< q /\ p + 1 \in 0 .. n /\ Reached(q) \in p + 1 .. n /\ n \in Reached(q) .. n
      /\ Reached(q) \in 0 .. n /\ n \in 0 .. n
  BY <1>1, <1>2 DEF bytes, p
<1>4. /\ Announced(bytes, p + 1) = Announced(bytes, p) + BlocksAt(bytes[p+1])
      /\ Announced(bytes, p) \in Nat /\ Announced(bytes, p + 1) \in Nat
  BY <1>1, <1>3, AnnouncedNext DEF n
<1>5. Announced(bytes, p + 1) =< Announced(bytes, Reached(q))
  BY <1>1, <1>3, AnnouncedUpto DEF n
<1>6. Announced(bytes, Reached(q)) =< Announced(bytes, n)
  BY <1>1, <1>3, AnnouncedUpto DEF n
<1>7. Announced(bytes, Reached(q)) \in Nat /\ Announced(bytes, n) \in Nat
  BY <1>1, <1>3, AnnouncedNat DEF n
<1>8. BlocksAt(bytes[p+1]) \in Nat
  <2>1. p + 1 \in DOMAIN bytes
    BY <1>1, <1>3
  <2> QED BY <1>1, <2>1 DEF Words, BlocksAt, Begins, Chunks
<1> QED BY <1>1, <1>2, <1>4, <1>5, <1>6, <1>7, <1>8, SizesAssumption DEF bytes, p

LEMMA FreshFacts ==
  ASSUME cookie \in Cookies, ~NoMemory
  PROVE  Fresh \in Addr
<1>1. Ids(cookie) \subseteq Addr
  <2>1. cookie.list \in Seq(Nodes)
    BY DEF Cookies
  <2> SUFFICES ASSUME NEW i \in DOMAIN cookie.list PROVE cookie.list[i].id \in Addr
    BY DEF Ids
  <2>2. cookie.list[i] \in Nodes
    BY <2>1, LenProperties, ElementOfSeq
  <2> QED BY <2>2 DEF Nodes
<1>2. \E id \in Addr : id \notin Ids(cookie)
  BY <1>1 DEF NoMemory
<1> QED BY <1>2 DEF Fresh

LEMMA BlocksBefore ==
  ASSUME NEW d \in Nat \ {0}, NEW a \in Nat, NEW k \in Nat, NEW l \in Nat, NEW b \in Nat,
         a * d + l =< b * d, d * k < l + d
  PROVE  a + k =< b
<1>1. d * (a + k) = d * a + d * k /\ d * (b + 1) = d * b + d /\ d * a = a * d /\ d * b = b * d
  OBVIOUS
<1>2. d * a \in Nat /\ d * k \in Nat /\ d * b \in Nat
  OBVIOUS
<1>3. d * (a + k) < d * (b + 1)
  BY <1>1, <1>2
<1>4. a + k < b + 1
  <2>1. a + k \in Int /\ b + 1 \in Int
    OBVIOUS
  <2> QED BY <1>3, <2>1, MulLess
<1> QED BY <1>4

(* An extent behind all others shares no block with them.                  *)
LEMMA KeptApart ==
  ASSUME NEW s, NEW x \in Nodes, WellPlaced(x), Kept(s, x.block * BlockSize)
  PROVE  \A i \in DOMAIN s.list : Covered(s.list[i]) \cap Covered(x) = {}
<1> SUFFICES ASSUME NEW i \in DOMAIN s.list PROVE Covered(s.list[i]) \cap Covered(x) = {}
  OBVIOUS
<1> DEFINE y == s.list[i]
<1>1. y \in Nodes /\ WellPlaced(y) /\ End(y) =< x.block * BlockSize
  BY GoodListFacts DEF Kept, ToSet
<1> HIDE DEF y
<1>2. /\ y.block \in Nat /\ NBlocks(y) \in Nat /\ y.len \in Nat /\ x.block \in Nat /\ NBlocks(x) \in Nat
      /\ BlockSize * NBlocks(y) < y.len + BlockSize /\ BlockSize \in Nat \ {0}
  BY <1>1, PlacedFacts, SizesAssumption
<1>3. y.block * BlockSize + y.len =< x.block * BlockSize
  BY <1>1 DEF End
<1>4. y.block + NBlocks(y) =< x.block
  BY <1>2, <1>3, BlocksBefore
<1>5. \A b \in Covered(y) : b \in Int /\ b < x.block
  BY <1>2, <1>4 DEF Covered
<1>6. \A b \in Covered(x) : b \in Int /\ x.block =< b
  BY <1>2 DEF Covered
<1>7. \A b : ~(b \in Covered(y) /\ b \in Covered(x))
  BY <1>2, <1>5, <1>6
<1> QED BY <1>7 DEF y

(* An extent that is added behind all others.                              *)
LEMMA AddKept ==
  ASSUME NEW s \in Cookies, NEW x \in Nodes, WellPlaced(x), Kept(s, x.block * BlockSize)
  PROVE  LET q == Queue([list |-> s.list, last_used |-> s.last_used], x)
         IN /\ QueueAsserts(s, x)
            /\ \A m \in Int : End(x) =< m =>
                 Kept([list |-> q.list, last_used |-> q.last_used, len |-> s.len], m)
<1> DEFINE bl == [list |-> s.list, last_used |-> s.last_used]
           q == Queue(bl, x)
           list == s.list
           n == Len(list)
<1>1. /\ bl \in Lists /\ GoodList(list) /\ bl.list = list /\ bl.last_used = s.last_used
      /\ bl.last_used # NULL => bl.last_used \in Ids(bl)
      /\ \A y \in ToSet(list) : End(y) =< x.block * BlockSize
  BY DEF Cookies, Lists, Kept, Ids
<1>2. n \in Nat /\ DOMAIN list = 1 .. n /\ \A i \in 1 .. n : list[i] \in Nodes /\ WellPlaced(list[i])
  BY <1>1, GoodListFacts
<1>3. \A i \in 1 .. n : Covered(list[i]) \cap Covered(x) = {}
  BY <1>2, KeptApart
<1> HIDE DEF bl
<1>4. \A i \in DOMAIN bl.list : Covered(bl.list[i]) \cap Covered(x) = {}
  BY <1>1, <1>2, <1>3
<1>5. GoodList(bl.list) /\ bl \in [list : Seq(Nodes), last_used : Addr \cup {NULL}]
  BY <1>1 DEF Lists
<1>6. /\ QueueAsserts(bl, x) /\ GoodList(q.list)
      /\ q.last_used # NULL => q.last_used \in Ids(q)
  BY <1>1, <1>4, <1>5, QueueFacts
<1>7. ASSUME NEW m \in Int, End(x) =< m PROVE \A y \in ToSet(q.list) : End(y) =< m
  <2>1. x.block * BlockSize =< End(x) /\ x.block * BlockSize \in Int /\ End(x) \in Int
    BY PlacedFacts, SizesAssumption DEF End
  <2>2. \A y \in ToSet(bl.list) : End(y) =< m
    <3> SUFFICES ASSUME NEW y \in ToSet(bl.list) PROVE End(y) =< m
      OBVIOUS
    <3>1. y \in Nodes /\ WellPlaced(y)
      BY <1>1, <1>2 DEF ToSet
    <3>2. End(y) \in Int
      BY <3>1, PlacedFacts, SizesAssumption DEF End
    <3> QED BY <1>1, <1>7, <2>1, <3>2
  <2> QED BY <1>1, <1>4, <1>5, <1>7, <2>2, QueueEnds
<1>8. QueueAsserts(s, x)
  <2>1. s.list = bl.list /\ s.last_used = bl.last_used
    BY <1>1
  <2>2. BeforeHead(s, x) <=> BeforeHead(bl, x)
    BY <2>1 DEF BeforeHead
  <2>3. SearchStart(s, x) = SearchStart(bl, x)
    BY <2>1 DEF SearchStart
  <2>4. Predecessor(s, x) = Predecessor(bl, x)
    BY <2>1, <2>3 DEF Predecessor
  <2> QED BY <1>6, <2>1, <2>2, <2>4 DEF QueueAsserts
<1> DEFINE t == [list |-> q.list, last_used |-> q.last_used, len |-> s.len]
<1>9. t.list = q.list /\ t.last_used = q.last_used
  OBVIOUS
<1>10. ASSUME NEW m \in Int, End(x) =< m PROVE Kept(t, m)
  <2> HIDE DEF t
  <2>1. Ids(t) = Ids(q)
    BY <1>9 DEF Ids
  <2> QED BY <1>6, <1>7, <1>9, <1>10, <2>1 DEF Kept
<1> QED BY <1>8, <1>10 DEF bl

(* The sparse reader goes on behind a chunk.                               *)
LEMMA AdvanceKeeps ==
  ASSUME RInv, disk' = disk, rd.pc = "chunk",
         NEW pos \in Nat, NEW blocks \in Nat, NEW sum, Advance(pos, blocks, sum),
         rd.cur_block + blocks =< Announced(disk["in"], Reached(pos)),
         cookie' \in Cookies, cookie'.len = cookie.len,
         ~EmptyChunk => Kept(cookie', (rd.cur_block + blocks) * BlockSize)
  PROVE  RInv'
<1>1. fd' = [path |-> "in", pos |-> pos]
  BY DEF RInv, Typed, Advance
<1>2. EmptyChunk' <=> EmptyChunk
  <2>1. fd'.path = "in"
    BY <1>1
  <2> QED BY <2>1, SameFile DEF RInv
<1>3. \E crc32 : rd' = [pc |-> "chunk", auto |-> rd.auto, crc |-> rd.crc, hdr |-> rd.hdr, i |-> rd.i + 1,
                        cur_block |-> rd.cur_block + blocks, crc32 |-> crc32, faults |-> rd.faults]
  <2> DEFINE all == IF rd.crc THEN rd.crc32 \o sum ELSE rd.crc32
  <2>1. rd' = [rd EXCEPT !.i = rd.i + 1, !.cur_block = rd.cur_block + blocks, !.crc32 = all]
    BY DEF Advance
  <2>2. rd = [pc |-> "chunk", auto |-> rd.auto, crc |-> rd.crc, hdr |-> rd.hdr, i |-> rd.i,
              cur_block |-> rd.cur_block, crc32 |-> rd.crc32, faults |-> rd.faults]
    BY DEF RInv, Typed
  <2> HIDE DEF all
  <2>3. rd' = [pc |-> "chunk", auto |-> rd.auto, crc |-> rd.crc, hdr |-> rd.hdr, i |-> rd.i + 1,
               cur_block |-> rd.cur_block + blocks, crc32 |-> all, faults |-> rd.faults]
    BY <2>1, <2>2
  <2> QED BY <2>3
<1>4. PICK crc32 : rd' = [pc |-> "chunk", auto |-> rd.auto, crc |-> rd.crc, hdr |-> rd.hdr, i |-> rd.i + 1,
                          cur_block |-> rd.cur_block + blocks, crc32 |-> crc32, faults |-> rd.faults]
  BY <1>3
<1>5. rd.i + 1 \in Nat /\ rd.cur_block + blocks \in Nat /\ rd.faults \in Nat
  BY DEF RInv, Typed
<1>6. Typed'
  BY <1>1, <1>4, <1>5 DEF RInv, Typed
<1>7. rd'.pc = "chunk" /\ rd'.cur_block = rd.cur_block + blocks /\ rd'.hdr = rd.hdr /\ fd'.pos = pos
  BY <1>1, <1>4
<1>8. InChunks'
  <2>1. Announced(disk["in"], Reached(pos))' = Announced(disk["in"], Reached(pos))
    BY DEF Reached
  <2>2. Announced(disk["in"], Reached(fd.pos))' = Announced(disk["in"], Reached(pos))
    BY <1>7 DEF Reached
  <2> QED BY <1>7, <2>2 DEF RInv, InChunks
<1>9. Ordered'
  BY <1>2, <1>7 DEF Ordered
<1> QED BY <1>6, <1>7, <1>8, <1>9 DEF RInv, AtBlock, NoAbort

LEMMA AbortKeeps ==
  ASSUME RInv, disk' = disk, cookie \in Cookies, EmptyChunk, Abort
  PROVE  RInv'
<1>1. fd' = fd /\ cookie' = cookie /\ fd'.path = "in"
  BY DEF RInv, Typed, Abort
<1>2. EmptyChunk' <=> EmptyChunk
  BY <1>1, SameFile DEF RInv
<1>3. rd' = [pc |-> "aborted", auto |-> rd.auto, crc |-> rd.crc, hdr |-> rd.hdr, i |-> rd.i,
             cur_block |-> rd.cur_block, crc32 |-> rd.crc32, faults |-> rd.faults]
  BY DEF RInv, Typed, Abort
<1>4. Typed'
  BY <1>1, <1>3 DEF RInv, Typed
<1>5. rd'.pc = "aborted"
  BY <1>3
<1> QED BY <1>2, <1>4, <1>5 DEF RInv, InChunks, AtBlock, Ordered, NoAbort

LEMMA AddTyped ==
  ASSUME cookie \in Cookies, NEW x \in Nodes, AddExtent(x)
  PROVE  cookie' \in Cookies /\ cookie'.len = cookie.len
<1> DEFINE bl == [list |-> cookie.list, last_used |-> cookie.last_used]
           q  == Queue(bl, x)
<1>1. bl \in Lists
  BY DEF Cookies, Lists
<1>2. q \in Lists
  BY <1>1, QueueTyped
<1>3. cookie' = [list |-> q.list, last_used |-> q.last_used, len |-> cookie.len]
  BY DEF AddExtent
<1> HIDE DEF q
<1> QED BY <1>2, <1>3 DEF Cookies, Lists

(* An extent of the chunk that is read, as its length allows.              *)
LEMMA StoreKeeps ==
  ASSUME RInv, disk' = disk, rd.pc = "chunk",
         NEW x, NEW complete, NEW pos \in Nat, NEW blocks \in Nat, NEW sum,
         Store(x, complete, pos, blocks, sum),
         Fresh \in Addr => x \in Nodes, x.block = rd.cur_block,
         rd.cur_block + blocks =< Announced(disk["in"], Reached(pos)),
         ~EmptyChunk /\ x \in Nodes => WellPlaced(x) /\ End(x) =< (rd.cur_block + blocks) * BlockSize
  PROVE  RInv'
<1>1. cookie \in Cookies /\ (~EmptyChunk => Kept(cookie, x.block * BlockSize))
  BY DEF RInv, Typed, Ordered
<1>2. CASE Refuse(1) \/ Refuse(0)
  BY <1>2, RefuseKeeps
<1>3. CASE ~NoMemory /\ ~QueueAsserts(cookie, x) /\ Abort
  <2>1. x \in Nodes
    BY <1>1, <1>3, FreshFacts
  <2>2. EmptyChunk
    <3> SUFFICES ASSUME ~EmptyChunk PROVE FALSE
      OBVIOUS
    <3>1. WellPlaced(x) /\ Kept(cookie, x.block * BlockSize)
      BY <1>1, <2>1
    <3> QED BY <1>1, <1>3, <2>1, <3>1, AddKept
  <2> QED BY <1>1, <1>3, <2>2, AbortKeeps
<1>4. CASE ~NoMemory /\ AddExtent(x) /\ Advance(pos, blocks, sum)
  <2>1. x \in Nodes
    BY <1>1, <1>4, FreshFacts
  <2>2. cookie' \in Cookies /\ cookie'.len = cookie.len
    BY <1>1, <1>4, <2>1, AddTyped
  <2>3. ASSUME ~EmptyChunk PROVE Kept(cookie', (rd.cur_block + blocks) * BlockSize)
    <3> DEFINE m == (rd.cur_block + blocks) * BlockSize
               q == Queue([list |-> cookie.list, last_used |-> cookie.last_used], x)
    <3>1. WellPlaced(x) /\ End(x) =< m /\ Kept(cookie, x.block * BlockSize)
      BY <1>1, <2>1, <2>3
    <3>2. m \in Int
      BY SizesAssumption DEF RInv, Typed
    <3>3. cookie' = [list |-> q.list, last_used |-> q.last_used, len |-> cookie.len]
      BY <1>4 DEF AddExtent
    <3> HIDE DEF m
    <3>4. \A k \in Int : End(x) =< k => Kept([list |-> q.list, last_used |-> q.last_used, len |-> cookie.len], k)
      BY <1>1, <2>1, <3>1, AddKept
    <3> HIDE DEF q
    <3>5. Kept(cookie', m)
      BY <3>1, <3>2, <3>3, <3>4
    <3> QED BY <3>5 DEF m
  <2> QED BY <1>4, <2>2, <2>3, AdvanceKeeps
<1> QED BY <1>2, <1>3, <1>4 DEF Store

(* The chunk at the position of the reader.                                *)
LEMMA AtChunk ==
  ASSUME RInv, rd.pc = "chunk",
         NEW c, c = Record(Bytes, "chunk", fd.pos, ChunkHeaderLen), c # NULL
  PROVE  /\ Bytes = disk["in"] /\ c \in Chunks /\ cookie \in Cookies
         /\ BodyAt \in Nat /\ rd.cur_block + c.chunk_sz =< Blocks
         /\ \A q \in Nat : BodyAt =< q =>
              /\ rd.cur_block + c.chunk_sz =< Announced(disk["in"], Reached(q))
              /\ rd.cur_block + 0 =< Announced(disk["in"], Reached(q))
         /\ ~EmptyChunk /\ c.chunk_type \in {"raw", "fill"} => c.chunk_sz # 0
<1>1. /\ Bytes = disk["in"] /\ fd.pos \in Nat /\ Words(disk["in"]) /\ Typed /\ rd.cur_block \in Nat
      /\ cookie \in Cookies
  BY DEF RInv, Typed, Fits, Bytes
<1>2. /\ c \in Chunks /\ fd.pos + 1 \in DOMAIN disk["in"] /\ disk["in"][fd.pos+1][1] = "chunk"
      /\ disk["in"][fd.pos+1][2] = c /\ BlocksAt(disk["in"][fd.pos+1]) = c.chunk_sz
  BY <1>1, ChunkTyped
<1>3. BodyAt \in Nat /\ fd.pos + 1 =< BodyAt
  BY <1>1, ReaderAssumption DEF RInv, InChunks, Headers, BodyAt
<1>4. c.chunk_sz \in Nat
  BY <1>2 DEF Chunks
<1>5. ASSUME NEW q \in Nat, BodyAt =< q
      PROVE  /\ rd.cur_block + c.chunk_sz =< Announced(disk["in"], Reached(q))
             /\ rd.cur_block + 0 =< Announced(disk["in"], Reached(q))
             /\ rd.cur_block + c.chunk_sz =< Blocks
  <2>1. fd.pos + 1 =< q
    BY <1>1, <1>3, <1>5
  <2>2. /\ Announced(disk["in"], Reached(fd.pos)) + c.chunk_sz =< Announced(disk["in"], Reached(q))
        /\ Announced(disk["in"], Reached(fd.pos)) \in Nat
        /\ Announced(disk["in"], Reached(q)) \in Nat
        /\ Announced(disk["in"], Reached(q)) =< Blocks
    BY <1>1, <1>2, <2>1, ChunkCounted
  <2>3. rd.cur_block =< Announced(disk["in"], Reached(fd.pos))
    BY DEF RInv, InChunks
  <2> QED BY <1>1, <1>4, <2>2, <2>3, SizesAssumption
<1>6. rd.cur_block + c.chunk_sz =< Blocks
  <2>1. BodyAt =< BodyAt
    BY <1>3
  <2> QED BY <1>3, <1>5, <2>1
<1>7. ~EmptyChunk /\ c.chunk_type \in {"raw", "fill"} => c.chunk_sz # 0
  BY <1>1, <1>2 DEF EmptyChunk
<1> QED BY <1>1, <1>2, <1>3, <1>5, <1>6, <1>7

(* An extent of whole blocks inside the image.                             *)
LEMMA PieceFacts ==
  ASSUME NEW type \in Types, NEW src \in Srcs, NEW off \in Nat, NEW size \in Nat,
         NEW blocks \in Nat, rd.cur_block \in Nat, rd.cur_block + blocks =< Blocks,
         size = blocks * BlockSize
  PROVE  LET x == Piece(type, src, off, size)
         IN /\ Fresh \in Addr => x \in Nodes
            /\ x.block = rd.cur_block
            /\ blocks # 0 => WellPlaced(x) /\ End(x) =< (rd.cur_block + blocks) * BlockSize
<1> DEFINE b == rd.cur_block
<1>1. b \in Nat /\ b + blocks =< Blocks /\ BlockSize \in Nat \ {0} /\ Blocks \in Nat /\ UIntMod \in Nat \ {0}
      /\ (Blocks + 1) * BlockSize =< UIntMod
  BY SizesAssumption, ImageFits
<1> HIDE DEF b
<1>2. (b + blocks) * BlockSize = b * BlockSize + size /\ (b + blocks) * BlockSize =< Blocks * BlockSize
  <2>1. (b + blocks) * BlockSize = b * BlockSize + blocks * BlockSize
    BY <1>1
  <2>2. BlockSize * (b + blocks) =< BlockSize * Blocks
    <3>1. b + blocks \in Int /\ Blocks \in Int
      BY <1>1
    <3> QED BY <1>1, <3>1, MulLess
  <2>3. BlockSize * (b + blocks) = (b + blocks) * BlockSize /\ BlockSize * Blocks = Blocks * BlockSize
    BY <1>1
  <2> QED BY <2>1, <2>2, <2>3
<1>3. (Blocks + 1) * BlockSize = Blocks * BlockSize + BlockSize /\ Blocks * BlockSize \in Nat /\ b * BlockSize \in Nat
      /\ Blocks =< Blocks * BlockSize
  BY <1>1
<1>4. size < UIntMod /\ b < UIntMod
  BY <1>1, <1>2, <1>3
<1>5. U(size) = size /\ size \in UInt /\ b \in UInt
  BY <1>1, <1>4 DEF U, UInt
<1> DEFINE x == Piece(type, src, off, size)
<1>6. x = [id |-> Fresh, type |-> type, src |-> src, off |-> off, len |-> size, block |-> b]
  BY <1>5 DEF Piece, b
<1> HIDE DEF x
<1>7. Fresh \in Addr => x \in Nodes
  BY <1>5, <1>6 DEF Nodes
<1>8. x.block = b /\ x.len = size
  BY <1>6
<1>9. blocks # 0 => size > 0
  BY <1>1
<1>10. x.block * BlockSize + x.len =< Blocks * BlockSize /\ End(x) =< (b + blocks) * BlockSize
  BY <1>1, <1>2, <1>3, <1>8 DEF End
<1> QED BY <1>7, <1>8, <1>9, <1>10 DEF WellPlaced, x, b

LEMMA RawKeeps ==
  ASSUME RInv, disk' = disk, rd.pc = "chunk",
         NEW c, c = Record(Bytes, "chunk", fd.pos, ChunkHeaderLen), c # NULL, c.chunk_type = "raw",
         NEW size \in UInt, RawChunk(c.chunk_sz, size)
  PROVE  RInv'
<1> DEFINE b == c.chunk_sz
           x == Piece("fd", <<"path", fd.path>>, BodyAt, size)
           complete == rd.crc => Readable(BodyAt, size)
           sum == IF rd.crc THEN Slice(BodyAt, size) ELSE <<>>
<1>1. CASE size # b * BlockSize
  BY <1>1, RefuseKeeps DEF RawChunk
<1>2. CASE size = b * BlockSize
  <2>1. /\ b \in Nat /\ BodyAt \in Nat /\ rd.cur_block + b =< Blocks
        /\ \A q \in Nat : BodyAt =< q => rd.cur_block + b =< Announced(disk["in"], Reached(q))
        /\ ~EmptyChunk => b # 0
    BY AtChunk DEF Chunks
  <2>2. size \in Nat /\ BodyAt + size \in Nat /\ BodyAt =< BodyAt + size /\ rd.cur_block \in Nat
    BY <2>1, SizesAssumption DEF UInt, RInv, Typed
  <2>3. "fd" \in Types /\ <<"path", fd.path>> \in Srcs
    <3>1. fd.path = "in"
      BY DEF RInv, Typed
    <3>2. <<"path", "in">> \in Srcs
      BY FilesAssumption
    <3> QED BY <3>1, <3>2 DEF Types
  <2>4. Store(x, complete, BodyAt + size, b, sum)
    BY <1>2 DEF RawChunk
  <2> HIDE DEF complete, sum, b
  <2>5. /\ Fresh \in Addr => x \in Nodes
        /\ x.block = rd.cur_block
        /\ b # 0 => WellPlaced(x) /\ End(x) =< (rd.cur_block + b) * BlockSize
    BY <1>2, <2>1, <2>2, <2>3, PieceFacts
  <2> HIDE DEF x
  <2> QED BY <2>1, <2>2, <2>4, <2>5, StoreKeeps
<1> QED BY <1>1, <1>2

LEMMA FillKeeps ==
  ASSUME RInv, disk' = disk, rd.pc = "chunk",
         NEW c, c = Record(Bytes, "chunk", fd.pos, ChunkHeaderLen), c # NULL, c.chunk_type = "fill",
         NEW size, FillChunk(c.chunk_sz, size)
  PROVE  RInv'
<1> DEFINE b == c.chunk_sz
           word == Bytes[BodyAt + 1]
           x == Piece("fill", word, 0, b * BlockSize)
           sum == [k \in 1 .. b * BlockSize |-> word]
<1>1. CASE size # WordLen \/ ~Readable(BodyAt, WordLen)
  BY <1>1, RefuseKeeps DEF FillChunk
<1>2. CASE ~(size # WordLen \/ ~Readable(BodyAt, WordLen))
  <2>1. /\ b \in Nat /\ BodyAt \in Nat /\ rd.cur_block + b =< Blocks /\ Bytes = disk["in"]
        /\ \A q \in Nat : BodyAt =< q => rd.cur_block + b =< Announced(disk["in"], Reached(q))
        /\ ~EmptyChunk => b # 0
    BY AtChunk DEF Chunks
  <2>2. WordLen = 1 /\ BodyAt + WordLen \in Nat /\ BodyAt =< BodyAt + WordLen /\ rd.cur_block \in Nat
    BY <2>1, ReaderAssumption DEF RInv, Typed
  <2>3. "fill" \in Types /\ word \in Srcs
    <3>1. disk["in"] \in Seq(Srcs) /\ BodyAt + 1 =< Len(disk["in"])
      BY <1>2, <2>1, <2>2 DEF Readable, RInv, Typed, Fits, Words
    <3>2. BodyAt + 1 \in 1 .. Len(disk["in"])
      BY <2>1, <3>1, LenProperties
    <3> QED BY <2>1, <3>1, <3>2, ElementOfSeq DEF Types
  <2>4. Store(x, TRUE, BodyAt + WordLen, b, sum)
    BY <1>2 DEF FillChunk
  <2>5. b * BlockSize \in Nat
    BY <2>1, SizesAssumption
  <2> HIDE DEF sum, b, word
  <2>6. /\ Fresh \in Addr => x \in Nodes
        /\ x.block = rd.cur_block
        /\ b # 0 => WellPlaced(x) /\ End(x) =< (rd.cur_block + b) * BlockSize
    BY <2>1, <2>2, <2>3, <2>5, PieceFacts
  <2> HIDE DEF x
  <2> QED BY <2>1, <2>2, <2>4, <2>6, StoreKeeps
<1> QED BY <1>1, <1>2

(* The chunks that store nothing move the end of the list no nearer.       *)
LEMMA KeptLonger ==
  ASSUME NEW s, NEW m \in Int, NEW n \in Int, Kept(s, m), m =< n
  PROVE  Kept(s, n)
<1>1. \A x \in ToSet(s.list) : End(x) =< m /\ End(x) \in Int
  <2>1. \A x \in ToSet(s.list) : x \in Nodes /\ WellPlaced(x)
    BY GoodListFacts DEF Kept, ToSet
  <2> QED BY <2>1, PlacedFacts, SizesAssumption DEF Kept, End
<1> QED BY <1>1 DEF Kept

LEMMA PassKeeps ==
  ASSUME RInv, disk' = disk, rd.pc = "chunk",
         NEW pos \in Nat, NEW blocks \in Nat, NEW sum, Advance(pos, blocks, sum), UNCHANGED cookie,
         rd.cur_block + blocks =< Announced(disk["in"], Reached(pos))
  PROVE  RInv'
<1>1. cookie \in Cookies /\ rd.cur_block \in Nat
  BY DEF RInv, Typed
<1>2. ASSUME ~EmptyChunk PROVE Kept(cookie, (rd.cur_block + blocks) * BlockSize)
  <2>1. Kept(cookie, rd.cur_block * BlockSize)
    BY <1>2 DEF RInv, Ordered
  <2>2. /\ rd.cur_block * BlockSize \in Int /\ (rd.cur_block + blocks) * BlockSize \in Int
        /\ rd.cur_block * BlockSize =< (rd.cur_block + blocks) * BlockSize
    BY <1>1, SizesAssumption
  <2> QED BY <2>1, <2>2, KeptLonger
<1> QED BY <1>1, <1>2, AdvanceKeeps

LEMMA SkipKeeps ==
  ASSUME RInv, disk' = disk, rd.pc = "chunk",
         NEW c, c = Record(Bytes, "chunk", fd.pos, ChunkHeaderLen), c # NULL,
         NEW size, SkipChunk(c.chunk_sz, size)
  PROVE  RInv'
<1> DEFINE b == c.chunk_sz
           sum == [k \in 1 .. b * BlockSize |-> Zero]
<1>1. CASE size # 0
  BY <1>1, RefuseKeeps DEF SkipChunk
<1>2. CASE size = 0
  <2>1. /\ b \in Nat /\ BodyAt \in Nat
        /\ \A q \in Nat : BodyAt =< q => rd.cur_block + b =< Announced(disk["in"], Reached(q))
    BY AtChunk DEF Chunks
  <2>2. Advance(BodyAt, b, sum) /\ UNCHANGED cookie
    BY <1>2 DEF SkipChunk
  <2>3. BodyAt =< BodyAt
    BY <2>1
  <2> HIDE DEF sum, b
  <2> QED BY <2>1, <2>2, <2>3, PassKeeps
<1> QED BY <1>1, <1>2

LEMMA CrcKeeps ==
  ASSUME RInv, disk' = disk, rd.pc = "chunk",
         NEW c, c = Record(Bytes, "chunk", fd.pos, ChunkHeaderLen), c # NULL,
         NEW size, CrcChunk(size)
  PROVE  RInv'
<1>1. CASE Refuse(0)
  BY <1>1, RefuseKeeps
<1>2. CASE Advance(BodyAt + WordLen, 0, <<>>) /\ UNCHANGED cookie
  <2>1. /\ BodyAt \in Nat
        /\ \A q \in Nat : BodyAt =< q => rd.cur_block + 0 =< Announced(disk["in"], Reached(q))
    BY AtChunk
  <2>2. BodyAt + WordLen \in Nat /\ BodyAt =< BodyAt + WordLen
    BY <2>1, ReaderAssumption
  <2> QED BY <1>2, <2>1, <2>2, PassKeeps
<1> QED BY <1>1, <1>2 DEF CrcChunk

LEMMA UnknownKeeps ==
  ASSUME RInv, disk' = disk, rd.pc = "chunk", Readable(fd.pos, ChunkHeaderLen), UnknownChunk
  PROVE  RInv'
<1>1. /\ fd.pos \in Nat /\ Typed /\ rd.cur_block \in Nat /\ Bytes = disk["in"] /\ Words(disk["in"])
      /\ Len(disk["in"]) \in Nat /\ DOMAIN disk["in"] = 1 .. Len(disk["in"])
  BY LenProperties DEF RInv, Typed, Fits, Words, Bytes
<1>2. BodyAt \in Nat /\ fd.pos + 1 =< BodyAt
  BY <1>1, ReaderAssumption, SMTT(40) DEF RInv, InChunks, Headers, BodyAt
<1>3. fd.pos + 1 \in DOMAIN disk["in"]
  BY <1>1, ReaderAssumption DEF Readable
<1>4. rd.cur_block + 0 =< Announced(disk["in"], Reached(BodyAt))
  <2>1. rd.cur_block =< Announced(disk["in"], Reached(fd.pos))
    BY DEF RInv, InChunks
  <2>2. /\ Announced(disk["in"], Reached(fd.pos)) + BlocksAt(disk["in"][fd.pos+1])
              =< Announced(disk["in"], Reached(BodyAt))
        /\ Announced(disk["in"], Reached(fd.pos)) \in Nat
        /\ Announced(disk["in"], Reached(BodyAt)) \in Nat
        /\ BlocksAt(disk["in"][fd.pos+1]) \in Nat
    BY <1>1, <1>2, <1>3, ChunkCounted
  <2> QED BY <1>1, <2>1, <2>2
<1>5. Advance(BodyAt, 0, <<>>) /\ UNCHANGED cookie
  BY DEF UnknownChunk
<1> QED BY <1>2, <1>4, <1>5, PassKeeps

LEMMA ReadChunkKeeps == ASSUME RInv, disk' = disk, ReadChunk PROVE RInv'
<1> DEFINE c    == Record(Bytes, "chunk", fd.pos, ChunkHeaderLen)
           size == U(c.total_sz - rd.hdr.chunk_hdr_sz)
<1>1. rd.pc = "chunk"
  BY DEF ReadChunk
<1>2. CASE ~Readable(fd.pos, ChunkHeaderLen)
  <2>1. Refuse(0)
    BY <1>2 DEF ReadChunk
  <2> QED BY <2>1, RefuseKeeps
<1>3. CASE Readable(fd.pos, ChunkHeaderLen) /\ c = NULL
  <2>1. UnknownChunk
    BY <1>3 DEF ReadChunk
  <2> QED BY <1>1, <1>3, <2>1, UnknownKeeps
<1>4. CASE Readable(fd.pos, ChunkHeaderLen) /\ c # NULL
  <2>1. size \in UInt
    <3>1. c \in Chunks /\ rd.hdr \in Headers
      BY <1>1, <1>4, AtChunk DEF RInv, InChunks
    <3>2. c.total_sz - rd.hdr.chunk_hdr_sz \in Int
      BY <3>1 DEF Chunks, Headers
    <3> QED BY <3>2, UType
  <2>2. CASE c.chunk_type = "raw"
    <3>1. RawChunk(c.chunk_sz, size)
      BY <1>4, <2>2 DEF ReadChunk
    <3> HIDE DEF size
    <3> QED BY <1>1, <1>4, <2>1, <2>2, <3>1, RawKeeps
  <2>3. CASE c.chunk_type = "fill"
    <3>1. FillChunk(c.chunk_sz, size)
      BY <1>4, <2>3 DEF ReadChunk
    <3> HIDE DEF size
    <3> QED BY <1>1, <1>4, <2>3, <3>1, FillKeeps
  <2>4. CASE c.chunk_type = "dont_care"
    <3>1. SkipChunk(c.chunk_sz, size)
      BY <1>4, <2>4 DEF ReadChunk
    <3> HIDE DEF size
    <3> QED BY <1>1, <1>4, <3>1, SkipKeeps
  <2>5. CASE c.chunk_type = "crc32"
    <3>1. CrcChunk(size)
      BY <1>4, <2>5 DEF ReadChunk
    <3> HIDE DEF size
    <3> QED BY <1>1, <1>4, <3>1, CrcKeeps
  <2>6. CASE c.chunk_type \notin {"raw", "fill", "dont_care", "crc32"}
    <3>1. UnknownChunk
      BY <1>4, <2>6 DEF ReadChunk
    <3> QED BY <1>1, <1>4, <3>1, UnknownKeeps
  <2> QED BY <2>2, <2>3, <2>4, <2>5, <2>6
<1> QED BY <1>2, <1>3, <1>4

LEMMA ReadHeaderKeeps == ASSUME RInv, disk' = disk, ReadHeader PROVE RInv'
<1> DEFINE h == HeaderOf(Bytes)
<1>1. CASE ~Supported(h)
  <2>1. Refuse(0)
    BY <1>1 DEF ReadHeader
  <2> QED BY <2>1, RefuseKeeps
<1>2. CASE Supported(h)
  <2>1. /\ Bytes = disk["in"] /\ Words(disk["in"]) /\ fd.path = "in" /\ rd.i \in Nat /\ rd.faults \in Nat
        /\ Fits(disk["in"])
    BY DEF RInv, Typed, Fits, Bytes
  <2>2. h \in Headers /\ h.chunk_hdr_sz >= ChunkHeaderLen
    <3> DEFINE bytes == Bytes
    <3>1. Words(bytes)
      BY <2>1
    <3> HIDE DEF bytes
    <3>2. \A g : g = HeaderOf(bytes) /\ Supported(g) => g \in Headers /\ g.chunk_hdr_sz >= ChunkHeaderLen
      BY <3>1, HeaderTyped
    <3> QED BY <1>2, <3>2 DEF bytes
  <2> DEFINE len == h.total_blks * BlockSize
  <2>3. /\ fd' = [fd EXCEPT !.pos = h.file_hdr_sz] /\ cookie' = EmptyCookie(len)
        /\ rd' = [rd EXCEPT !.pc = "chunk", !.hdr = h] /\ rd.pc = "header"
    BY <1>2 DEF ReadHeader
  <2> HIDE DEF h
  <2>4. h.file_hdr_sz \in Nat /\ len \in Nat
    BY <2>2, SizesAssumption DEF Headers
  <2>5. fd' = [path |-> "in", pos |-> h.file_hdr_sz]
    BY <2>1, <2>3 DEF RInv, Typed
  <2>6. cookie' \in Cookies /\ (\A m : Kept(EmptyCookie(len), m)) /\ cookie'.len = len
    <3>1. EmptyCookie(len) \in Cookies /\ \A m : Kept(EmptyCookie(len), m)
      BY <2>4, EmptyKept
    <3>2. EmptyCookie(len).len = len
      BY DEF EmptyCookie
    <3> QED BY <2>3, <3>1, <3>2
  <2>7. /\ rd'.pc = "chunk" /\ rd'.hdr = h /\ rd'.cur_block = rd.cur_block
        /\ rd' = [pc |-> "chunk", auto |-> rd.auto, crc |-> rd.crc, hdr |-> h, i |-> rd.i,
                  cur_block |-> rd.cur_block, crc32 |-> rd.crc32, faults |-> rd.faults]
    BY <2>3 DEF RInv, Typed
  <2> HIDE DEF len
  <2>8. Typed'
    BY <2>1, <2>4, <2>5, <2>6, <2>7 DEF RInv, Typed
  <2>9. Ordered'
    BY <2>3, <2>6, <2>7 DEF Ordered
  <2>10. InChunks'
    <3>1. rd'.cur_block = 0
      BY <2>3, <2>7 DEF RInv, Typed
    <3>2. Reached(fd.pos)' \in 0 .. Len(disk["in"])
      BY <2>1, <2>4, <2>5, LenProperties DEF Reached, Words
    <3>3. Announced(disk["in"], Reached(fd.pos))' \in Nat
      BY <2>1, <3>2, AnnouncedNat
    <3> QED BY <2>2, <2>6, <2>7, <3>1, <3>3 DEF InChunks, len
  <2> QED BY <2>7, <2>8, <2>9, <2>10 DEF RInv, AtBlock, NoAbort
<1> QED BY <1>1, <1>2

LEMMA EndOfChunksKeeps == ASSUME RInv, disk' = disk, EndOfChunks PROVE RInv'
<1>1. CASE ~BlocksAgree
  <2>1. Refuse(0)
    BY <1>1 DEF EndOfChunks
  <2> QED BY <2>1, RefuseKeeps
<1>2. CASE BlocksAgree
  <2>1. /\ rd' = [rd EXCEPT !.pc = "done"] /\ fd' = fd /\ cookie' = cookie
        /\ rd.pc = "chunk" /\ rd.hdr.total_blks = rd.cur_block
    BY <1>2 DEF EndOfChunks, BlocksAgree
  <2>2. fd'.path = "in"
    BY <2>1 DEF RInv, Typed
  <2>3. EmptyChunk' <=> EmptyChunk
    BY <2>2, SameFile DEF RInv
  <2>4. /\ rd' = [pc |-> "done", auto |-> rd.auto, crc |-> rd.crc, hdr |-> rd.hdr, i |-> rd.i,
                  cur_block |-> rd.cur_block, crc32 |-> rd.crc32, faults |-> rd.faults]
        /\ rd'.pc = "done"
    BY <2>1 DEF RInv, Typed
  <2>5. Typed'
    BY <2>1, <2>4 DEF RInv, Typed
  <2>6. Ordered'
    BY <2>1, <2>3, <2>4 DEF RInv, InChunks, Ordered
  <2> QED BY <2>4, <2>5, <2>6 DEF RInv, InChunks, AtBlock, NoAbort
<1> QED BY <1>1, <1>2

LEMMA EndOfBlocksKeeps == ASSUME RInv, disk' = disk, EndOfBlocks PROVE RInv'
<1>1. rd' = [rd EXCEPT !.pc = "done"] /\ fd' = fd /\ cookie' = cookie /\ rd.pc = "normal"
  BY DEF EndOfBlocks
<1>2. fd'.path = "in"
  BY <1>1 DEF RInv, Typed
<1>3. EmptyChunk' <=> EmptyChunk
  BY <1>2, SameFile DEF RInv
<1>4. /\ rd' = [pc |-> "done", auto |-> rd.auto, crc |-> rd.crc, hdr |-> rd.hdr, i |-> rd.i,
                cur_block |-> rd.cur_block, crc32 |-> rd.crc32, faults |-> rd.faults]
      /\ rd'.pc = "done"
  BY <1>1 DEF RInv, Typed
<1>5. Typed'
  BY <1>1, <1>4 DEF RInv, Typed
<1>6. Ordered'
  BY <1>1, <1>3, <1>4 DEF RInv, Ordered
<1> QED BY <1>4, <1>5, <1>6 DEF RInv, InChunks, AtBlock, NoAbort

(* The extent of a block of the file, and the one that may be cut short.   *)
LEMMA BlockPiece ==
  ASSUME RInv, rd.pc = "normal", Remain > 0, NEW type \in Types, NEW src \in Srcs, NEW off \in Nat
  PROVE  LET x == Piece(type, src, off, ToRead)
         IN /\ Fresh \in Addr => x \in Nodes
            /\ x.block = rd.cur_block
            /\ WellPlaced(x) /\ End(x) = fd.pos + ToRead
            /\ ToRead \in Nat \ {0} /\ ToRead =< BlockSize /\ fd.pos + ToRead =< cookie.len
            /\ fd.pos = rd.cur_block * BlockSize
            /\ fd.pos + ToRead < cookie.len => ToRead = BlockSize
<1> DEFINE b == rd.cur_block
           len == cookie.len
           n == ToRead
           p == fd.pos
<1>1. /\ b \in Nat /\ p \in Nat /\ p < len /\ p = b * BlockSize /\ len \in Nat /\ len =< Blocks * BlockSize
      /\ n = IF len - p < BlockSize THEN len - p ELSE BlockSize
  <2>1. len = Len(disk["in"]) /\ Len(disk["in"]) \in Nat /\ Len(disk["in"]) =< Blocks * BlockSize
    BY LenProperties DEF RInv, Typed, AtBlock, Fits, Words
  <2>2. b \in Nat /\ p \in Nat
    BY DEF RInv, Typed
  <2>3. p < len
    BY <2>1, <2>2 DEF Remain
  <2> QED BY <2>1, <2>2, <2>3 DEF RInv, AtBlock, ToRead, Remain
<1>2. /\ BlockSize \in Nat \ {0} /\ Blocks \in Nat /\ UIntMod \in Nat \ {0}
      /\ (Blocks + 1) * BlockSize =< UIntMod
  BY SizesAssumption, ImageFits
<1>3. (Blocks + 1) * BlockSize = Blocks * BlockSize + BlockSize /\ Blocks * BlockSize \in Nat
  BY <1>2
<1> DEFINE x == Piece(type, src, off, n)
<1>4. x = [id |-> Fresh, type |-> type, src |-> src, off |-> off, len |-> U(n), block |-> b]
  BY DEF Piece
<1> HIDE DEF b, len, n, p, x
<1>5. n \in Nat \ {0} /\ n =< BlockSize /\ p + n =< len /\ (p + n < len => n = BlockSize)
  BY <1>1, <1>2
<1>6. b =< b * BlockSize
  BY <1>1, <1>2
<1>7. n < UIntMod /\ b < UIntMod
  BY <1>1, <1>2, <1>3, <1>5, <1>6
<1>8. U(n) = n /\ n \in UInt /\ b \in UInt
  BY <1>1, <1>2, <1>5, <1>7 DEF U, UInt
<1>9. Fresh \in Addr => x \in Nodes
  BY <1>4, <1>8 DEF Nodes
<1>10. x.block = b /\ x.len = n
  BY <1>4, <1>8
<1>11. x.block * BlockSize = p
  BY <1>1, <1>10
<1>12. x.len > 0 /\ x.block * BlockSize + x.len =< Blocks * BlockSize
  BY <1>1, <1>3, <1>5, <1>10, <1>11
<1>13. WellPlaced(x) /\ End(x) = p + n
  BY <1>10, <1>11, <1>12 DEF WellPlaced, End
<1> QED BY <1>1, <1>5, <1>9, <1>10, <1>13 DEF b, len, n, p, x

(* The plain reader goes on behind a block.                                *)
LEMMA BlockKeeps ==
  ASSUME RInv, disk' = disk, rd.pc = "normal", Remain > 0, NEW k \in {0, 1},
         rd' = [rd EXCEPT !.cur_block = rd.cur_block + 1, !.faults = rd.faults + k],
         fd' = [fd EXCEPT !.pos = fd.pos + ToRead],
         cookie' \in Cookies, cookie'.len = cookie.len,
         ~EmptyChunk => Kept(cookie', fd.pos + ToRead)
  PROVE  RInv'
<1> DEFINE m == fd.pos + ToRead
           b == rd.cur_block
<1>1. /\ ToRead \in Nat \ {0} /\ ToRead =< BlockSize /\ m =< cookie.len
      /\ fd.pos = b * BlockSize /\ (m < cookie.len => ToRead = BlockSize)
  <2>1. "fd" \in Types /\ <<"path", "in">> \in Srcs /\ 0 \in Nat
    BY FilesAssumption DEF Types
  <2> QED BY <2>1, BlockPiece
<1>2. fd.pos \in Nat /\ b \in Nat /\ rd.faults + k \in Nat /\ cookie.len = Len(disk["in"]) /\ cookie.len \in Nat
  <2>1. Len(disk["in"]) \in Nat
    BY LenProperties DEF RInv, Typed, Fits, Words
  <2> QED BY <2>1 DEF RInv, Typed, AtBlock
<1>3. m \in Nat /\ b + 1 \in Nat /\ m =< (b + 1) * BlockSize /\ (b + 1) * BlockSize \in Nat
      /\ (m < cookie.len => m = (b + 1) * BlockSize)
  <2>1. (b + 1) * BlockSize = b * BlockSize + BlockSize /\ BlockSize \in Nat /\ b * BlockSize \in Nat
    BY <1>2, SizesAssumption
  <2>2. m = b * BlockSize + ToRead
    BY <1>1
  <2> DEFINE e == (b + 1) * BlockSize
             f == b * BlockSize
             t == ToRead
  <2> HIDE DEF m, b, e, f, t
  <2>3. b \in Nat /\ e = f + BlockSize /\ BlockSize \in Nat /\ f \in Nat /\ m = f + t
        /\ t \in Nat \ {0} /\ t =< BlockSize /\ (m < cookie.len => t = BlockSize)
    BY <1>1, <1>2, <2>1, <2>2 DEF b, e, f, t
  <2>4. m \in Nat /\ b + 1 \in Nat /\ m =< e /\ e \in Nat /\ (m < cookie.len => m = e)
    BY <2>3
  <2> QED BY <2>4 DEF e
<1>4. fd' = [path |-> "in", pos |-> m] /\ fd'.path = "in" /\ fd'.pos = m
  BY DEF RInv, Typed
<1>5. EmptyChunk' <=> EmptyChunk
  BY <1>4, SameFile DEF RInv
<1> HIDE DEF m
<1>6. /\ rd' = [pc |-> "normal", auto |-> rd.auto, crc |-> rd.crc, hdr |-> rd.hdr, i |-> rd.i,
                cur_block |-> b + 1, crc32 |-> rd.crc32, faults |-> rd.faults + k]
      /\ rd'.pc = "normal" /\ rd'.cur_block = b + 1
  BY DEF RInv, Typed
<1>7. Typed'
  BY <1>2, <1>3, <1>4, <1>6 DEF RInv, Typed
<1>8. AtBlock'
  BY <1>1, <1>2, <1>3, <1>4, <1>6 DEF AtBlock
<1>9. Ordered'
  <2> SUFFICES ASSUME ~EmptyChunk PROVE Kept(cookie', (b + 1) * BlockSize) /\ Kept(cookie', cookie'.len)
    BY <1>5, <1>6 DEF Ordered
  <2>1. Kept(cookie', m)
    BY DEF m
  <2>2. m \in Int /\ (b + 1) * BlockSize \in Int /\ cookie'.len \in Int /\ m =< cookie'.len
    BY <1>1, <1>2, <1>3
  <2>3. Kept(cookie', (b + 1) * BlockSize)
    BY <1>3, <2>1, <2>2, KeptLonger
  <2>4. Kept(cookie', cookie'.len)
    BY <2>1, <2>2, KeptLonger
  <2> QED BY <2>3, <2>4
<1> QED BY <1>6, <1>7, <1>8, <1>9 DEF RInv, InChunks, NoAbort

LEMMA ReadBlockKeeps == ASSUME RInv, disk' = disk, ReadBlock PROVE RInv'
<1> DEFINE x == IF Uniform THEN Piece("fill", Bytes[fd.pos + 1], 0, ToRead)
                           ELSE Piece("fd", <<"path", fd.path>>, fd.pos, ToRead)
<1>1. /\ rd.pc = "normal" /\ Remain > 0 /\ cookie \in Cookies /\ fd.path = "in" /\ fd.pos \in Nat
      /\ Bytes = disk["in"] /\ disk["in"] \in Seq(Srcs)
      /\ ~EmptyChunk => Kept(cookie, rd.cur_block * BlockSize)
  BY DEF ReadBlock, RInv, Typed, Fits, Words, Ordered, Bytes
<1>2. CASE ~Readable(fd.pos, ToRead)
  <2>1. rd' = [rd EXCEPT !.pc = "done"] /\ cookie' = NULL /\ fd' = fd
    BY <1>2 DEF ReadBlock
  <2>2. /\ rd' = [pc |-> "done", auto |-> rd.auto, crc |-> rd.crc, hdr |-> rd.hdr, i |-> rd.i,
                  cur_block |-> rd.cur_block, crc32 |-> rd.crc32, faults |-> rd.faults]
        /\ rd'.pc = "done"
    BY <2>1 DEF RInv, Typed
  <2>3. Typed'
    BY <2>1, <2>2 DEF RInv, Typed
  <2> QED BY <2>1, <2>2, <2>3 DEF RInv, InChunks, AtBlock, Ordered, NoAbort
<1>3. CASE Readable(fd.pos, ToRead)
  <2>1. /\ Fresh \in Addr => x \in Nodes
        /\ x.block = rd.cur_block /\ WellPlaced(x) /\ End(x) = fd.pos + ToRead
        /\ ToRead \in Nat \ {0} /\ fd.pos = rd.cur_block * BlockSize
    <3>1. CASE Uniform
      <4>1. Bytes[fd.pos + 1] \in Srcs
        <5>1. ToRead \in Nat \ {0}
          <6>1. "fd" \in Types /\ <<"path", "in">> \in Srcs /\ 0 \in Nat
            BY FilesAssumption DEF Types
          <6> QED BY <1>1, <6>1, BlockPiece
        <5>2. fd.pos + 1 \in 1 .. Len(disk["in"])
          BY <1>1, <1>3, <5>1, LenProperties DEF Readable
        <5> QED BY <1>1, <5>2, ElementOfSeq
      <4>2. "fill" \in Types /\ 0 \in Nat
        BY DEF Types
      <4>3. x = Piece("fill", Bytes[fd.pos + 1], 0, ToRead)
        BY <3>1
      <4> HIDE DEF x
      <4> QED BY <1>1, <4>1, <4>2, <4>3, BlockPiece
    <3>2. CASE ~Uniform
      <4>1. "fd" \in Types /\ <<"path", fd.path>> \in Srcs
        <5>1. <<"path", "in">> \in Srcs
          BY FilesAssumption
        <5> QED BY <1>1, <5>1 DEF Types
      <4>2. x = Piece("fd", <<"path", fd.path>>, fd.pos, ToRead)
        BY <3>2
      <4> HIDE DEF x
      <4> QED BY <1>1, <4>1, <4>2, BlockPiece
    <3> QED BY <3>1, <3>2
  <2>2. \/ ~NoMemory /\ IF ~QueueAsserts(cookie, x) THEN Abort
                        ELSE /\ AddExtent(x)
                             /\ rd' = [rd EXCEPT !.cur_block = @ + 1]
                             /\ fd' = [fd EXCEPT !.pos = @ + ToRead]
        \/ /\ rd' = [rd EXCEPT !.cur_block = @ + 1, !.faults = @ + 1]
           /\ fd' = [fd EXCEPT !.pos = @ + ToRead]
           /\ UNCHANGED cookie
    BY <1>3 DEF ReadBlock
  <2> HIDE DEF x
  <2>3. CASE ~NoMemory /\ ~QueueAsserts(cookie, x) /\ Abort
    <3>1. x \in Nodes
      BY <1>1, <2>1, <2>3, FreshFacts
    <3>2. EmptyChunk
      <4> SUFFICES ASSUME ~EmptyChunk PROVE FALSE
        OBVIOUS
      <4>1. Kept(cookie, x.block * BlockSize)
        BY <1>1, <2>1
      <4> QED BY <1>1, <2>1, <2>3, <3>1, <4>1, AddKept
    <3> QED BY <1>1, <2>3, <3>2, AbortKeeps
  <2>4. CASE ~NoMemory /\ /\ AddExtent(x)
                          /\ rd' = [rd EXCEPT !.cur_block = @ + 1]
                          /\ fd' = [fd EXCEPT !.pos = @ + ToRead]
    <3>1. x \in Nodes
      BY <1>1, <2>1, <2>4, FreshFacts
    <3>2. cookie' \in Cookies /\ cookie'.len = cookie.len
      BY <1>1, <2>4, <3>1, AddTyped
    <3>3. ASSUME ~EmptyChunk PROVE Kept(cookie', fd.pos + ToRead)
      <4> DEFINE m == fd.pos + ToRead
                 q == Queue([list |-> cookie.list, last_used |-> cookie.last_used], x)
      <4>1. WellPlaced(x) /\ End(x) =< m /\ Kept(cookie, x.block * BlockSize) /\ m \in Int
        BY <1>1, <2>1, <3>3
      <4>2. cookie' = [list |-> q.list, last_used |-> q.last_used, len |-> cookie.len]
        BY <2>4 DEF AddExtent
      <4> HIDE DEF m
      <4>3. \A k \in Int : End(x) =< k => Kept([list |-> q.list, last_used |-> q.last_used, len |-> cookie.len], k)
        BY <1>1, <3>1, <4>1, AddKept
      <4> HIDE DEF q
      <4>4. Kept(cookie', m)
        BY <4>1, <4>2, <4>3
      <4> QED BY <4>4 DEF m
    <3>4. rd' = [rd EXCEPT !.cur_block = rd.cur_block + 1, !.faults = rd.faults + 0]
      <4>1. /\ rd = [pc |-> rd.pc, auto |-> rd.auto, crc |-> rd.crc, hdr |-> rd.hdr, i |-> rd.i,
                    cur_block |-> rd.cur_block, crc32 |-> rd.crc32, faults |-> rd.faults]
            /\ rd.faults + 0 = rd.faults
        BY DEF RInv, Typed
      <4>2. rd' = [rd EXCEPT !.cur_block = rd.cur_block + 1]
        BY <2>4
      <4> QED BY <4>1, <4>2
    <3>5. fd' = [fd EXCEPT !.pos = fd.pos + ToRead]
      BY <2>4
    <3> QED BY <1>1, <3>2, <3>3, <3>4, <3>5, BlockKeeps
  <2>5. CASE /\ rd' = [rd EXCEPT !.cur_block = @ + 1, !.faults = @ + 1]
             /\ fd' = [fd EXCEPT !.pos = @ + ToRead]
             /\ UNCHANGED cookie
    <3>1. ASSUME ~EmptyChunk PROVE Kept(cookie', fd.pos + ToRead)
      <4>1. Kept(cookie, fd.pos) /\ fd.pos \in Int /\ fd.pos + ToRead \in Int /\ fd.pos =< fd.pos + ToRead
        BY <1>1, <2>1, <3>1
      <4> QED BY <2>5, <4>1, KeptLonger
    <3>2. rd' = [rd EXCEPT !.cur_block = rd.cur_block + 1, !.faults = rd.faults + 1]
      BY <2>5
    <3>3. fd' = [fd EXCEPT !.pos = fd.pos + ToRead] /\ cookie' \in Cookies /\ cookie'.len = cookie.len
      BY <1>1, <2>5
    <3> QED BY <1>1, <3>1, <3>2, <3>3, BlockKeeps
  <2> QED BY <2>2, <2>3, <2>4, <2>5
<1> QED BY <1>2, <1>3

LEMMA StepKeeps == ASSUME RInv, [Next]_vars PROVE RInv'
<1>1. ASSUME UNCHANGED vars PROVE RInv'
  <2>1. disk' = disk /\ fd' = fd /\ cookie' = cookie /\ rd' = rd
    BY <1>1 DEF vars
  <2>2. fd'.path = "in"
    BY <2>1 DEF RInv, Typed
  <2>3. EmptyChunk' <=> EmptyChunk
    BY <2>1, <2>2, SameFile DEF RInv
  <2> QED BY <2>1, <2>3 DEF RInv, Typed, InChunks, AtBlock, Ordered, NoAbort, Reached
<1>2. ASSUME Next PROVE RInv'
  <2>1. disk' = disk
    BY <1>2 DEF Next
  <2>2. CASE ReadHeader
    BY <2>1, <2>2, ReadHeaderKeeps
  <2>3. CASE ReadChunk
    BY <2>1, <2>3, ReadChunkKeeps
  <2>4. CASE EndOfChunks
    BY <2>1, <2>4, EndOfChunksKeeps
  <2>5. CASE ReadBlock
    BY <2>1, <2>5, ReadBlockKeeps
  <2>6. CASE EndOfBlocks
    BY <2>1, <2>6, EndOfBlocksKeeps
  <2> QED BY <1>2, <2>2, <2>3, <2>4, <2>5, <2>6 DEF Next, Read
<1> QED BY <1>1, <1>2

-----------------------------------------------------------------------------
(* The bytes of a list: byte k of the image lies in block CellNo(k), and is *)
(* byte Within(k) of the cell the block is given.                          *)

CellNo(k) == (k - 1) \div BlockSize

Within(k) == (k - 1) - CellNo(k) * BlockSize

CellByte(c, j) == IF c.type = "fill" THEN <<c.type, c.src>> ELSE <<c.type, c.src, c.off + j>>

InExtent(y, k) == y.block * BlockSize < k /\ k =< End(y)

LEMMA PlaceFacts ==
  ASSUME NEW k \in Nat \ {0}
  PROVE  /\ CellNo(k) \in Nat /\ Within(k) \in Nat /\ Within(k) < BlockSize
         /\ k - 1 = CellNo(k) * BlockSize + Within(k)
<1>1. k - 1 \in Nat /\ BlockSize \in Nat \ {0}
  BY SizesAssumption
<1> DEFINE b == CellNo(k)
<1>2. b \in Nat /\ BlockSize * b =< k - 1 /\ k - 1 < BlockSize * b + BlockSize
  BY <1>1, DivFacts DEF CellNo
<1> HIDE DEF b
<1>3. BlockSize * b = b * BlockSize /\ b * BlockSize \in Nat
  BY <1>1, <1>2
<1>4. Within(k) = (k - 1) - b * BlockSize
  BY DEF Within, b
<1> QED BY <1>1, <1>2, <1>3, <1>4 DEF b

LEMMA BlockOrder ==
  ASSUME NEW d \in Nat \ {0}, NEW a \in Nat, NEW b \in Nat, NEW j \in Nat, j < d
  PROVE  a * d =< b * d + j <=> a =< b
<1>1. a =< b => d * a =< d * b
  BY MulLess
<1>2. d * a < d * (b + 1) => a < b + 1
  <2>1. b + 1 \in Int /\ a \in Int
    OBVIOUS
  <2> QED BY <2>1, MulLess
<1>3. /\ d * (b + 1) = d * b + d /\ d * a = a * d /\ d * b = b * d
      /\ d * a \in Nat /\ d * b \in Nat
  OBVIOUS
<1> DEFINE da == d * a
           db == d * b
<1>4. /\ a =< b => da =< db
      /\ da < db + d => a < b + 1
      /\ a * d = da /\ b * d = db /\ da \in Nat /\ db \in Nat
  BY <1>1, <1>2, <1>3
<1> HIDE DEF da, db
<1> QED BY <1>4

(* An extent holds a byte when its cell for the block does.                *)
LEMMA InCell ==
  ASSUME NEW y \in Nodes, WellPlaced(y), NEW k \in Nat \ {0}
  PROVE  /\ InExtent(y, k) <=> CellNo(k) \in Covered(y) /\ Within(k) < CellOf(y, CellNo(k)).bytes
         /\ InExtent(y, k) => ByteOf(y, k - 1 - y.block * BlockSize) = CellByte(CellOf(y, CellNo(k)), Within(k))
<1> DEFINE b == CellNo(k)
           j == Within(k)
           a == y.block
           n == NBlocks(y)
           aB == a * BlockSize
           bB == b * BlockSize
           left == y.len - (b - a) * BlockSize
<1>1. /\ b \in Nat /\ j \in Nat /\ j < BlockSize /\ k - 1 = b * BlockSize + j
  BY PlaceFacts
<1>2. /\ a \in Nat /\ y.len \in Nat /\ n \in Nat /\ BlockSize \in Nat \ {0} /\ y.off \in Nat
      /\ BlockSize * n < y.len + BlockSize /\ y.len =< BlockSize * n
  BY PlacedFacts, SizesAssumption DEF Nodes
<1>3. CellOf(y, b) = [type |-> y.type, src |-> y.src,
                      off |-> IF y.type = "fill" THEN 0 ELSE y.off + (b - a) * BlockSize,
                      bytes |-> IF left < BlockSize THEN left ELSE BlockSize]
  BY DEF CellOf
<1> HIDE DEF b, j, a, n
<1>4. aB \in Nat /\ bB \in Nat /\ (b - a) * BlockSize = bB - aB
  BY <1>1, <1>2
<1>5. aB =< bB + j <=> a =< b
  BY <1>1, <1>2, BlockOrder
<1>6. (a + n) * BlockSize =< bB + j <=> a + n =< b
  <2>1. a + n \in Nat
    BY <1>2
  <2> QED BY <1>1, <1>2, <2>1, BlockOrder
<1>7. (a + n) * BlockSize = aB + BlockSize * n /\ BlockSize * n \in Nat
  BY <1>2
<1> DEFINE nB == BlockSize * n
           bytes == IF left < BlockSize THEN left ELSE BlockSize
<1>8. left = y.len - (bB - aB)
  BY <1>4
<1> HIDE DEF aB, bB, left, nB
<1>9. /\ nB \in Nat /\ y.len =< nB /\ (aB + nB =< bB + j <=> a + n =< b)
      /\ aB \in Nat /\ bB \in Nat /\ k - 1 = bB + j
  BY <1>1, <1>2, <1>4, <1>6, <1>7 DEF nB, aB, bB
<1>10. InExtent(y, k) <=> aB < k /\ k =< aB + y.len
  BY DEF InExtent, End, aB, a
<1>11. b \in Covered(y) <=> a =< b /\ ~(a + n =< b)
  BY <1>1, <1>2 DEF Covered, a, n
<1>12. j < bytes <=> j < left
  BY <1>1, <1>2, <1>8, <1>9
<1>13. InExtent(y, k) <=> b \in Covered(y) /\ j < bytes
  <2> HIDE DEF bytes
  <2>1. InExtent(y, k) <=> aB =< bB + j /\ bB + j < aB + y.len
    BY <1>1, <1>2, <1>9, <1>10
  <2>2. j < left <=> bB + j < aB + y.len
    BY <1>1, <1>2, <1>8, <1>9
  <2>3. bB + j < aB + y.len => ~(aB + nB =< bB + j)
    BY <1>1, <1>2, <1>9
  <2> QED BY <1>5, <1>9, <1>11, <1>12, <2>1, <2>2, <2>3
<1>14. CellOf(y, b).bytes = bytes
  BY <1>3
<1>15. ASSUME InExtent(y, k) PROVE ByteOf(y, k - 1 - aB) = CellByte(CellOf(y, b), j)
  <2>1. CASE y.type = "fill"
    BY <1>3, <2>1 DEF ByteOf, CellByte
  <2>2. CASE y.type # "fill"
    <3>1. y.off + (k - 1 - aB) = (y.off + (bB - aB)) + j
      BY <1>1, <1>2, <1>9
    <3>2. CellOf(y, b).off = y.off + (bB - aB)
      BY <1>3, <1>4, <2>2
    <3> QED BY <1>3, <2>2, <3>1, <3>2 DEF ByteOf, CellByte
  <2> QED BY <2>1, <2>2
<1> QED BY <1>13, <1>14, <1>15 DEF aB, a, b, j

LEMMA PlacedCells ==
  ASSUME NEW y \in Nodes, WellPlaced(y), NEW b \in Covered(y)
  PROVE  b \in 0 .. Blocks-1
<1>1. y.block \in Nat /\ NBlocks(y) \in Nat /\ y.block + NBlocks(y) =< Blocks
  BY PlacedFacts
<1>2. b \in y.block .. y.block + NBlocks(y) - 1 /\ Blocks \in Nat
  BY SizesAssumption DEF Covered
<1> QED BY <1>1, <1>2

(* What a byte is depends on the cell its block is given.                  *)
LEMMA ByteOfCell ==
  ASSUME NEW list, GoodList(list), NEW k \in Nat \ {0}
  PROVE  /\ \A c : Holds(list, CellNo(k), c) /\ Within(k) < c.bytes => ByteAt(list, k) = CellByte(c, Within(k))
         /\ (\A c : Holds(list, CellNo(k), c) => ~(Within(k) < c.bytes)) => ByteAt(list, k) = Hole
<1> DEFINE b == CellNo(k)
           j == Within(k)
           S(x) == x.block * BlockSize
           holders == {x \in ToSet(list) : S(x) < k /\ k =< S(x) + x.len}
<1>1. ByteAt(list, k) = IF holders = {} THEN Hole
                        ELSE LET x == CHOOSE x \in holders : TRUE IN ByteOf(x, k - 1 - S(x))
  BY DEF ByteAt
<1>2. ASSUME NEW y \in ToSet(list)
      PROVE  /\ y \in holders <=> b \in Covered(y) /\ j < CellOf(y, b).bytes
             /\ y \in holders => ByteOf(y, k - 1 - S(y)) = CellByte(CellOf(y, b), j)
             /\ b \in Covered(y) => b \in 0 .. Blocks-1
  <2>1. y \in Nodes /\ WellPlaced(y)
    BY GoodListFacts DEF ToSet
  <2>2. y \in holders <=> InExtent(y, k)
    BY DEF InExtent, End
  <2> HIDE DEF holders, b, j, S
  <2>3. /\ InExtent(y, k) <=> b \in Covered(y) /\ j < CellOf(y, b).bytes
        /\ InExtent(y, k) => ByteOf(y, k - 1 - S(y)) = CellByte(CellOf(y, b), j)
    BY <2>1, InCell DEF b, j, S
  <2>4. b \in Covered(y) => b \in 0 .. Blocks-1
    BY <2>1, PlacedCells
  <2> QED BY <2>2, <2>3, <2>4
<1>3. \A y \in ToSet(list) : b \in Covered(y) => Holds(list, b, CellOf(y, b))
  BY DEF Holds, Gives
<1>4. \A c : Holds(list, b, c) => \E y \in ToSet(list) : b \in Covered(y) /\ c = CellOf(y, b)
  BY DEF Holds, Gives
<1>5. Apart(list)
  BY GoodApart
<1>6. holders \subseteq ToSet(list)
  OBVIOUS
<1> DEFINE y == CHOOSE x \in holders : TRUE
<1>7. holders # {} => y \in holders
  BY DEF y
<1>8. ByteAt(list, k) = IF holders = {} THEN Hole ELSE ByteOf(y, k - 1 - S(y))
  BY <1>1 DEF y
<1> HIDE DEF holders, y, b, j, S
<1>9. ASSUME NEW c, Holds(list, b, c), j < c.bytes PROVE ByteAt(list, k) = CellByte(c, j)
  <2>1. PICK z \in ToSet(list) : b \in Covered(z) /\ c = CellOf(z, b)
    BY <1>4, <1>9
  <2>2. z \in holders /\ b \in 0 .. Blocks-1
    BY <1>2, <1>9, <2>1
  <2>3. y \in holders /\ y \in ToSet(list)
    BY <1>6, <1>7, <2>2
  <2>4. b \in Covered(y) /\ ByteOf(y, k - 1 - S(y)) = CellByte(CellOf(y, b), j)
    BY <1>2, <2>3
  <2>5. Holds(list, b, CellOf(y, b))
    BY <1>3, <2>3, <2>4
  <2>6. ImageOf(list)[b] = c /\ ImageOf(list)[b] = CellOf(y, b)
    BY <1>5, <1>9, <2>2, <2>5, ImageHolds
  <2>7. ByteAt(list, k) = ByteOf(y, k - 1 - S(y))
    BY <1>8, <2>2
  <2> QED BY <2>4, <2>6, <2>7
<1>10. ASSUME \A c : Holds(list, b, c) => ~(j < c.bytes) PROVE ByteAt(list, k) = Hole
  <2>1. ASSUME NEW z \in holders PROVE FALSE
    <3>1. z \in ToSet(list) /\ b \in Covered(z) /\ j < CellOf(z, b).bytes
      BY <1>2, <1>6
    <3> QED BY <1>3, <1>10, <3>1
  <2>2. holders = {}
    BY <2>1
  <2> QED BY <1>8, <2>2
<1> QED BY <1>9, <1>10 DEF b, j

LEMMA SameCells ==
  ASSUME NEW l, GoodList(l), NEW m, GoodList(m), NEW k \in Nat \ {0},
         \A c : Holds(l, CellNo(k), c) <=> Holds(m, CellNo(k), c)
  PROVE  ByteAt(l, k) = ByteAt(m, k)
<1>1. CASE \E c : Holds(l, CellNo(k), c) /\ Within(k) < c.bytes
  <2>1. PICK c : Holds(l, CellNo(k), c) /\ Within(k) < c.bytes
    BY <1>1
  <2>2. Holds(m, CellNo(k), c)
    BY <2>1
  <2> QED BY <2>1, <2>2, ByteOfCell
<1>2. CASE \A c : Holds(l, CellNo(k), c) => ~(Within(k) < c.bytes)
  <2>1. \A c : Holds(m, CellNo(k), c) => ~(Within(k) < c.bytes)
    BY <1>2
  <2>2. ByteAt(l, k) = Hole
    BY <1>2, ByteOfCell
  <2>3. ByteAt(m, k) = Hole
    BY <2>1, ByteOfCell
  <2> QED BY <2>2, <2>3
<1> QED BY <1>1, <1>2

(* queue_bb puts the bytes of the new extent behind those of the list, and *)
(* changes none of them, whatever it merges.                               *)
LEMMA AddBytes ==
  ASSUME NEW s \in Cookies, NEW x \in Nodes, WellPlaced(x), Kept(s, x.block * BlockSize)
  PROVE  LET q == Queue([list |-> s.list, last_used |-> s.last_used], x)
         IN /\ \A k \in 1 .. x.block * BlockSize : ByteAt(q.list, k) = ByteAt(s.list, k)
            /\ \A k \in Nat : InExtent(x, k) => ByteAt(q.list, k) = ByteOf(x, k - 1 - x.block * BlockSize)
<1> DEFINE bl == [list |-> s.list, last_used |-> s.last_used]
           q == Queue(bl, x)
           a == x.block
           aB == a * BlockSize
<1>1. /\ bl \in [list : Seq(Nodes), last_used : Addr \cup {NULL}]
      /\ GoodList(s.list) /\ bl.list = s.list /\ bl.last_used = s.last_used
      /\ bl.last_used # NULL => bl.last_used \in Ids(bl)
  BY DEF Cookies, Kept, Ids
<1> HIDE DEF bl
<1>2. \A i \in DOMAIN bl.list : Covered(bl.list[i]) \cap Covered(x) = {}
  BY <1>1, KeptApart
<1>3. GoodList(q.list)
  BY <1>1, <1>2, QueueFacts
<1>4. \A b, v : Holds(q.list, b, v) <=> Holds(s.list, b, v) \/ Gives(x, b, v)
  BY <1>1, <1>2, QueueHolds
<1> HIDE DEF q
<1>5. a \in Nat /\ BlockSize \in Nat \ {0} /\ x.len \in Nat /\ NBlocks(x) \in Nat
  BY PlacedFacts, SizesAssumption
<1>6. aB \in Nat
  BY <1>5
<1> HIDE DEF a
<1>7. ASSUME NEW k \in 1 .. aB PROVE ByteAt(q.list, k) = ByteAt(s.list, k)
  <2>1. k \in Nat \ {0}
    BY <1>6
  <2>2. ~(a =< CellNo(k))
    <3>1. CellNo(k) \in Nat /\ Within(k) \in Nat /\ Within(k) < BlockSize
          /\ k - 1 = CellNo(k) * BlockSize + Within(k)
      BY <2>1, PlaceFacts
    <3>2. aB =< CellNo(k) * BlockSize + Within(k) <=> a =< CellNo(k)
      BY <1>5, <3>1, BlockOrder
    <3> HIDE DEF aB
    <3>3. ~(aB =< k - 1)
      BY <1>6
    <3> QED BY <3>1, <3>2, <3>3
  <2>3. CellNo(k) \notin Covered(x)
    <3>1. CellNo(k) \in Nat
      BY <2>1, PlaceFacts
    <3> QED BY <1>5, <2>2, <3>1 DEF Covered, a
  <2>4. \A c : Holds(q.list, CellNo(k), c) <=> Holds(s.list, CellNo(k), c)
    BY <1>4, <2>3 DEF Gives
  <2> QED BY <1>1, <1>3, <2>1, <2>4, SameCells
<1>8. ASSUME NEW k \in Nat, InExtent(x, k) PROVE ByteAt(q.list, k) = ByteOf(x, k - 1 - aB)
  <2>1. k \in Nat \ {0}
    BY <1>6, <1>8 DEF InExtent, a
  <2> DEFINE c == CellOf(x, CellNo(k))
  <2>2. CellNo(k) \in Covered(x) /\ Within(k) < c.bytes /\ ByteOf(x, k - 1 - aB) = CellByte(c, Within(k))
    BY <1>8, <2>1, InCell DEF a
  <2>3. Holds(q.list, CellNo(k), c)
    BY <1>4, <2>2 DEF Gives
  <2> HIDE DEF c
  <2>4. ByteAt(q.list, k) = CellByte(c, Within(k))
    BY <1>3, <2>1, <2>2, <2>3, ByteOfCell
  <2> QED BY <2>2, <2>4
<1> QED BY <1>7, <1>8 DEF q, a, bl

(* Nothing lies behind the end of the list.                                *)
LEMMA NothingBehind ==
  ASSUME NEW s, NEW m \in Nat, Kept(s, m), NEW k \in Nat, m < k
  PROVE  ByteAt(s.list, k) = Hole
<1> DEFINE S(x) == x.block * BlockSize
           holders == {x \in ToSet(s.list) : S(x) < k /\ k =< S(x) + x.len}
<1>1. ASSUME NEW y \in holders PROVE FALSE
  <2>1. y \in ToSet(s.list) /\ k =< S(y) + y.len
    OBVIOUS
  <2>2. y \in Nodes /\ WellPlaced(y) /\ S(y) + y.len =< m
    BY <2>1, GoodListFacts DEF Kept, ToSet, End
  <2>3. S(y) + y.len \in Nat
    BY <2>2, PlacedFacts, SizesAssumption
  <2> HIDE DEF S
  <2> QED BY <2>1, <2>2, <2>3
<1>2. holders = {}
  BY <1>1
<1> QED BY <1>2 DEF ByteAt

-----------------------------------------------------------------------------
(* The image a file stands for, chunk by chunk.                            *)

Steps(f, bytes, n) ==
  f = [k \in 0 .. n |-> IF k = 0 THEN HeaderOf(bytes).file_hdr_sz
                        ELSE f[k-1] + ChunkAt(bytes, f[k-1]).total_sz]

LEMMA StepsExist ==
  ASSUME NEW n \in Nat, NEW bytes
  PROVE  \E f : Steps(f, bytes, n)
<1> DEFINE T == {k \in 0 .. n : \A f : ~ Steps(f, bytes, k)}
           Next1(p) == p + ChunkAt(bytes, p).total_sz
           first == HeaderOf(bytes).file_hdr_sz
<1>1. T \in SUBSET Nat
  OBVIOUS
<1>2. SUFFICES ASSUME T # {} PROVE FALSE
  OBVIOUS
<1>3. PICK m \in T : \A k \in T : m =< k
  <2> HIDE DEF T
  <2> QED BY <1>1, <1>2, LeastElement
<1>4. m \in 0 .. n /\ \A f : ~ Steps(f, bytes, m)
  OBVIOUS
<1>5. m # 0
  <2> DEFINE f == [i \in 0 .. 0 |-> first]
  <2> HIDE DEF first
  <2>1. f = [i \in 0 .. 0 |-> IF i = 0 THEN first ELSE Next1(f[i-1])]
    OBVIOUS
  <2>2. Steps(f, bytes, 0)
    BY <2>1 DEF Steps, first
  <2> QED BY <1>4, <2>2
<1>6. m-1 \in 0 .. n /\ ~(m =< m-1)
  BY <1>4, <1>5
<1>7. PICK f : Steps(f, bytes, m-1)
  <2>1. m-1 \notin T
    <3> HIDE DEF T
    <3> QED BY <1>3, <1>6
  <2> QED BY <1>6, <2>1
<1> DEFINE g == [i \in 0 .. m |-> IF i < m THEN f[i] ELSE Next1(f[i-1])]
<1>f. \A i \in 0 .. m-1 : f[i] = IF i = 0 THEN first ELSE Next1(f[i-1])
  BY <1>7 DEF Steps
<1> HIDE DEF Next1, first
<1>8. ASSUME NEW i \in 0 .. m
      PROVE  g[i] = IF i = 0 THEN first ELSE Next1(g[i-1])
  <2>1. CASE i < m
    <3>1. i \in 0 .. m-1 /\ g[i] = f[i]
      BY <1>4, <2>1
    <3>2. f[i] = IF i = 0 THEN first ELSE Next1(f[i-1])
      BY <1>f, <3>1
    <3>3. i # 0 => g[i-1] = f[i-1]
      <4> SUFFICES ASSUME i # 0 PROVE g[i-1] = f[i-1] OBVIOUS
      <4>1. i-1 \in 0 .. m /\ i-1 < m
        BY <1>4, <2>1
      <4> QED BY <4>1
    <3> HIDE DEF g
    <3> QED BY <3>1, <3>2, <3>3
  <2>2. CASE i = m
    <3>1. g[i] = Next1(f[i-1])
      BY <1>4, <2>2
    <3>2. i-1 \in 0 .. m /\ i-1 < m
      BY <1>4, <1>5, <2>2
    <3>3. g[i-1] = f[i-1]
      BY <3>2
    <3> HIDE DEF g
    <3> QED BY <1>5, <2>2, <3>1, <3>3
  <2> QED BY <1>4, <2>1, <2>2
<1>9. g = [i \in 0 .. m |-> g[i]]
  OBVIOUS
<1> HIDE DEF g
<1>10. g = [i \in 0 .. m |-> IF i = 0 THEN first ELSE Next1(g[i-1])]
  BY <1>8, <1>9
<1>11. Steps(g, bytes, m)
  BY <1>10 DEF Steps, first, Next1
<1> QED BY <1>4, <1>11

LEMMA StepsAgree ==
  ASSUME NEW bytes, NEW n \in Nat, NEW m \in Nat, n =< m,
         NEW f, NEW g, Steps(f, bytes, n), Steps(g, bytes, m)
  PROVE  \A i \in 0 .. n : f[i] = g[i]
<1> DEFINE T == {i \in 0 .. n : f[i] # g[i]}
           Next1(p) == p + ChunkAt(bytes, p).total_sz
           first == HeaderOf(bytes).file_hdr_sz
<1>1. SUFFICES ASSUME T # {} PROVE FALSE
  OBVIOUS
<1>2. PICK j \in T : \A i \in T : j =< i
  <2>1. T \in SUBSET Nat
    OBVIOUS
  <2> HIDE DEF T
  <2> QED BY <1>1, <2>1, LeastElement
<1>3. j \in 0 .. n /\ j \in 0 .. m /\ f[j] # g[j]
  BY <1>2
<1>4. /\ f[j] = IF j = 0 THEN first ELSE Next1(f[j-1])
      /\ g[j] = IF j = 0 THEN first ELSE Next1(g[j-1])
  BY <1>3 DEF Steps
<1> HIDE DEF first, Next1
<1>5. CASE j = 0
  BY <1>3, <1>4, <1>5
<1>6. CASE j # 0
  <2>1. j-1 \in 0 .. n /\ ~(j =< j-1)
    BY <1>3, <1>6
  <2>2. j-1 \notin T
    <3> HIDE DEF T
    <3> QED BY <1>2, <2>1
  <2>3. f[j-1] = g[j-1]
    BY <2>1, <2>2
  <2> QED BY <1>3, <1>4, <1>6, <2>3
<1> QED BY <1>5, <1>6

LEMMA StartIs ==
  ASSUME NEW bytes, NEW n \in Nat
  PROVE  \E f : Steps(f, bytes, n) /\ StartOf(bytes, n) = f[n]
<1> DEFINE g == CHOOSE f : Steps(f, bytes, n)
<1>1. StartOf(bytes, n) = g[n]
  BY DEF StartOf, Steps
<1>2. \E f : Steps(f, bytes, n)
  BY StepsExist
<1>3. Steps(g, bytes, n)
  <2> HIDE DEF Steps
  <2> QED BY <1>2
<1> HIDE DEF g
<1> QED BY <1>1, <1>3

(* Each chunk begins where total_sz of the one before says.                *)
LEMMA StartNext ==
  ASSUME NEW bytes, NEW n \in Nat
  PROVE  /\ StartOf(bytes, 0) = HeaderOf(bytes).file_hdr_sz
         /\ StartOf(bytes, n + 1) = StartOf(bytes, n) + ChunkAt(bytes, StartOf(bytes, n)).total_sz
<1>1. StartOf(bytes, 0) = HeaderOf(bytes).file_hdr_sz
  <2>1. PICK f : Steps(f, bytes, 0) /\ StartOf(bytes, 0) = f[0]
    BY StartIs
  <2> QED BY <2>1 DEF Steps
<1>2. n + 1 \in Nat /\ n =< n + 1 /\ n \in 0 .. n /\ n + 1 \in 0 .. n + 1 /\ (n + 1) - 1 = n /\ n + 1 # 0
  OBVIOUS
<1>3. PICK f : Steps(f, bytes, n) /\ StartOf(bytes, n) = f[n]
  BY StartIs
<1>4. PICK g : Steps(g, bytes, n + 1) /\ StartOf(bytes, n + 1) = g[n + 1]
  BY <1>2, StartIs
<1>5. g[n] = f[n]
  <2>1. Steps(f, bytes, n) /\ Steps(g, bytes, n + 1)
    BY <1>3, <1>4
  <2>2. \A i \in 0 .. n : f[i] = g[i]
    BY <1>2, <2>1, StepsAgree
  <2> QED BY <1>2, <2>2
<1>6. g[n + 1] = g[(n + 1) - 1] + ChunkAt(bytes, g[(n + 1) - 1]).total_sz
  <2> DEFINE m == n + 1
  <2>1. m \in 0 .. m /\ m # 0 /\ Steps(g, bytes, m)
    BY <1>2, <1>4
  <2> HIDE DEF m
  <2>2. g[m] = g[m-1] + ChunkAt(bytes, g[m-1]).total_sz
    BY <2>1 DEF Steps
  <2> QED BY <2>2 DEF m
<1> QED BY <1>1, <1>2, <1>3, <1>4, <1>5, <1>6

\* What the bytes of an image may be read as.
Word == Srcs \cup {Zero}

\* The chunks of a file, as its writer meant them.
Chunked(bytes, h) ==
  /\ Words(bytes) /\ Regular(bytes) /\ h = HeaderOf(bytes) /\ Supported(h)

LEMMA ChunkedFacts ==
  ASSUME NEW bytes, NEW h, Chunked(bytes, h), NEW n \in 0 .. h.total_chunks - 1
  PROVE  LET c == ChunkAt(bytes, StartOf(bytes, n))
         IN /\ c # NULL /\ c.chunk_type # "unknown"
            /\ c.total_sz \in h.chunk_hdr_sz .. UIntMod - 1
            /\ StartOf(bytes, n + 1) =< Len(bytes)
            /\ StartOf(bytes, n + 1) = StartOf(bytes, n) + c.total_sz
            /\ c.chunk_type = "crc32" =>
                 bytes[StartOf(bytes, n) + h.chunk_hdr_sz + 1] = <<"crc", ImageUpTo(bytes, n)>>
<1>1. h \in Headers
  BY HeaderTyped DEF Chunked
<1>2. n \in Nat
  BY <1>1 DEF Headers
<1>3. StartOf(bytes, n + 1) = StartOf(bytes, n) + ChunkAt(bytes, StartOf(bytes, n)).total_sz
  BY <1>2, StartNext
<1> QED BY <1>3 DEF Chunked, Regular, BodyOf

LEMMA StartNat ==
  ASSUME NEW bytes, NEW h, Chunked(bytes, h), NEW n \in 0 .. h.total_chunks
  PROVE  StartOf(bytes, n) \in Nat
<1> DEFINE T == {k \in 0 .. h.total_chunks : StartOf(bytes, k) \notin Nat}
<1>1. h \in Headers /\ h.total_chunks \in Nat /\ h.file_hdr_sz \in Nat /\ h.chunk_hdr_sz \in Nat
  BY HeaderTyped DEF Chunked, Headers
<1>2. SUFFICES ASSUME T # {} PROVE FALSE
  OBVIOUS
<1>3. PICK m \in T : \A k \in T : m =< k
  <2>1. T \in SUBSET Nat
    BY <1>1
  <2> HIDE DEF T
  <2> QED BY <1>2, <2>1, LeastElement
<1>4. m \in 0 .. h.total_chunks /\ StartOf(bytes, m) \notin Nat
  OBVIOUS
<1>5. m # 0
  <2>1. 0 \in Nat
    OBVIOUS
  <2>2. StartOf(bytes, 0) = h.file_hdr_sz
    BY <2>1, StartNext DEF Chunked
  <2> QED BY <1>1, <1>4, <2>2
<1>6. m - 1 \in 0 .. h.total_chunks - 1 /\ m - 1 \in 0 .. h.total_chunks /\ (m - 1) + 1 = m /\ ~(m =< m - 1)
  BY <1>1, <1>4, <1>5
<1>7. StartOf(bytes, m - 1) \in Nat
  <2>1. m - 1 \notin T
    <3> HIDE DEF T
    <3> QED BY <1>3, <1>6
  <2> QED BY <1>6, <2>1
<1> DEFINE c == ChunkAt(bytes, StartOf(bytes, m - 1))
<1>8. c.total_sz \in h.chunk_hdr_sz .. UIntMod - 1 /\ StartOf(bytes, m) = StartOf(bytes, m - 1) + c.total_sz
  BY <1>6, ChunkedFacts
<1> HIDE DEF c
<1>9. c.total_sz \in Nat
  BY <1>1, <1>8, SizesAssumption
<1> QED BY <1>4, <1>7, <1>8, <1>9

LEMMA SliceFacts ==
  ASSUME NEW S, NEW s \in Seq(S), NEW p \in Nat, NEW n \in Nat, p + n =< Len(s)
  PROVE  LET t == SubSeq(s, p + 1, p + n)
         IN t \in Seq(S) /\ Len(t) = n /\ \A k \in 1 .. n : t[k] = s[p + k]
<1> DEFINE t == SubSeq(s, p + 1, p + n)
<1>1. Len(s) \in Nat
  BY LenProperties
<1>2. /\ t \in Seq(S)
      /\ Len(t) = IF p + 1 =< p + n THEN (p + n) - (p + 1) + 1 ELSE 0
      /\ \A k \in 1 .. (p + n) - (p + 1) + 1 : t[k] = s[p + 1 + k - 1]
  <2>1. PICK a, b : a = p + 1 /\ b = p + n
    OBVIOUS
  <2>2. a \in 1 .. Len(s) + 1 /\ b \in a - 1 .. Len(s)
    BY <1>1, <2>1
  <2>3. /\ SubSeq(s, a, b) \in Seq(S)
        /\ Len(SubSeq(s, a, b)) = IF a =< b THEN b - a + 1 ELSE 0
        /\ \A k \in 1 .. b - a + 1 : SubSeq(s, a, b)[k] = s[a + k - 1]
    <3>1. a \in Int /\ b \in Int /\ \A i \in a .. b : i \in 1 .. Len(s)
      BY <1>1, <2>2
    <3>2. \A i \in a .. b : s[i] \in S
      BY <3>1, ElementOfSeq
    <3> QED BY <3>1, <3>2, SubSeqProperties
  <2> QED BY <2>1, <2>3
<1> HIDE DEF t
<1>3. (p + n) - (p + 1) + 1 = n
  OBVIOUS
<1>4. Len(t) = n
  BY <1>2
<1>5. ASSUME NEW k \in 1 .. n PROVE t[k] = s[p + k]
  <2>1. p + 1 + k - 1 = p + k
    OBVIOUS
  <2> QED BY <1>2, <1>3, <2>1
<1> QED BY <1>2, <1>4, <1>5 DEF t

LEMMA ConstantFacts ==
  ASSUME NEW S, NEW w \in S, NEW n \in Nat, NEW f, f = [k \in 1 .. n |-> w]
  PROVE  f \in Seq(S) /\ Len(f) = n /\ \A k \in 1 .. n : f[k] = w
<1>1. f \in [1 .. n -> S] /\ \A k \in 1 .. n : f[k] = w
  OBVIOUS
<1>2. f \in Seq(S)
  BY <1>1, SeqDef
<1>3. Len(f) = n
  BY <1>1, <1>2, LenProperties
<1> QED BY <1>1, <1>2, <1>3

(* What chunk n stands for: the blocks it announces, byte by byte.         *)
LEMMA ExpansionFacts ==
  ASSUME NEW bytes, NEW h, Chunked(bytes, h), NEW n \in 0 .. h.total_chunks - 1
  PROVE  LET c    == ChunkAt(bytes, StartOf(bytes, n))
             body == StartOf(bytes, n) + h.chunk_hdr_sz
             size == c.chunk_sz * BlockSize
             e    == Expansion(bytes, n)
         IN /\ body \in Nat /\ size \in Nat /\ c \in Chunks
            /\ c.chunk_type = "raw" /\ body + size =< Len(bytes) =>
                 e \in Seq(Word) /\ Len(e) = size /\ \A k \in 1 .. size : e[k] = bytes[body + k]
            /\ c.chunk_type = "fill" /\ body + 1 =< Len(bytes) =>
                 e \in Seq(Word) /\ Len(e) = size /\ \A k \in 1 .. size : e[k] = bytes[body + 1]
            /\ c.chunk_type = "dont_care" =>
                 e \in Seq(Word) /\ Len(e) = size /\ \A k \in 1 .. size : e[k] = Zero
            /\ c.chunk_type = "crc32" => e = <<>>
<1> DEFINE p    == StartOf(bytes, n)
           c    == ChunkAt(bytes, p)
           body == p + h.chunk_hdr_sz
           size == c.chunk_sz * BlockSize
           e    == Expansion(bytes, n)
<1>1. h \in Headers /\ h.total_chunks \in Nat /\ h.chunk_hdr_sz \in Nat /\ BlockSize \in Nat
      /\ bytes \in Seq(Srcs) /\ Len(bytes) \in Nat /\ n \in 0 .. h.total_chunks /\ Words(bytes)
      /\ h = HeaderOf(bytes)
  BY HeaderTyped, LenProperties, SizesAssumption DEF Chunked, Headers, Words
<1>2. p \in Nat /\ c # NULL
  BY <1>1, StartNat, ChunkedFacts
<1> HIDE DEF p
<1>3. c \in Chunks
  BY <1>1, <1>2, ChunkTyped DEF ChunkAt
<1> HIDE DEF c
<1>4. body \in Nat /\ size \in Nat
  <2>1. c.chunk_sz \in Nat
    BY <1>3 DEF Chunks
  <2> QED BY <1>1, <1>2, <2>1
<1>5. BodyOf(bytes, n) = body
  BY <1>1 DEF BodyOf, p
<1>6. e = CASE c.chunk_type = "raw"       -> SubSeq(bytes, body + 1, body + size)
            [] c.chunk_type = "fill"      -> [k \in 1 .. size |-> bytes[body + 1]]
            [] c.chunk_type = "dont_care" -> [k \in 1 .. size |-> Zero]
            [] OTHER                      -> <<>>
  BY <1>5 DEF Expansion, c, p
<1> HIDE DEF body, size, e
<1>7. ASSUME c.chunk_type = "raw", body + size =< Len(bytes)
      PROVE  e \in Seq(Word) /\ Len(e) = size /\ \A k \in 1 .. size : e[k] = bytes[body + k]
  <2>1. e = SubSeq(bytes, body + 1, body + size)
    BY <1>6, <1>7
  <2>2. /\ e \in Seq(Srcs) /\ Len(e) = size
        /\ \A k \in 1 .. size : e[k] = bytes[body + k]
    <3>1. LET t == SubSeq(bytes, body + 1, body + size)
          IN t \in Seq(Srcs) /\ Len(t) = size /\ \A k \in 1 .. size : t[k] = bytes[body + k]
      <4>1. bytes \in Seq(Srcs) /\ body \in Nat /\ size \in Nat /\ body + size =< Len(bytes)
        BY <1>1, <1>4, <1>7
      <4> QED BY <4>1, SliceFacts
    <3> QED BY <2>1, <3>1
  <2> QED BY <2>2, SeqMonotonic DEF Word
<1>8. ASSUME NEW w \in Word, e = [k \in 1 .. size |-> w]
      PROVE  e \in Seq(Word) /\ Len(e) = size /\ \A k \in 1 .. size : e[k] = w
  BY <1>4, <1>8, ConstantFacts
<1>9. ASSUME c.chunk_type = "fill", body + 1 =< Len(bytes)
      PROVE  e \in Seq(Word) /\ Len(e) = size /\ \A k \in 1 .. size : e[k] = bytes[body + 1]
  <2>1. e = [k \in 1 .. size |-> bytes[body + 1]]
    BY <1>6, <1>9
  <2>2. bytes[body + 1] \in Word
    <3>1. body + 1 \in 1 .. Len(bytes)
      BY <1>1, <1>4, <1>9
    <3> QED BY <1>1, <3>1, ElementOfSeq DEF Word
  <2> QED BY <1>8, <2>1, <2>2
<1>10. ASSUME c.chunk_type = "dont_care"
       PROVE  e \in Seq(Word) /\ Len(e) = size /\ \A k \in 1 .. size : e[k] = Zero
  <2>1. e = [k \in 1 .. size |-> Zero]
    BY <1>6, <1>10
  <2>2. Zero \in Word
    BY DEF Word
  <2> QED BY <1>8, <2>1, <2>2
<1>11. c.chunk_type = "crc32" => e = <<>>
  BY <1>6
<1> QED BY <1>3, <1>4, <1>7, <1>9, <1>10, <1>11 DEF c, body, size, e, p

LEMMA ImageNext ==
  ASSUME NEW bytes, NEW n \in Nat, \A m \in 0 .. n : Expansion(bytes, m) \in Seq(Word)
  PROVE  /\ ImageUpTo(bytes, n) \in Seq(Word)
         /\ ImageUpTo(bytes, n + 1) = ImageUpTo(bytes, n) \o Expansion(bytes, n)
<1> DEFINE ss == [k \in 1 .. n |-> Expansion(bytes, k - 1)]
           tt == [k \in 1 .. n + 1 |-> Expansion(bytes, k - 1)]
           e == Expansion(bytes, n)
           E(k) == Expansion(bytes, k - 1)
<1>1. \A k \in 1 .. n + 1 : E(k) \in Seq(Word)
  <2>1. \A k \in 1 .. n + 1 : k - 1 \in 0 .. n
    OBVIOUS
  <2> QED BY <2>1
<1>2. e \in Seq(Word) /\ E(n + 1) = e
  <2>1. (n + 1) - 1 = n /\ n \in 0 .. n
    OBVIOUS
  <2> QED BY <2>1
<1> HIDE DEF E, e
<1> DEFINE S == Seq(Word)
<1>3. ss = [k \in 1 .. n |-> E(k)] /\ tt = [k \in 1 .. n + 1 |-> E(k)]
  BY DEF E
<1> HIDE DEF S, ss, tt
<1>4. \A k \in 1 .. n + 1 : E(k) \in S
  BY <1>1 DEF S
<1>5. ss \in Seq(S) /\ Len(ss) = n
  <2>1. ss \in [1 .. n -> S]
    BY <1>3, <1>4
  <2>2. ss \in Seq(S)
    BY <2>1, SeqDef
  <2> QED BY <2>1, <2>2, LenProperties
<1>6. tt \in Seq(S) /\ Len(tt) = n + 1
  <2>1. tt \in [1 .. n + 1 -> S] /\ n + 1 \in Nat
    BY <1>3, <1>4
  <2>2. tt \in Seq(S)
    BY <2>1, SeqDef
  <2> QED BY <2>1, <2>2, LenProperties
<1>7. tt = Append(ss, e)
  <2> DEFINE u == Append(ss, e)
  <2>1. e \in S
    BY <1>2 DEF S
  <2>2. u \in Seq(S) /\ Len(u) = n + 1 /\ (\A k \in 1 .. n : u[k] = ss[k]) /\ u[n + 1] = e
    BY <1>5, <2>1, AppendProperties
  <2> HIDE DEF u
  <2>3. \A k \in 1 .. n + 1 : u[k] = tt[k]
    BY <1>2, <1>3, <2>2
  <2>4. u = tt
    BY <1>6, <2>2, <2>3, SeqEqual
  <2> QED BY <2>4 DEF u
<1>8. ss \in Seq(Seq(Word)) /\ e \in Seq(Word)
  BY <1>2, <1>5 DEF S
<1>9. FlattenSeq(tt) = FlattenSeq(ss) \o e
  BY <1>7, <1>8, FlattenAppend
<1>10. FlattenSeq(ss) \in Seq(Word)
  BY <1>8, FlattenIsSeq
<1> QED BY <1>9, <1>10 DEF ImageUpTo, ss, tt, e

LEMMA ImageNone == ASSUME NEW bytes PROVE ImageUpTo(bytes, 0) = <<>>
<1>1. [k \in 1 .. 0 |-> Expansion(bytes, k - 1)] = <<>>
  OBVIOUS
<1>2. FlattenSeq(<<>>) = <<>>
  BY DEF FlattenSeq
<1> QED BY <1>1, <1>2 DEF ImageUpTo

-----------------------------------------------------------------------------
(* What damage leaves of a file.                                           *)

Harmed(bytes, left, damage) ==
  /\ Words(bytes) /\ Words(left) /\ Len(left) =< Len(bytes)
  /\ damage # "cut" => Len(left) = Len(bytes)
  /\ \A k \in 1 .. Len(left) :
       left[k] = bytes[k] \/ (damage = "rot" /\ left[k][1] = "data" /\ bytes[k][1] = "data")

LEMMA HarmedFacts ==
  ASSUME NEW bytes, Fits(bytes), NEW left \in Damaged(bytes)
  PROVE  Harmed(bytes, left.bytes, left.damage)
<1> DEFINE b == left.bytes
<1>1. bytes \in Seq(Srcs) /\ Len(bytes) \in Nat /\ DOMAIN bytes = 1 .. Len(bytes) /\ Words(bytes)
  BY LenProperties DEF Fits, Words
<1>2. Words(b)
  BY DamagedFits DEF Fits
<1>3. CASE b = bytes /\ left.damage = "none"
  BY <1>1, <1>2, <1>3 DEF Harmed
<1>4. ASSUME NEW n \in 0 .. Len(bytes) - 1, b = SubSeq(bytes, 1, n), left.damage = "cut"
      PROVE  Harmed(bytes, b, left.damage)
  <2>1. n \in Nat /\ n =< Len(bytes)
    BY <1>1
  <2>2. b \in Seq(Srcs) /\ Len(b) = n /\ \A k \in 1 .. n : b[k] = bytes[k]
    BY <1>1, <1>4, <2>1, SubSeqProperties
  <2> HIDE DEF b
  <2> QED BY <1>1, <1>2, <1>4, <2>1, <2>2 DEF Harmed
<1>5. ASSUME NEW n \in DOMAIN bytes, bytes[n][1] = "data",
             b = [bytes EXCEPT ![n] = <<"data", "rotten">>], left.damage = "rot"
      PROVE  Harmed(bytes, b, left.damage)
  <2> DEFINE r == <<"data", "rotten">>
  <2>1. r \in Srcs /\ r[1] = "data"
    BY FilesAssumption
  <2> HIDE DEF r
  <2>2. b \in Seq(Srcs) /\ Len(b) = Len(bytes) /\ \A k \in 1 .. Len(bytes) : b[k] = IF k = n THEN r ELSE bytes[k]
    BY <1>1, <1>5, <2>1, ExceptSeq DEF r
  <2> HIDE DEF b
  <2> QED BY <1>1, <1>2, <1>5, <2>1, <2>2 DEF Harmed
<1> QED BY <1>3, <1>4, <1>5 DEF Damaged

\* Where a header of n words begins.
HeaderAt(bytes, tag, pos, n) ==
  /\ pos + n =< Len(bytes)
  /\ bytes[pos+1][1] = tag
  /\ \A j \in 1 .. n : bytes[pos+j] = <<tag, bytes[pos+1][2], j>>

(* Damage makes no header, and a header that is left is as it was.         *)
LEMMA SameRecord ==
  ASSUME NEW bytes, NEW left, NEW damage, Harmed(bytes, left, damage),
         NEW tag \in {"header", "chunk"}, NEW pos \in Nat, NEW n \in Nat \ {0}
  PROVE  /\ Record(left, tag, pos, n) # NULL => Record(bytes, tag, pos, n) = Record(left, tag, pos, n)
         /\ Record(bytes, tag, pos, n) # NULL /\ pos + n =< Len(left) =>
              Record(left, tag, pos, n) = Record(bytes, tag, pos, n)
<1>1. \A b : Record(b, tag, pos, n) = IF HeaderAt(b, tag, pos, n) THEN b[pos+1][2] ELSE NULL
  BY DEF Record, HeaderAt
<1>2. Len(left) \in Nat /\ Len(bytes) \in Nat /\ Len(left) =< Len(bytes) /\ tag # "data"
  BY LenProperties DEF Harmed, Words
<1>3. ASSUME pos + n =< Len(left), NEW j \in 1 .. n
      PROVE  left[pos+j] = bytes[pos+j] \/ (left[pos+j][1] = "data" /\ bytes[pos+j][1] = "data")
  <2>1. pos + j \in 1 .. Len(left)
    BY <1>2, <1>3
  <2> QED BY <2>1 DEF Harmed
<1>4. 1 \in 1 .. n
  OBVIOUS
<1>5. ASSUME NEW b, HeaderAt(b, tag, pos, n), NEW j \in 1 .. n PROVE b[pos+j][1] = tag
  <2>1. b[pos+j] = <<tag, b[pos+1][2], j>>
    BY <1>5 DEF HeaderAt
  <2> QED BY <2>1
<1>6. ASSUME HeaderAt(left, tag, pos, n)
      PROVE  HeaderAt(bytes, tag, pos, n) /\ bytes[pos+1][2] = left[pos+1][2]
  <2>1. pos + n =< Len(left) /\ pos + n =< Len(bytes)
    BY <1>2, <1>6 DEF HeaderAt
  <2>2. \A j \in 1 .. n : left[pos+j][1] = tag
    BY <1>5, <1>6
  <2>3. \A j \in 1 .. n : bytes[pos+j] = left[pos+j]
    BY <1>2, <1>3, <2>1, <2>2
  <2> QED BY <1>4, <1>6, <2>1, <2>3 DEF HeaderAt
<1>7. ASSUME HeaderAt(bytes, tag, pos, n), pos + n =< Len(left)
      PROVE  HeaderAt(left, tag, pos, n) /\ bytes[pos+1][2] = left[pos+1][2]
  <2>1. \A j \in 1 .. n : bytes[pos+j][1] = tag
    BY <1>5, <1>7
  <2>2. \A j \in 1 .. n : bytes[pos+j] = left[pos+j]
    BY <1>2, <1>3, <1>7, <2>1
  <2> QED BY <1>4, <1>7, <2>2 DEF HeaderAt
<1> QED BY <1>1, <1>6, <1>7

-----------------------------------------------------------------------------
(* What has been read of the image.                                        *)

\* What a byte of an image is read as from the files dk.
ReadAs(dk, b) ==
  IF b = Hole THEN Zero
  ELSE CASE b[1] = "fill" -> b[2]
         [] b[1] = "fd"   -> LET bytes == dk[b[2][2]] IN IF b[3] < Len(bytes) THEN bytes[b[3] + 1] ELSE NULL
         [] OTHER         -> b

\* Behind byte p a list is read as image, where nothing is missing.
Shows(dk, list, p, image, lax) ==
  \A k \in 1 .. Len(image) : \/ ReadAs(dk, ByteAt(list, p + k)) = image[k]
                             \/ lax /\ ReadAs(dk, ByteAt(list, p + k)) = NULL

SameTo(l, m, n) == \A k \in 1 .. n : ByteAt(m, k) = ByteAt(l, k)

LEMMA ShowsJoined ==
  ASSUME NEW S, NEW a \in Seq(S), NEW b \in Seq(S), NEW dk, NEW l, NEW m, NEW lax,
         Shows(dk, l, 0, a, lax), SameTo(l, m, Len(a)), Shows(dk, m, Len(a), b, lax)
  PROVE  Shows(dk, m, 0, a \o b, lax)
<1> DEFINE n == Len(a)
           q == Len(b)
           u == a \o b
           R(k) == ReadAs(dk, ByteAt(m, k))
<1>1. n \in Nat /\ q \in Nat
  BY LenProperties
<1>2. /\ u \in Seq(S) /\ Len(u) = n + q
      /\ \A k \in 1 .. n + q : u[k] = IF k =< n THEN a[k] ELSE b[k - n]
  BY ConcatProperties
<1>3. \A k \in 1 .. n : R(k) = a[k] \/ (lax /\ R(k) = NULL)
  <2> SUFFICES ASSUME NEW k \in 1 .. n PROVE R(k) = a[k] \/ (lax /\ R(k) = NULL)
    OBVIOUS
  <2>1. 0 + k = k
    OBVIOUS
  <2>2. ReadAs(dk, ByteAt(l, k)) = a[k] \/ (lax /\ ReadAs(dk, ByteAt(l, k)) = NULL)
    BY <2>1 DEF Shows
  <2>3. ByteAt(m, k) = ByteAt(l, k)
    BY DEF SameTo
  <2> QED BY <2>2, <2>3
<1>4. \A k \in 1 .. q : R(n + k) = b[k] \/ (lax /\ R(n + k) = NULL)
  BY DEF Shows
<1> HIDE DEF n, q, u, R
<1>5. ASSUME NEW k \in 1 .. n + q PROVE R(k) = u[k] \/ (lax /\ R(k) = NULL)
  <2>1. CASE k =< n
    <3>1. k \in 1 .. n /\ u[k] = a[k]
      BY <1>1, <1>2, <2>1
    <3> QED BY <1>3, <3>1
  <2>2. CASE ~(k =< n)
    <3>1. k - n \in 1 .. q /\ n + (k - n) = k /\ u[k] = b[k - n]
      BY <1>1, <1>2, <2>2
    <3> QED BY <1>4, <3>1
  <2> QED BY <2>1, <2>2
<1>6. \A k \in 1 .. Len(u) : R(0 + k) = u[k] \/ (lax /\ R(0 + k) = NULL)
  <2> SUFFICES ASSUME NEW k \in 1 .. Len(u) PROVE R(0 + k) = u[k] \/ (lax /\ R(0 + k) = NULL)
    OBVIOUS
  <2>1. k \in 1 .. n + q /\ 0 + k = k
    BY <1>1, <1>2
  <2> QED BY <1>5, <2>1
<1> QED BY <1>6 DEF Shows, R, u

LEMMA SameShown ==
  ASSUME NEW dk, NEW l, NEW m, NEW S, NEW a \in Seq(S), NEW lax,
         Shows(dk, l, 0, a, lax), SameTo(l, m, Len(a))
  PROVE  Shows(dk, m, 0, a, lax)
<1> SUFFICES ASSUME NEW k \in 1 .. Len(a)
             PROVE  ReadAs(dk, ByteAt(m, 0 + k)) = a[k] \/ (lax /\ ReadAs(dk, ByteAt(m, 0 + k)) = NULL)
  BY DEF Shows
<1>1. 0 + k = k
  OBVIOUS
<1>2. ByteAt(m, k) = ByteAt(l, k)
  BY DEF SameTo
<1>3. ReadAs(dk, ByteAt(l, 0 + k)) = a[k] \/ (lax /\ ReadAs(dk, ByteAt(l, 0 + k)) = NULL)
  BY DEF Shows
<1> QED BY <1>1, <1>2, <1>3

\* The list stands for the first rd.i chunks, as far as they can be read; with a
\* checksum for what was summed, and a chunk that holds the sum has confirmed it.
SparseUpTo(bytes, damage) ==
  /\ rd.hdr = HeaderOf(bytes) /\ Supported(rd.hdr) /\ rd.i \in 0 .. rd.hdr.total_chunks
  /\ \A n \in 0 .. rd.i - 1 : Expansion(bytes, n) \in Seq(Word)
  /\ Len(ImageUpTo(bytes, rd.i)) = rd.cur_block * BlockSize
  /\ rd.crc => /\ rd.crc32 \in Seq(Word) /\ Len(rd.crc32) = rd.cur_block * BlockSize
               /\ Shows(disk, cookie.list, 0, rd.crc32, FALSE)
  /\ damage # "rot" => Shows(disk, cookie.list, 0, ImageUpTo(bytes, rd.i), ~rd.crc)
  /\ rd.crc /\ rd.i > 0 /\ ChunkAt(bytes, StartOf(bytes, rd.i - 1)).chunk_type = "crc32" =>
       rd.crc32 = ImageUpTo(bytes, rd.i)

ReadSoFar(bytes, damage) ==
  /\ rd.pc = "header" => rd.i = 0 /\ rd.crc32 = <<>>
  /\ rd.pc = "chunk" => SparseUpTo(bytes, damage) /\ fd.pos = StartOf(bytes, rd.i)
  /\ rd.pc = "normal" =>
       /\ rd.hdr = NULL
       /\ rd.faults = 0 =>
            \A k \in 1 .. fd.pos : ReadAs(disk, ByteAt(cookie.list, k)) = disk["in"][k]
  /\ rd.pc = "done" /\ cookie # NULL =>
       IF rd.hdr = NULL
       THEN /\ cookie.len = Len(disk["in"])
            /\ rd.faults = 0 => Shows(disk, cookie.list, 0, disk["in"], FALSE)
       ELSE /\ SparseUpTo(bytes, damage) /\ rd.i = rd.hdr.total_chunks
            /\ cookie.len = rd.cur_block * BlockSize

\* The file as it was made, and what it is now.
Made(bytes, damage) ==
  /\ bytes \in Files /\ Regular(bytes) /\ Harmed(bytes, disk["in"], damage)
  /\ ~EmptyChunk
  /\ origin = [image |-> StandsFor(bytes), damage |-> damage]

(* The sparse reader goes on behind a chunk it has read.                   *)
LEMMA ChunkShown ==
  ASSUME RInv, disk' = disk, rd.pc = "chunk",
         NEW bytes, NEW damage, SparseUpTo(bytes, damage), rd.i < rd.hdr.total_chunks,
         NEW blocks \in Nat, NEW sum, NEW pos \in Nat, Advance(pos, blocks, sum),
         pos = StartOf(bytes, rd.i + 1),
         NEW e, e = Expansion(bytes, rd.i), e \in Seq(Word), Len(e) = blocks * BlockSize,
         SameTo(cookie.list, cookie'.list, rd.cur_block * BlockSize),
         rd.crc => /\ sum \in Seq(Word) /\ Len(sum) = blocks * BlockSize
                   /\ Shows(disk, cookie'.list, rd.cur_block * BlockSize, sum, FALSE),
         damage # "rot" => Shows(disk, cookie'.list, rd.cur_block * BlockSize, e, ~rd.crc),
         rd.crc /\ ChunkAt(bytes, StartOf(bytes, rd.i)).chunk_type = "crc32" =>
           rd.crc32 \o sum = ImageUpTo(bytes, rd.i) \o e
  PROVE  ReadSoFar(bytes, damage)'
<1> DEFINE i == rd.i
           a == ImageUpTo(bytes, i)
           off == rd.cur_block * BlockSize
           all == IF rd.crc THEN rd.crc32 \o sum ELSE rd.crc32
<1>1. /\ rd' = [pc |-> "chunk", auto |-> rd.auto, crc |-> rd.crc, hdr |-> rd.hdr, i |-> i + 1,
                cur_block |-> rd.cur_block + blocks, crc32 |-> all, faults |-> rd.faults]
      /\ fd'.pos = pos
  <2>1. rd' = [rd EXCEPT !.i = rd.i + 1, !.cur_block = rd.cur_block + blocks, !.crc32 = all]
    BY DEF Advance
  <2>2. rd = [pc |-> "chunk", auto |-> rd.auto, crc |-> rd.crc, hdr |-> rd.hdr, i |-> rd.i,
              cur_block |-> rd.cur_block, crc32 |-> rd.crc32, faults |-> rd.faults]
    BY DEF RInv, Typed
  <2>3. fd = [path |-> "in", pos |-> fd.pos] /\ fd' = [fd EXCEPT !.pos = pos]
    BY DEF RInv, Typed, Advance
  <2> HIDE DEF all
  <2> QED BY <2>1, <2>2, <2>3
<1> HIDE DEF all
<1>2. /\ rd'.pc = "chunk" /\ rd'.crc = rd.crc /\ rd'.hdr = rd.hdr /\ rd'.i = i + 1
      /\ rd'.cur_block = rd.cur_block + blocks /\ rd'.crc32 = all
  BY <1>1
<1>3. /\ i \in Nat /\ rd.hdr.total_chunks \in Nat /\ rd.cur_block \in Nat /\ BlockSize \in Nat
      /\ i + 1 \in 0 .. rd.hdr.total_chunks
  <2>1. rd.hdr \in Headers
    BY DEF RInv, InChunks
  <2>2. rd.hdr.total_chunks \in Nat
    BY <2>1 DEF Headers
  <2>3. i \in Nat /\ rd.cur_block \in Nat
    BY DEF RInv, Typed
  <2>4. i < rd.hdr.total_chunks
    OBVIOUS
  <2> HIDE DEF i
  <2> QED BY <2>2, <2>3, <2>4, SizesAssumption
<1>4. /\ \A n \in 0 .. i - 1 : Expansion(bytes, n) \in Seq(Word)
      /\ Len(a) = off
  BY DEF SparseUpTo
<1>5. \A n \in 0 .. i : Expansion(bytes, n) \in Seq(Word)
  <2>1. \A n \in 0 .. i : n = i \/ n \in 0 .. i - 1
    BY <1>3
  <2> QED BY <1>4, <2>1
<1>6. a \in Seq(Word) /\ ImageUpTo(bytes, i + 1) = a \o e
  BY <1>3, <1>5, ImageNext
<1> HIDE DEF a, off
<1>7. (rd.cur_block + blocks) * BlockSize = off + blocks * BlockSize
  BY <1>3 DEF off
<1>8. Len(a \o e) = off + blocks * BlockSize
  <2>1. Len(a \o e) = Len(a) + Len(e)
    BY <1>6, ConcatProperties
  <2> QED BY <1>4, <2>1
<1>9. ASSUME rd.crc
      PROVE  /\ all \in Seq(Word) /\ Len(all) = off + blocks * BlockSize
             /\ Shows(disk, cookie'.list, 0, all, FALSE)
  <2>1. /\ rd.crc32 \in Seq(Word) /\ Len(rd.crc32) = off /\ Shows(disk, cookie.list, 0, rd.crc32, FALSE)
        /\ sum \in Seq(Word) /\ Len(sum) = blocks * BlockSize
        /\ Shows(disk, cookie'.list, off, sum, FALSE) /\ SameTo(cookie.list, cookie'.list, off)
    BY <1>9 DEF SparseUpTo, off
  <2>2. all = rd.crc32 \o sum
    BY <1>9 DEF all
  <2>3. all \in Seq(Word) /\ Len(all) = off + blocks * BlockSize
    <3>1. rd.crc32 \o sum \in Seq(Word) /\ Len(rd.crc32 \o sum) = Len(rd.crc32) + Len(sum)
      BY <2>1, ConcatProperties
    <3> QED BY <2>1, <2>2, <3>1
  <2>4. Shows(disk, cookie'.list, 0, rd.crc32 \o sum, FALSE)
    BY <2>1, ShowsJoined
  <2> QED BY <2>2, <2>3, <2>4
<1>10. ASSUME damage # "rot" PROVE Shows(disk, cookie'.list, 0, a \o e, ~rd.crc)
  <2>1. /\ Shows(disk, cookie.list, 0, a, ~rd.crc) /\ Shows(disk, cookie'.list, Len(a), e, ~rd.crc)
        /\ SameTo(cookie.list, cookie'.list, Len(a))
    BY <1>4, <1>10 DEF SparseUpTo, off, a
  <2> QED BY <1>6, <2>1, ShowsJoined
<1>11. ASSUME rd.crc, ChunkAt(bytes, StartOf(bytes, i)).chunk_type = "crc32" PROVE all = a \o e
  BY <1>11 DEF all, a
<1>12. SparseUpTo(bytes, damage)'
  <2>1. (i + 1) - 1 = i
    BY <1>3
  <2>2. rd'.hdr = HeaderOf(bytes) /\ Supported(rd'.hdr) /\ rd'.i \in 0 .. rd'.hdr.total_chunks
    BY <1>2, <1>3 DEF SparseUpTo
  <2>3. \A n \in 0 .. rd'.i - 1 : Expansion(bytes, n) \in Seq(Word)
    BY <1>2, <1>5, <2>1
  <2>4. Len(ImageUpTo(bytes, rd'.i)) = rd'.cur_block * BlockSize
    BY <1>2, <1>6, <1>7, <1>8
  <2>5. rd'.crc => /\ rd'.crc32 \in Seq(Word) /\ Len(rd'.crc32) = rd'.cur_block * BlockSize
                   /\ Shows(disk', cookie'.list, 0, rd'.crc32, FALSE)
    BY <1>2, <1>7, <1>9
  <2>6. damage # "rot" => Shows(disk', cookie'.list, 0, ImageUpTo(bytes, rd'.i), ~rd'.crc)
    BY <1>2, <1>6, <1>10
  <2>7. rd'.crc /\ rd'.i > 0 /\ ChunkAt(bytes, StartOf(bytes, rd'.i - 1)).chunk_type = "crc32" =>
          rd'.crc32 = ImageUpTo(bytes, rd'.i)
    BY <1>2, <1>6, <1>11, <2>1
  <2> QED BY <2>2, <2>3, <2>4, <2>5, <2>6, <2>7 DEF SparseUpTo
<1>13. fd'.pos = StartOf(bytes, rd'.i)
  BY <1>1, <1>2
<1> QED BY <1>2, <1>12, <1>13 DEF ReadSoFar

(* A byte of the image is a hole, one of a fill or one of a file.          *)
HoleApart == Hole \notin {<<"fill", w>> : w \in Srcs} \cup {<<"fd", w, n>> : w \in Srcs, n \in Nat}

LEMMA ReadWord ==
  ASSUME HoleApart, NEW dk
  PROVE  /\ ReadAs(dk, Hole) = Zero
         /\ \A w \in Srcs : ReadAs(dk, <<"fill", w>>) = w
         /\ \A n \in Nat : ReadAs(dk, <<"fd", <<"path", "in">>, n>>) =
                             IF n < Len(dk["in"]) THEN dk["in"][n + 1] ELSE NULL
<1>1. ReadAs(dk, Hole) = Zero
  BY DEF ReadAs
<1>2. ASSUME NEW w \in Srcs PROVE ReadAs(dk, <<"fill", w>>) = w
  <2> DEFINE b == <<"fill", w>>
  <2>1. b # Hole
    BY DEF HoleApart
  <2>2. b[1] = "fill" /\ b[2] = w
    OBVIOUS
  <2> HIDE DEF b
  <2>3. ReadAs(dk, b) = b[2]
    BY <2>1, <2>2 DEF ReadAs
  <2> QED BY <2>2, <2>3 DEF b
<1>3. ASSUME NEW n \in Nat
      PROVE  ReadAs(dk, <<"fd", <<"path", "in">>, n>>) = IF n < Len(dk["in"]) THEN dk["in"][n + 1] ELSE NULL
  <2> DEFINE b == <<"fd", <<"path", "in">>, n>>
  <2>1. b # Hole
    BY FilesAssumption DEF HoleApart
  <2>2. b[1] = "fd" /\ b[1] # "fill" /\ b[2] = <<"path", "in">> /\ b[2][2] = "in" /\ b[3] = n
    OBVIOUS
  <2> HIDE DEF b
  <2>3. ReadAs(dk, b) = IF b[3] < Len(dk[b[2][2]]) THEN dk[b[2][2]][b[3] + 1] ELSE NULL
    BY <2>1, <2>2 DEF ReadAs
  <2> QED BY <2>2, <2>3 DEF b
<1> QED BY <1>1, <1>2, <1>3

(* An extent that is added is read where it was put, and nothing before it *)
(* is read differently.                                                    *)
LEMMA PieceShown ==
  ASSUME RInv, rd.pc \in {"chunk", "normal"}, ~EmptyChunk,
         NEW x \in Nodes, WellPlaced(x), x.block = rd.cur_block, AddExtent(x)
  PROVE  /\ SameTo(cookie.list, cookie'.list, rd.cur_block * BlockSize)
         /\ \A j \in 1 .. x.len : ByteAt(cookie'.list, rd.cur_block * BlockSize + j) = ByteOf(x, j - 1)
<1> DEFINE q == Queue([list |-> cookie.list, last_used |-> cookie.last_used], x)
           off == rd.cur_block * BlockSize
<1>1. cookie \in Cookies /\ Kept(cookie, x.block * BlockSize)
  BY DEF RInv, Typed, Ordered
<1>2. cookie'.list = q.list
  BY DEF AddExtent
<1>3. /\ \A k \in 1 .. x.block * BlockSize : ByteAt(q.list, k) = ByteAt(cookie.list, k)
      /\ \A k \in Nat : InExtent(x, k) => ByteAt(q.list, k) = ByteOf(x, k - 1 - x.block * BlockSize)
  BY <1>1, AddBytes
<1>4. off \in Nat /\ x.len \in Nat
  <2>1. rd.cur_block \in Nat /\ BlockSize \in Nat
    BY SizesAssumption DEF RInv, Typed
  <2> QED BY <2>1, NodeNumbers
<1> HIDE DEF q
<1>5. x.block * BlockSize = off
  OBVIOUS
<1>6. End(x) = off + x.len
  BY DEF End
<1> HIDE DEF off
<1>7. ASSUME NEW j \in 1 .. x.len PROVE ByteAt(q.list, off + j) = ByteOf(x, j - 1)
  <2>1. PICK k : k = off + j
    OBVIOUS
  <2>2. k \in Nat /\ off < k /\ k =< off + x.len /\ k - 1 - off = j - 1
    BY <1>4, <2>1
  <2>3. InExtent(x, k)
    BY <1>5, <1>6, <2>2 DEF InExtent
  <2>4. ByteAt(q.list, k) = ByteOf(x, k - 1 - x.block * BlockSize)
    BY <1>3, <2>2, <2>3
  <2> QED BY <1>5, <2>1, <2>2, <2>4
<1>8. SameTo(cookie.list, q.list, off)
  BY <1>3, <1>5 DEF SameTo
<1> QED BY <1>2, <1>7, <1>8 DEF off

\* The sparse reader is about to read a chunk that is there.
AtChunkOf(bytes, damage) ==
  /\ RInv /\ rd.pc = "chunk" /\ rd.i < rd.hdr.total_chunks
  /\ Made(bytes, damage) /\ SparseUpTo(bytes, damage) /\ fd.pos = StartOf(bytes, rd.i)
  /\ Readable(fd.pos, ChunkHeaderLen)

(* The chunk that is read is the one the file was made with.               *)
LEMMA ChunkMade ==
  ASSUME NEW bytes, NEW damage, AtChunkOf(bytes, damage),
         NEW c, c = ChunkAt(bytes, fd.pos), NEW size, size = c.total_sz - rd.hdr.chunk_hdr_sz
  PROVE  /\ Chunked(bytes, rd.hdr) /\ rd.i \in 0 .. rd.hdr.total_chunks - 1
         /\ Record(Bytes, "chunk", fd.pos, ChunkHeaderLen) = c /\ c # NULL /\ c \in Chunks
         /\ c.chunk_type # "unknown" /\ Bytes = disk["in"]
         /\ size \in Nat /\ U(size) = size /\ size \in UInt
         /\ BodyAt \in Nat /\ BodyAt = StartOf(bytes, rd.i) + rd.hdr.chunk_hdr_sz
         /\ StartOf(bytes, rd.i + 1) = BodyAt + size /\ BodyAt + size =< Len(bytes)
<1> DEFINE h == rd.hdr
           i == rd.i
<1>1. h \in Headers /\ h.total_chunks \in Nat /\ h.chunk_hdr_sz \in Nat
  <2>1. h \in Headers
    BY DEF AtChunkOf, RInv, InChunks
  <2> QED BY <2>1 DEF Headers
<1>2. i \in Nat /\ i < h.total_chunks /\ fd.pos \in Nat /\ Bytes = disk["in"]
  BY DEF AtChunkOf, RInv, Typed, Bytes
<1>3. Chunked(bytes, h) /\ Harmed(bytes, disk["in"], damage)
  BY DEF AtChunkOf, Made, Harmed, Chunked, SparseUpTo
<1>4. i \in 0 .. h.total_chunks - 1 /\ i \in 0 .. h.total_chunks
  <2> HIDE DEF i
  <2> QED BY <1>1, <1>2
<1> HIDE DEF h, i
<1>5. /\ c # NULL /\ c.chunk_type # "unknown"
      /\ c.total_sz \in h.chunk_hdr_sz .. UIntMod - 1
      /\ StartOf(bytes, i + 1) =< Len(bytes)
      /\ StartOf(bytes, i + 1) = fd.pos + c.total_sz
  BY <1>3, <1>4, ChunkedFacts DEF i, AtChunkOf
<1>6. c \in Chunks
  <2>1. Words(bytes) /\ c = Record(bytes, "chunk", fd.pos, ChunkHeaderLen)
    BY <1>3 DEF Chunked, ChunkAt
  <2> QED BY <1>2, <1>5, <2>1, ChunkTyped
<1>7. Record(Bytes, "chunk", fd.pos, ChunkHeaderLen) = c
  <2>1. fd.pos + ChunkHeaderLen =< Len(disk["in"])
    BY <1>2 DEF AtChunkOf, Readable
  <2>2. ChunkHeaderLen \in Nat \ {0}
    BY ReaderAssumption
  <2>3. Record(bytes, "chunk", fd.pos, ChunkHeaderLen) # NULL
    BY <1>5 DEF ChunkAt
  <2>4. Record(disk["in"], "chunk", fd.pos, ChunkHeaderLen) = Record(bytes, "chunk", fd.pos, ChunkHeaderLen)
    BY <1>2, <1>3, <2>1, <2>2, <2>3, SameRecord
  <2> QED BY <1>2, <2>4 DEF ChunkAt
<1>8. size = c.total_sz - h.chunk_hdr_sz
  BY DEF h
<1>9. size \in Nat /\ size < UIntMod /\ UIntMod \in Nat \ {0}
  <2>1. UIntMod \in Nat \ {0}
    BY SizesAssumption
  <2> QED BY <1>1, <1>5, <1>8, <2>1
<1>10. U(size) = size /\ size \in UInt
  BY <1>9 DEF U, UInt
<1>11. BodyAt = fd.pos + h.chunk_hdr_sz
  BY DEF BodyAt, h
<1>12. BodyAt \in Nat /\ StartOf(bytes, i + 1) = BodyAt + size
  <2>1. c.total_sz \in Int
    BY <1>1, <1>5, <1>9
  <2>2. BodyAt \in Nat
    BY <1>1, <1>2, <1>11
  <2>3. StartOf(bytes, i + 1) = fd.pos + c.total_sz /\ fd.pos \in Int /\ h.chunk_hdr_sz \in Int
    BY <1>1, <1>2, <1>5
  <2> QED BY <1>8, <1>11, <2>1, <2>2, <2>3
<1>13. BodyAt = StartOf(bytes, i) + h.chunk_hdr_sz
  BY <1>11 DEF i, AtChunkOf
<1> QED BY <1>2, <1>3, <1>4, <1>5, <1>6, <1>7, <1>9, <1>10, <1>12, <1>13 DEF h, i

LEMMA FilePieceShown ==
  ASSUME HoleApart, RInv, rd.pc \in {"chunk", "normal"}, ~EmptyChunk,
         NEW p \in Nat, NEW n \in Nat, U(n) = n,
         NEW x \in Nodes, x = Piece("fd", <<"path", fd.path>>, p, n), WellPlaced(x), AddExtent(x)
  PROVE  /\ SameTo(cookie.list, cookie'.list, rd.cur_block * BlockSize)
         /\ \A k \in 1 .. n : ReadAs(disk, ByteAt(cookie'.list, rd.cur_block * BlockSize + k)) =
                              IF p + k =< Len(disk["in"]) THEN disk["in"][p + k] ELSE NULL
<1>1. x.type = "fd" /\ x.src = <<"path", "in">> /\ x.off = p /\ x.len = n /\ x.block = rd.cur_block
  BY DEF Piece, RInv, Typed
<1>2. /\ SameTo(cookie.list, cookie'.list, rd.cur_block * BlockSize)
      /\ \A j \in 1 .. n : ByteAt(cookie'.list, rd.cur_block * BlockSize + j) = ByteOf(x, j - 1)
  BY <1>1, PieceShown
<1>3. Len(disk["in"]) \in Nat
  BY LenProperties DEF RInv, Typed, Fits, Words
<1>4. ASSUME NEW k \in 1 .. n
      PROVE  ReadAs(disk, ByteOf(x, k - 1)) = IF p + k =< Len(disk["in"]) THEN disk["in"][p + k] ELSE NULL
  <2>1. ByteOf(x, k - 1) = <<"fd", <<"path", "in">>, p + (k - 1)>>
    BY <1>1 DEF ByteOf
  <2>2. p + (k - 1) \in Nat /\ p + (k - 1) + 1 = p + k
        /\ (p + (k - 1) < Len(disk["in"]) <=> p + k =< Len(disk["in"]))
    BY <1>3
  <2>3. ReadAs(disk, <<"fd", <<"path", "in">>, p + (k - 1)>>) =
          IF p + (k - 1) < Len(disk["in"]) THEN disk["in"][p + (k - 1) + 1] ELSE NULL
    BY <2>2, ReadWord
  <2> QED BY <2>1, <2>2, <2>3
<1> QED BY <1>2, <1>4

LEMMA FillPieceShown ==
  ASSUME HoleApart, RInv, rd.pc \in {"chunk", "normal"}, ~EmptyChunk,
         NEW w \in Srcs, NEW n \in Nat, U(n) = n,
         NEW x \in Nodes, x = Piece("fill", w, 0, n), WellPlaced(x), AddExtent(x)
  PROVE  /\ SameTo(cookie.list, cookie'.list, rd.cur_block * BlockSize)
         /\ \A k \in 1 .. n : ReadAs(disk, ByteAt(cookie'.list, rd.cur_block * BlockSize + k)) = w
<1>1. x.type = "fill" /\ x.src = w /\ x.len = n /\ x.block = rd.cur_block
  BY DEF Piece
<1>2. /\ SameTo(cookie.list, cookie'.list, rd.cur_block * BlockSize)
      /\ \A j \in 1 .. n : ByteAt(cookie'.list, rd.cur_block * BlockSize + j) = ByteOf(x, j - 1)
  BY <1>1, PieceShown
<1>3. \A k : ByteOf(x, k) = <<"fill", w>>
  BY <1>1 DEF ByteOf
<1>4. ReadAs(disk, <<"fill", w>>) = w
  BY ReadWord
<1> QED BY <1>2, <1>3, <1>4

(* After an error nothing is held against the reader.                      *)
LEMMA RefuseShown ==
  ASSUME NEW n, Refuse(n), NEW bytes, NEW damage
  PROVE  ReadSoFar(bytes, damage)'
<1>1. rd' = [pc |-> IF rd.auto THEN "normal" ELSE "done", auto |-> rd.auto, crc |-> FALSE, hdr |-> NULL,
             i |-> 0, cur_block |-> 0, crc32 |-> <<>>, faults |-> rd.faults + n]
  BY DEF Refuse, Idle
<1>2. fd' = [fd EXCEPT !.pos = 0] /\ cookie' = IF rd.auto THEN EmptyCookie(Len(Bytes)) ELSE NULL
  BY DEF Refuse
<1>3. CASE rd.auto
  <2>1. rd'.pc = "normal" /\ rd'.hdr = NULL
    BY <1>1, <1>3
  <2>2. 1 .. 0 = {}
    OBVIOUS
  <2> QED BY <1>2, <2>1, <2>2 DEF ReadSoFar
<1>4. CASE ~rd.auto
  <2>1. rd'.pc = "done" /\ cookie' = NULL
    BY <1>1, <1>2, <1>4
  <2> QED BY <2>1 DEF ReadSoFar
<1> QED BY <1>3, <1>4

LEMMA AbortShown ==
  ASSUME RInv, Abort, NEW bytes, NEW damage
  PROVE  ReadSoFar(bytes, damage)'
<1>1. rd'.pc = "aborted"
  BY DEF Abort, RInv, Typed
<1> QED BY <1>1 DEF ReadSoFar


(* What the chunk stands for.                                              *)
LEMMA ChunkStands ==
  ASSUME NEW bytes, NEW damage, AtChunkOf(bytes, damage),
         NEW c, c = ChunkAt(bytes, fd.pos), NEW size, size = c.total_sz - rd.hdr.chunk_hdr_sz,
         NEW e, e = Expansion(bytes, rd.i), NEW m, m = c.chunk_sz * BlockSize
  PROVE  /\ m \in Nat /\ c.chunk_sz \in Nat
         /\ c.chunk_type = "raw" /\ size = m =>
              e \in Seq(Word) /\ Len(e) = m /\ \A k \in 1 .. m : e[k] = bytes[BodyAt + k]
         /\ c.chunk_type = "fill" /\ size = 1 =>
              e \in Seq(Word) /\ Len(e) = m /\ \A k \in 1 .. m : e[k] = bytes[BodyAt + 1]
         /\ c.chunk_type = "dont_care" =>
              e \in Seq(Word) /\ Len(e) = m /\ \A k \in 1 .. m : e[k] = Zero
         /\ c.chunk_type = "crc32" => e = <<>>
<1>1. /\ Chunked(bytes, rd.hdr) /\ rd.i \in 0 .. rd.hdr.total_chunks - 1 /\ c \in Chunks
      /\ BodyAt = StartOf(bytes, rd.i) + rd.hdr.chunk_hdr_sz /\ BodyAt + size =< Len(bytes)
  BY ChunkMade
<1>2. c = ChunkAt(bytes, StartOf(bytes, rd.i))
  BY DEF AtChunkOf
<1>3. /\ BodyAt \in Nat /\ m \in Nat
      /\ c.chunk_type = "raw" /\ BodyAt + m =< Len(bytes) =>
           e \in Seq(Word) /\ Len(e) = m /\ \A k \in 1 .. m : e[k] = bytes[BodyAt + k]
      /\ c.chunk_type = "fill" /\ BodyAt + 1 =< Len(bytes) =>
           e \in Seq(Word) /\ Len(e) = m /\ \A k \in 1 .. m : e[k] = bytes[BodyAt + 1]
      /\ c.chunk_type = "dont_care" =>
           e \in Seq(Word) /\ Len(e) = m /\ \A k \in 1 .. m : e[k] = Zero
      /\ c.chunk_type = "crc32" => e = <<>>
  <2>1. PICK h, n : h = rd.hdr /\ n = rd.i
    OBVIOUS
  <2>2. Chunked(bytes, h) /\ n \in 0 .. h.total_chunks - 1
    BY <1>1, <2>1
  <2>3. LET cc   == ChunkAt(bytes, StartOf(bytes, n))
            body == StartOf(bytes, n) + h.chunk_hdr_sz
            mm   == cc.chunk_sz * BlockSize
            ee   == Expansion(bytes, n)
        IN /\ body \in Nat /\ mm \in Nat /\ cc \in Chunks
           /\ cc.chunk_type = "raw" /\ body + mm =< Len(bytes) =>
                ee \in Seq(Word) /\ Len(ee) = mm /\ \A k \in 1 .. mm : ee[k] = bytes[body + k]
           /\ cc.chunk_type = "fill" /\ body + 1 =< Len(bytes) =>
                ee \in Seq(Word) /\ Len(ee) = mm /\ \A k \in 1 .. mm : ee[k] = bytes[body + 1]
           /\ cc.chunk_type = "dont_care" =>
                ee \in Seq(Word) /\ Len(ee) = mm /\ \A k \in 1 .. mm : ee[k] = Zero
           /\ cc.chunk_type = "crc32" => ee = <<>>
    BY <2>2, ExpansionFacts
  <2>4. e = Expansion(bytes, n) /\ c = ChunkAt(bytes, StartOf(bytes, n)) /\ BodyAt = StartOf(bytes, n) + h.chunk_hdr_sz
    BY <1>1, <1>2, <2>1
  <2> QED BY <2>3, <2>4
<1>4. c.chunk_sz \in Nat
  BY <1>1 DEF Chunks
<1> QED BY <1>1, <1>3, <1>4

(* A word of the file as it was made is read, unless it rotted.            *)
LEMMA WordMade ==
  ASSUME NEW bytes, NEW damage, Made(bytes, damage), damage # "rot",
         NEW k \in Nat \ {0}, k =< Len(disk["in"])
  PROVE  disk["in"][k] = bytes[k]
<1>1. Len(disk["in"]) \in Nat
  BY LenProperties DEF Made, Harmed, Words
<1>2. k \in 1 .. Len(disk["in"])
  BY <1>1
<1> QED BY <1>2 DEF Made, Harmed

(* A raw chunk is read as it was written, but for data a file cut short    *)
(* does not have, which only a caller that asks for no checksum misses.    *)
LEMMA RawShown ==
  ASSUME HoleApart, disk' = disk, NEW bytes, NEW damage, AtChunkOf(bytes, damage),
         NEW c, c = ChunkAt(bytes, fd.pos), c.chunk_type = "raw",
         NEW size, size = c.total_sz - rd.hdr.chunk_hdr_sz, RawChunk(c.chunk_sz, size)
  PROVE  ReadSoFar(bytes, damage)'
<1> DEFINE blocks == c.chunk_sz
           m == blocks * BlockSize
           off == rd.cur_block * BlockSize
           x == Piece("fd", <<"path", fd.path>>, BodyAt, size)
           complete == rd.crc => Readable(BodyAt, size)
           sum == IF rd.crc THEN Slice(BodyAt, size) ELSE <<>>
           e == Expansion(bytes, rd.i)
<1>1. /\ RInv /\ rd.pc = "chunk" /\ rd.i < rd.hdr.total_chunks /\ Made(bytes, damage)
      /\ SparseUpTo(bytes, damage) /\ fd.pos = StartOf(bytes, rd.i) /\ ~EmptyChunk
  BY DEF AtChunkOf, Made
<1>2. /\ Record(Bytes, "chunk", fd.pos, ChunkHeaderLen) = c /\ c # NULL /\ Bytes = disk["in"]
      /\ size \in Nat /\ U(size) = size /\ BodyAt \in Nat /\ StartOf(bytes, rd.i + 1) = BodyAt + size
  BY ChunkMade
<1>3. blocks \in Nat /\ rd.cur_block + blocks =< Blocks /\ blocks # 0 /\ cookie \in Cookies
  BY <1>1, <1>2, AtChunk DEF Chunks
<1>4. CASE size # m
  <2>1. Refuse(0)
    BY <1>4 DEF RawChunk
  <2> QED BY <2>1, RefuseShown
<1>5. CASE size = m
  <2>1. Store(x, complete, BodyAt + size, blocks, sum)
    BY <1>5 DEF RawChunk
  <2>2. /\ m \in Nat /\ e \in Seq(Word) /\ Len(e) = m /\ \A k \in 1 .. m : e[k] = bytes[BodyAt + k]
    BY <1>5, ChunkStands
  <2>3. Fresh \in Addr => x \in Nodes /\ WellPlaced(x)
    <3>1. "fd" \in Types /\ <<"path", fd.path>> \in Srcs
      <4>1. fd.path = "in"
        BY <1>1 DEF RInv, Typed
      <4> QED BY <4>1, FilesAssumption DEF Types
    <3>2. rd.cur_block \in Nat
      BY <1>1 DEF RInv, Typed
    <3> HIDE DEF blocks
    <3> QED BY <1>2, <1>3, <1>5, <3>1, <3>2, PieceFacts
  <2>4. BodyAt + size \in Nat /\ Len(disk["in"]) \in Nat /\ disk["in"] \in Seq(Srcs)
    BY <1>1, <1>2, LenProperties DEF RInv, Typed, Fits, Words
  <2> HIDE DEF blocks, m, x, complete, sum, e, off
  <2>5. CASE Refuse(1) \/ Refuse(0)
    BY <2>5, RefuseShown
  <2>6. CASE Abort
    BY <1>1, <2>6, AbortShown
  <2>7. CASE ~NoMemory /\ complete /\ AddExtent(x) /\ Advance(BodyAt + size, blocks, sum)
    <3>1. x \in Nodes /\ WellPlaced(x)
      BY <1>3, <2>3, <2>7, FreshFacts
    <3>2. /\ SameTo(cookie.list, cookie'.list, off)
          /\ \A k \in 1 .. size : ReadAs(disk, ByteAt(cookie'.list, off + k)) =
                               IF BodyAt + k =< Len(disk["in"]) THEN disk["in"][BodyAt + k] ELSE NULL
      BY <1>1, <1>2, <2>7, <3>1, FilePieceShown DEF x, off
    <3>3. ASSUME damage # "rot" PROVE Shows(disk, cookie'.list, off, e, ~rd.crc)
      <4>1. ASSUME NEW k \in 1 .. m
            PROVE  LET r == ReadAs(disk, ByteAt(cookie'.list, off + k)) IN r = e[k] \/ (~rd.crc /\ r = NULL)
        <5>1. k \in 1 .. size /\ BodyAt + k \in Nat \ {0} /\ BodyAt + k =< BodyAt + size
          BY <1>2, <1>5
        <5>2. CASE BodyAt + k =< Len(disk["in"])
          <6>1. disk["in"][BodyAt + k] = bytes[BodyAt + k]
            BY <1>1, <3>3, <5>1, <5>2, WordMade
          <6> QED BY <2>2, <3>2, <5>1, <5>2, <6>1
        <5>3. CASE ~(BodyAt + k =< Len(disk["in"]))
          <6>1. ~Readable(BodyAt, size)
            BY <1>2, <2>4, <5>1, <5>3 DEF Readable
          <6>2. ~rd.crc
            BY <2>7, <6>1 DEF complete
          <6> QED BY <3>2, <5>1, <5>3, <6>2
        <5> QED BY <5>2, <5>3
      <4> QED BY <2>2, <4>1 DEF Shows
    <3>4. ASSUME rd.crc
          PROVE  /\ sum \in Seq(Word) /\ Len(sum) = m /\ Shows(disk, cookie'.list, off, sum, FALSE)
      <4>1. BodyAt + size =< Len(disk["in"]) /\ sum = SubSeq(disk["in"], BodyAt + 1, BodyAt + size)
        BY <1>2, <2>7, <3>4 DEF complete, Readable, sum, Slice
      <4>2. sum \in Seq(Srcs) /\ Len(sum) = size /\ \A k \in 1 .. size : sum[k] = disk["in"][BodyAt + k]
        <5>1. PICK D, p, l : D = disk["in"] /\ p = BodyAt /\ l = size
          OBVIOUS
        <5>2. D \in Seq(Srcs) /\ p \in Nat /\ l \in Nat /\ p + l =< Len(D) /\ sum = SubSeq(D, p + 1, p + l)
          BY <1>2, <2>4, <4>1, <5>1
        <5>3. sum \in Seq(Srcs) /\ Len(sum) = l /\ \A k \in 1 .. l : sum[k] = D[p + k]
          <6>1. LET t == SubSeq(D, p + 1, p + l)
                IN t \in Seq(Srcs) /\ Len(t) = l /\ \A k \in 1 .. l : t[k] = D[p + k]
            BY <5>2, SliceFacts
          <6> QED BY <5>2, <6>1
        <5> QED BY <5>1, <5>3
      <4>3. sum \in Seq(Word)
        BY <4>2, SeqMonotonic DEF Word
      <4>4. ASSUME NEW k \in 1 .. size PROVE ReadAs(disk, ByteAt(cookie'.list, off + k)) = sum[k]
        <5>1. BodyAt + k =< Len(disk["in"])
          BY <1>2, <2>4, <4>1
        <5> QED BY <3>2, <4>2, <5>1
      <4> QED BY <1>5, <4>2, <4>3, <4>4 DEF Shows
    <3>5. ~(ChunkAt(bytes, StartOf(bytes, rd.i)).chunk_type = "crc32")
      BY <1>1
    <3>6. Advance(BodyAt + size, blocks, sum)
      BY <2>7
    <3> QED BY <1>1, <1>2, <1>3, <2>2, <2>4, <3>2, <3>3, <3>4, <3>5, <3>6, ChunkShown DEF m, off, e
  <2> QED BY <2>1, <2>5, <2>6, <2>7 DEF Store
<1> QED BY <1>4, <1>5


LEMMA BlocksSmall ==
  ASSUME NEW blocks \in Nat, blocks =< Blocks
  PROVE  blocks * BlockSize \in Nat /\ U(blocks * BlockSize) = blocks * BlockSize
<1>1. /\ BlockSize \in Nat \ {0} /\ Blocks \in Nat /\ UIntMod \in Nat \ {0}
      /\ (Blocks + 1) * BlockSize =< UIntMod
  BY SizesAssumption, ImageFits
<1>2. BlockSize * blocks =< BlockSize * Blocks
  <2>1. blocks \in Int /\ Blocks \in Int
    BY <1>1
  <2> QED BY <1>1, <2>1, MulLess
<1>3. /\ blocks * BlockSize = BlockSize * blocks /\ BlockSize * blocks \in Nat
      /\ (Blocks + 1) * BlockSize = BlockSize * Blocks + BlockSize /\ BlockSize * Blocks \in Nat
  BY <1>1
<1> DEFINE m == blocks * BlockSize
<1>4. m \in Nat /\ m < UIntMod
  BY <1>1, <1>2, <1>3
<1> HIDE DEF m
<1>5. U(m) = m
  BY <1>1, <1>4 DEF U
<1> QED BY <1>4, <1>5 DEF m

(* A fill is read as its word.                                             *)
LEMMA FillShown ==
  ASSUME HoleApart, disk' = disk, NEW bytes, NEW damage, AtChunkOf(bytes, damage),
         NEW c, c = ChunkAt(bytes, fd.pos), c.chunk_type = "fill",
         NEW size, size = c.total_sz - rd.hdr.chunk_hdr_sz, FillChunk(c.chunk_sz, size)
  PROVE  ReadSoFar(bytes, damage)'
<1> DEFINE blocks == c.chunk_sz
           m == blocks * BlockSize
           off == rd.cur_block * BlockSize
           word == Bytes[BodyAt + 1]
           x == Piece("fill", word, 0, m)
           sum == [k \in 1 .. m |-> word]
           e == Expansion(bytes, rd.i)
<1>1. /\ RInv /\ rd.pc = "chunk" /\ rd.i < rd.hdr.total_chunks /\ Made(bytes, damage)
      /\ SparseUpTo(bytes, damage) /\ fd.pos = StartOf(bytes, rd.i) /\ ~EmptyChunk
  BY DEF AtChunkOf, Made
<1>2. /\ Record(Bytes, "chunk", fd.pos, ChunkHeaderLen) = c /\ c # NULL /\ Bytes = disk["in"]
      /\ size \in Nat /\ BodyAt \in Nat /\ StartOf(bytes, rd.i + 1) = BodyAt + size
  BY ChunkMade
<1>3. blocks \in Nat /\ rd.cur_block + blocks =< Blocks /\ blocks # 0 /\ cookie \in Cookies
  BY <1>1, <1>2, AtChunk DEF Chunks
<1>4. CASE size # WordLen \/ ~Readable(BodyAt, WordLen)
  <2>1. Refuse(0)
    BY <1>4 DEF FillChunk
  <2> QED BY <2>1, RefuseShown
<1>5. CASE ~(size # WordLen \/ ~Readable(BodyAt, WordLen))
  <2>1. Store(x, TRUE, BodyAt + WordLen, blocks, sum)
    BY <1>5 DEF FillChunk
  <2>2. size = 1 /\ WordLen = 1 /\ BodyAt + 1 =< Len(disk["in"]) /\ disk["in"] \in Seq(Srcs) /\ Len(disk["in"]) \in Nat
    BY <1>1, <1>2, <1>5, ReaderAssumption, LenProperties DEF Readable, RInv, Typed, Fits, Words
  <2>3. /\ m \in Nat /\ e \in Seq(Word) /\ Len(e) = m /\ \A k \in 1 .. m : e[k] = bytes[BodyAt + 1]
    BY <2>2, ChunkStands
  <2>4. word \in Srcs
    <3>1. BodyAt + 1 \in 1 .. Len(disk["in"])
      BY <1>2, <2>2
    <3> QED BY <1>2, <2>2, <3>1, ElementOfSeq
  <2>5. rd.cur_block \in Nat
    BY <1>1 DEF RInv, Typed
  <2> HIDE DEF word, e, off
  <2>6. U(m) = m
    <3>1. blocks =< Blocks
      <4> HIDE DEF blocks
      <4> QED BY <1>3, <2>5, SizesAssumption
    <3> HIDE DEF blocks
    <3> QED BY <1>3, <3>1, BlocksSmall
  <2>7. Fresh \in Addr => x \in Nodes /\ WellPlaced(x)
    <3>1. "fill" \in Types /\ 0 \in Nat
      BY DEF Types
    <3> HIDE DEF blocks
    <3> QED BY <1>3, <2>3, <2>4, <2>5, <3>1, PieceFacts
  <2>8. sum \in Seq(Word) /\ Len(sum) = m /\ \A k \in 1 .. m : sum[k] = word
    <3>1. word \in Word
      BY <2>4 DEF Word
    <3> HIDE DEF m
    <3> QED BY <2>3, <3>1, ConstantFacts
  <2> HIDE DEF blocks, m, x, sum
  <2>9. CASE Refuse(1) \/ Refuse(0)
    BY <2>9, RefuseShown
  <2>10. CASE Abort
    BY <1>1, <2>10, AbortShown
  <2>11. CASE ~NoMemory /\ AddExtent(x) /\ Advance(BodyAt + WordLen, blocks, sum)
    <3>1. x \in Nodes /\ WellPlaced(x)
      BY <1>3, <2>7, <2>11, FreshFacts
    <3>2. /\ SameTo(cookie.list, cookie'.list, off)
          /\ \A k \in 1 .. m : ReadAs(disk, ByteAt(cookie'.list, off + k)) = word
      BY <1>1, <2>3, <2>4, <2>6, <2>11, <3>1, FillPieceShown DEF x, off
    <3>3. ASSUME damage # "rot" PROVE Shows(disk, cookie'.list, off, e, ~rd.crc)
      <4>1. word = bytes[BodyAt + 1]
        <5>1. BodyAt + 1 \in Nat \ {0}
          BY <1>2
        <5> QED BY <1>1, <1>2, <2>2, <3>3, <5>1, WordMade DEF word
      <4> QED BY <2>3, <3>2, <4>1 DEF Shows
    <3>4. Shows(disk, cookie'.list, off, sum, FALSE)
      BY <2>8, <3>2 DEF Shows
    <3>5. ~(ChunkAt(bytes, StartOf(bytes, rd.i)).chunk_type = "crc32")
      BY <1>1
    <3>6. /\ Advance(BodyAt + WordLen, blocks, sum)
          /\ BodyAt + WordLen \in Nat /\ BodyAt + WordLen = StartOf(bytes, rd.i + 1)
      BY <1>2, <2>2, <2>11
    <3> QED BY <1>1, <1>3, <2>3, <2>8, <3>2, <3>3, <3>4, <3>5, <3>6, ChunkShown DEF m, off, e
  <2> QED BY <2>1, <2>9, <2>10, <2>11 DEF Store
<1> QED BY <1>4, <1>5

(* A chunk to be skipped is read as zeros: no extent is where it would be. *)
LEMMA SkipShown ==
  ASSUME HoleApart, disk' = disk, NEW bytes, NEW damage, AtChunkOf(bytes, damage),
         NEW c, c = ChunkAt(bytes, fd.pos), c.chunk_type = "dont_care",
         NEW size, size = c.total_sz - rd.hdr.chunk_hdr_sz, SkipChunk(c.chunk_sz, size)
  PROVE  ReadSoFar(bytes, damage)'
<1> DEFINE blocks == c.chunk_sz
           m == blocks * BlockSize
           off == rd.cur_block * BlockSize
           sum == [k \in 1 .. m |-> Zero]
           e == Expansion(bytes, rd.i)
<1>1. /\ RInv /\ rd.pc = "chunk" /\ rd.i < rd.hdr.total_chunks /\ Made(bytes, damage)
      /\ SparseUpTo(bytes, damage) /\ fd.pos = StartOf(bytes, rd.i) /\ ~EmptyChunk
  BY DEF AtChunkOf, Made
<1>2. size \in Nat /\ BodyAt \in Nat /\ StartOf(bytes, rd.i + 1) = BodyAt + size
  BY ChunkMade
<1>3. /\ m \in Nat /\ blocks \in Nat /\ e \in Seq(Word) /\ Len(e) = m /\ \A k \in 1 .. m : e[k] = Zero
  BY ChunkStands
<1>4. CASE size # 0
  <2>1. Refuse(0)
    BY <1>4 DEF SkipChunk
  <2> QED BY <2>1, RefuseShown
<1>5. CASE size = 0
  <2>1. Advance(BodyAt, blocks, sum) /\ cookie' = cookie
    BY <1>5 DEF SkipChunk
  <2>2. sum \in Seq(Word) /\ Len(sum) = m /\ \A k \in 1 .. m : sum[k] = Zero
    <3>1. Zero \in Word
      BY DEF Word
    <3> HIDE DEF m
    <3> QED BY <1>3, <3>1, ConstantFacts
  <2>3. Kept(cookie, off) /\ off \in Nat
    BY <1>1, SizesAssumption DEF RInv, Typed, Ordered
  <2> HIDE DEF blocks, m, sum, e, off
  <2>4. ASSUME NEW k \in 1 .. m PROVE ReadAs(disk, ByteAt(cookie.list, off + k)) = Zero
    <3>1. off + k \in Nat /\ off < off + k
      BY <1>3, <2>3
    <3>2. ByteAt(cookie.list, off + k) = Hole
      BY <2>3, <3>1, NothingBehind
    <3> QED BY <3>2, ReadWord
  <2>5. Shows(disk, cookie'.list, off, sum, FALSE) /\ Shows(disk, cookie'.list, off, e, ~rd.crc)
    BY <1>3, <2>1, <2>2, <2>4 DEF Shows
  <2>6. SameTo(cookie.list, cookie'.list, off)
    BY <2>1 DEF SameTo
  <2>7. ~(ChunkAt(bytes, StartOf(bytes, rd.i)).chunk_type = "crc32")
    BY <1>1
  <2>8. BodyAt = StartOf(bytes, rd.i + 1)
    BY <1>2, <1>5
  <2> QED BY <1>1, <1>2, <1>3, <2>1, <2>2, <2>5, <2>6, <2>7, <2>8, ChunkShown DEF m, off, e
<1> QED BY <1>4, <1>5

(* A checksum that is right for what was read is right for what was meant. *)
LEMMA CrcShown ==
  ASSUME disk' = disk, NEW bytes, NEW damage, AtChunkOf(bytes, damage),
         NEW c, c = ChunkAt(bytes, fd.pos), c.chunk_type = "crc32",
         NEW size, size = c.total_sz - rd.hdr.chunk_hdr_sz, CrcChunk(size)
  PROVE  ReadSoFar(bytes, damage)'
<1> DEFINE off == rd.cur_block * BlockSize
           e == Expansion(bytes, rd.i)
           bad == \/ size # WordLen \/ ~Readable(BodyAt, WordLen)
                  \/ rd.crc /\ Bytes[BodyAt + 1] # <<"crc", rd.crc32>>
<1>1. /\ RInv /\ rd.pc = "chunk" /\ rd.i < rd.hdr.total_chunks /\ Made(bytes, damage)
      /\ SparseUpTo(bytes, damage) /\ fd.pos = StartOf(bytes, rd.i)
  BY DEF AtChunkOf
<1>2. /\ size \in Nat /\ BodyAt \in Nat /\ StartOf(bytes, rd.i + 1) = BodyAt + size /\ Bytes = disk["in"]
      /\ BodyAt = StartOf(bytes, rd.i) + rd.hdr.chunk_hdr_sz
      /\ Chunked(bytes, rd.hdr) /\ rd.i \in 0 .. rd.hdr.total_chunks - 1
  BY ChunkMade
<1>3. e = <<>>
  BY ChunkStands
<1>4. CASE bad
  <2>1. Refuse(0)
    BY <1>4 DEF CrcChunk
  <2> QED BY <2>1, RefuseShown
<1>5. CASE ~bad
  <2>1. Advance(BodyAt + WordLen, 0, <<>>) /\ cookie' = cookie
    BY <1>5 DEF CrcChunk
  <2>2. size = 1 /\ WordLen = 1 /\ BodyAt + 1 =< Len(disk["in"])
    BY <1>2, <1>5, ReaderAssumption DEF Readable
  <2>3. rd.crc => disk["in"][BodyAt + 1] = <<"crc", rd.crc32>>
    BY <1>2, <1>5
  <2> HIDE DEF bad
  <2>4. ASSUME rd.crc PROVE rd.crc32 = ImageUpTo(bytes, rd.i)
    <3>1. bytes[BodyAt + 1] = <<"crc", ImageUpTo(bytes, rd.i)>>
      <4>1. PICK h, n : h = rd.hdr /\ n = rd.i
        OBVIOUS
      <4>2. Chunked(bytes, h) /\ n \in 0 .. h.total_chunks - 1
        BY <1>2, <4>1
      <4>3. ChunkAt(bytes, StartOf(bytes, n)).chunk_type = "crc32" =>
              bytes[StartOf(bytes, n) + h.chunk_hdr_sz + 1] = <<"crc", ImageUpTo(bytes, n)>>
        BY <4>2, ChunkedFacts
      <4> QED BY <1>1, <1>2, <4>1, <4>3
    <3>2. BodyAt + 1 \in 1 .. Len(disk["in"])
      <4>1. Len(disk["in"]) \in Nat
        BY <1>1, LenProperties DEF Made, Harmed, Words
      <4> QED BY <1>2, <2>2, <4>1
    <3>3. disk["in"][BodyAt + 1] = bytes[BodyAt + 1] \/ disk["in"][BodyAt + 1][1] = "data"
      BY <1>1, <3>2 DEF Made, Harmed
    <3>4. disk["in"][BodyAt + 1][1] = "crc"
      BY <2>3, <2>4
    <3>5. <<"crc", rd.crc32>> = <<"crc", ImageUpTo(bytes, rd.i)>>
      BY <2>3, <2>4, <3>1, <3>3, <3>4
    <3> QED BY <3>5
  <2>5. <<>> \in Seq(Word) /\ Len(<<>>) = 0 * BlockSize /\ 0 \in Nat /\ 0 * BlockSize = 0
    BY SizesAssumption
  <2>6. Shows(disk, cookie'.list, off, <<>>, FALSE) /\ Shows(disk, cookie'.list, off, <<>>, ~rd.crc)
    BY DEF Shows
  <2>7. SameTo(cookie.list, cookie'.list, off)
    BY <2>1 DEF SameTo
  <2>8. BodyAt + WordLen \in Nat /\ BodyAt + WordLen = StartOf(bytes, rd.i + 1)
    BY <1>2, <2>2
  <2>9. rd.crc => rd.crc32 \o <<>> = ImageUpTo(bytes, rd.i) \o e
    BY <1>3, <2>4
  <2> HIDE DEF off, e
  <2> QED BY <1>1, <1>3, <2>1, <2>5, <2>6, <2>7, <2>8, <2>9, ChunkShown DEF off, e
<1> QED BY <1>4, <1>5

LEMMA ReadChunkShown ==
  ASSUME HoleApart, RInv, disk' = disk, ReadChunk,
         NEW bytes, NEW damage, Made(bytes, damage), ReadSoFar(bytes, damage)
  PROVE  ReadSoFar(bytes, damage)'
<1> DEFINE rec == Record(Bytes, "chunk", fd.pos, ChunkHeaderLen)
           c == ChunkAt(bytes, fd.pos)
           size == c.total_sz - rd.hdr.chunk_hdr_sz
<1>1. CASE ~Readable(fd.pos, ChunkHeaderLen)
  <2>1. Refuse(0)
    BY <1>1 DEF ReadChunk
  <2> QED BY <2>1, RefuseShown
<1>2. CASE Readable(fd.pos, ChunkHeaderLen)
  <2>1. AtChunkOf(bytes, damage)
    BY <1>2 DEF ReadChunk, AtChunkOf, ReadSoFar
  <2>2. rec = c /\ c # NULL /\ c \in Chunks /\ c.chunk_type # "unknown" /\ U(size) = size
    BY <2>1, ChunkMade
  <2>3. (CASE rec.chunk_type = "raw"      -> RawChunk(rec.chunk_sz, U(rec.total_sz - rd.hdr.chunk_hdr_sz))
          [] rec.chunk_type = "fill"      -> FillChunk(rec.chunk_sz, U(rec.total_sz - rd.hdr.chunk_hdr_sz))
          [] rec.chunk_type = "dont_care" -> SkipChunk(rec.chunk_sz, U(rec.total_sz - rd.hdr.chunk_hdr_sz))
          [] rec.chunk_type = "crc32"     -> CrcChunk(U(rec.total_sz - rd.hdr.chunk_hdr_sz))
          [] OTHER                        -> UnknownChunk)
    BY <1>2, <2>2 DEF ReadChunk
  <2> HIDE DEF rec, c
  <2>4. /\ c.chunk_type = "raw" => RawChunk(c.chunk_sz, size)
        /\ c.chunk_type = "fill" => FillChunk(c.chunk_sz, size)
        /\ c.chunk_type = "dont_care" => SkipChunk(c.chunk_sz, size)
        /\ c.chunk_type = "crc32" => CrcChunk(size)
    BY <2>2, <2>3
  <2>5. c.chunk_type \in {"raw", "fill", "dont_care", "crc32"}
    BY <2>2 DEF Chunks
  <2>6. c = ChunkAt(bytes, fd.pos)
    BY DEF c
  <2> HIDE DEF size
  <2>7. size = c.total_sz - rd.hdr.chunk_hdr_sz
    BY DEF size
  <2>8. CASE c.chunk_type = "raw"
    BY <2>1, <2>4, <2>6, <2>7, <2>8, RawShown
  <2>9. CASE c.chunk_type = "fill"
    BY <2>1, <2>4, <2>6, <2>7, <2>9, FillShown
  <2>10. CASE c.chunk_type = "dont_care"
    BY <2>1, <2>4, <2>6, <2>7, <2>10, SkipShown
  <2>11. CASE c.chunk_type = "crc32"
    BY <2>1, <2>4, <2>6, <2>7, <2>11, CrcShown
  <2> QED BY <2>5, <2>8, <2>9, <2>10, <2>11
<1> QED BY <1>1, <1>2


LEMMA ReadHeaderShown ==
  ASSUME RInv, disk' = disk, ReadHeader, NEW bytes, NEW damage, Made(bytes, damage), ReadSoFar(bytes, damage)
  PROVE  ReadSoFar(bytes, damage)'
<1> DEFINE h == HeaderOf(Bytes)
<1>1. CASE ~Supported(h)
  <2>1. Refuse(0)
    BY <1>1 DEF ReadHeader
  <2> QED BY <2>1, RefuseShown
<1>2. CASE Supported(h)
  <2>1. Bytes = disk["in"] /\ Words(disk["in"]) /\ Harmed(bytes, disk["in"], damage) /\ rd.cur_block = 0
    BY DEF RInv, Typed, Fits, Bytes, Made, ReadHeader
  <2>2. h = HeaderOf(bytes)
    <3>1. Record(disk["in"], "header", 0, HeaderLen) # NULL
      BY <1>2, <2>1 DEF Supported, HeaderOf
    <3>2. HeaderLen \in Nat \ {0} /\ 0 \in Nat
      BY ReaderAssumption
    <3>3. Record(bytes, "header", 0, HeaderLen) = Record(disk["in"], "header", 0, HeaderLen)
      BY <2>1, <3>1, <3>2, SameRecord
    <3> QED BY <2>1, <3>3 DEF HeaderOf
  <2>3. h \in Headers
    <3>1. Words(bytes)
      BY <2>1 DEF Harmed
    <3> QED BY <1>2, <2>2, <3>1, HeaderTyped
  <2>4. /\ fd' = [fd EXCEPT !.pos = h.file_hdr_sz] /\ cookie' = EmptyCookie(h.total_blks * BlockSize)
        /\ rd' = [rd EXCEPT !.pc = "chunk", !.hdr = h] /\ rd.pc = "header"
    BY <1>2 DEF ReadHeader
  <2> HIDE DEF h
  <2>5. rd' = [pc |-> "chunk", auto |-> rd.auto, crc |-> rd.crc, hdr |-> h, i |-> rd.i,
               cur_block |-> rd.cur_block, crc32 |-> rd.crc32, faults |-> rd.faults]
    BY <2>4 DEF RInv, Typed
  <2>6. fd'.pos = h.file_hdr_sz
    BY <2>4 DEF RInv, Typed
  <2>7. rd.i = 0 /\ rd.crc32 = <<>>
    BY <2>4 DEF ReadSoFar
  <2>8. /\ rd'.pc = "chunk" /\ rd'.hdr = h /\ rd'.i = 0 /\ rd'.cur_block = 0 /\ rd'.crc32 = <<>>
    BY <2>1, <2>5, <2>7
  <2>9. h.total_chunks \in Nat /\ 0 \in 0 .. h.total_chunks
    BY <2>3 DEF Headers
  <2>10. fd'.pos = StartOf(bytes, 0)
    <3>1. 0 \in Nat
      OBVIOUS
    <3> QED BY <2>2, <2>6, <3>1, StartNext
  <2>11. ImageUpTo(bytes, 0) = <<>>
    BY ImageNone
  <2>12. <<>> \in Seq(Word) /\ Len(<<>>) = 0 * BlockSize /\ 0 .. 0 - 1 = {} /\ ~(0 > 0)
    BY SizesAssumption
  <2>13. \A dk, list, p, lax : Shows(dk, list, p, <<>>, lax)
    BY DEF Shows
  <2>14. SparseUpTo(bytes, damage)'
    BY <1>2, <2>2, <2>8, <2>9, <2>11, <2>12, <2>13 DEF SparseUpTo
  <2> QED BY <2>8, <2>10, <2>14 DEF ReadSoFar
<1> QED BY <1>1, <1>2

LEMMA EndOfChunksShown ==
  ASSUME RInv, disk' = disk, EndOfChunks, NEW bytes, NEW damage, Made(bytes, damage), ReadSoFar(bytes, damage)
  PROVE  ReadSoFar(bytes, damage)'
<1>1. CASE ~BlocksAgree
  <2>1. Refuse(0)
    BY <1>1 DEF EndOfChunks
  <2> QED BY <2>1, RefuseShown
<1>2. CASE BlocksAgree
  <2>1. /\ rd' = [rd EXCEPT !.pc = "done"] /\ cookie' = cookie /\ rd.pc = "chunk"
        /\ rd.i = rd.hdr.total_chunks /\ rd.hdr.total_blks = rd.cur_block
    BY <1>2 DEF EndOfChunks, BlocksAgree
  <2>2. rd' = [pc |-> "done", auto |-> rd.auto, crc |-> rd.crc, hdr |-> rd.hdr, i |-> rd.i,
               cur_block |-> rd.cur_block, crc32 |-> rd.crc32, faults |-> rd.faults]
    BY <2>1 DEF RInv, Typed
  <2>3. /\ rd'.pc = "done" /\ rd'.crc = rd.crc /\ rd'.hdr = rd.hdr /\ rd'.i = rd.i
        /\ rd'.cur_block = rd.cur_block /\ rd'.crc32 = rd.crc32
    BY <2>2
  <2>4. SparseUpTo(bytes, damage)
    BY <2>1 DEF ReadSoFar
  <2>5. SparseUpTo(bytes, damage)'
    BY <2>1, <2>3, <2>4 DEF SparseUpTo
  <2>6. cookie.len = rd.cur_block * BlockSize
    BY <2>1 DEF RInv, InChunks
  <2>7. rd.hdr # NULL
    BY <2>4 DEF SparseUpTo, Supported
  <2> QED BY <2>1, <2>3, <2>5, <2>6, <2>7 DEF ReadSoFar
<1> QED BY <1>1, <1>2

LEMMA EndOfBlocksShown ==
  ASSUME RInv, disk' = disk, EndOfBlocks, NEW bytes, NEW damage, ReadSoFar(bytes, damage)
  PROVE  ReadSoFar(bytes, damage)'
<1>1. rd' = [rd EXCEPT !.pc = "done"] /\ cookie' = cookie /\ rd.pc = "normal" /\ Remain =< 0
  BY DEF EndOfBlocks
<1>2. rd' = [pc |-> "done", auto |-> rd.auto, crc |-> rd.crc, hdr |-> rd.hdr, i |-> rd.i,
             cur_block |-> rd.cur_block, crc32 |-> rd.crc32, faults |-> rd.faults]
  BY <1>1 DEF RInv, Typed
<1>3. rd'.pc = "done" /\ rd'.hdr = rd.hdr /\ rd'.faults = rd.faults
  BY <1>2
<1>4. cookie.len = Len(disk["in"]) /\ fd.pos =< cookie.len /\ fd.pos \in Nat /\ Len(disk["in"]) \in Nat
  BY <1>1, LenProperties DEF RInv, AtBlock, Typed, Fits, Words
<1>5. fd.pos = Len(disk["in"])
  BY <1>1, <1>4 DEF Remain
<1>6. rd.hdr = NULL /\ (rd.faults = 0 =>
        \A k \in 1 .. fd.pos : ReadAs(disk, ByteAt(cookie.list, k)) = disk["in"][k])
  BY <1>1 DEF ReadSoFar
<1>7. ASSUME rd.faults = 0 PROVE Shows(disk, cookie.list, 0, disk["in"], FALSE)
  <2> SUFFICES ASSUME NEW k \in 1 .. Len(disk["in"])
               PROVE  ReadAs(disk, ByteAt(cookie.list, 0 + k)) = disk["in"][k]
    BY DEF Shows
  <2>1. 0 + k = k
    OBVIOUS
  <2> QED BY <1>5, <1>6, <1>7, <2>1
<1> QED BY <1>1, <1>3, <1>4, <1>6, <1>7 DEF ReadSoFar

(* The plain reader goes on behind a block it has read.                    *)
LEMMA BlockShown ==
  ASSUME HoleApart, RInv, rd.pc = "normal", Remain > 0, ~EmptyChunk, Readable(fd.pos, ToRead),
         NEW x \in Nodes, x = IF Uniform THEN Piece("fill", Bytes[fd.pos + 1], 0, ToRead)
                                         ELSE Piece("fd", <<"path", fd.path>>, fd.pos, ToRead),
         AddExtent(x),
         \A k \in 1 .. fd.pos : ReadAs(disk, ByteAt(cookie.list, k)) = disk["in"][k]
  PROVE  \A k \in 1 .. fd.pos + ToRead : ReadAs(disk, ByteAt(cookie'.list, k)) = disk["in"][k]
<1> DEFINE p == fd.pos
           n == ToRead
           D == disk["in"]
           off == rd.cur_block * BlockSize
           R(k) == ReadAs(disk, ByteAt(cookie'.list, k))
<1>1. Bytes = D /\ D \in Seq(Srcs) /\ Len(D) \in Nat /\ p \in Nat /\ fd.path = "in"
  BY LenProperties DEF RInv, Typed, Fits, Words, Bytes
<1>2. n \in Nat \ {0} /\ p = off
  <2>1. "fd" \in Types /\ <<"path", "in">> \in Srcs /\ 0 \in Nat
    BY FilesAssumption DEF Types
  <2> QED BY <2>1, BlockPiece
<1>3. p + n =< Len(D)
  BY <1>1 DEF Readable
<1>4. D[p + 1] \in Srcs
  <2> HIDE DEF p, n, D
  <2>1. p + 1 \in 1 .. Len(D)
    BY <1>1, <1>2, <1>3
  <2> QED BY <1>1, <2>1, ElementOfSeq
<1>5. WellPlaced(x) /\ End(x) = p + n
  <2>1. CASE Uniform
    <3>1. "fill" \in Types /\ 0 \in Nat /\ Bytes[fd.pos + 1] \in Srcs
      BY <1>1, <1>4 DEF Types
    <3>2. x = Piece("fill", Bytes[fd.pos + 1], 0, ToRead)
      BY <2>1
    <3> QED BY <3>1, <3>2, BlockPiece
  <2>2. CASE ~Uniform
    <3>1. "fd" \in Types /\ <<"path", fd.path>> \in Srcs
      BY <1>1, FilesAssumption DEF Types
    <3>2. x = Piece("fd", <<"path", fd.path>>, fd.pos, ToRead)
      BY <2>2
    <3> QED BY <1>1, <3>1, <3>2, BlockPiece
  <2> QED BY <2>1, <2>2
<1>6. U(n) = n
  <2>1. x.len = U(n) /\ x.block = rd.cur_block
    BY DEF Piece
  <2>2. x.block * BlockSize + x.len = p + n
    BY <1>5 DEF End
  <2>3. x.len \in Nat
    BY NodeNumbers
  <2> HIDE DEF p, n
  <2>4. off + x.len = p + n
    BY <2>1, <2>2
  <2> HIDE DEF off
  <2> QED BY <1>1, <1>2, <2>1, <2>3, <2>4
<1>7. SameTo(cookie.list, cookie'.list, off) /\ \A j \in 1 .. n : R(off + j) = D[p + j]
  <2>1. CASE Uniform
    <3>1. x = Piece("fill", D[p + 1], 0, n)
      BY <1>1, <2>1
    <3>2. \A k \in 1 .. n : Slice(p, n)[k] = D[p + 1]
      BY <1>1, <2>1 DEF Uniform
    <3>3. \A k \in 1 .. n : D[p + k] = D[p + 1]
      <4>1. Slice(p, n) = SubSeq(D, p + 1, p + n)
        BY <1>1 DEF Slice
      <4> HIDE DEF p, n, D
      <4>2. PICK d, q, l : d = D /\ q = p /\ l = n
        OBVIOUS
      <4>3. d \in Seq(Srcs) /\ q \in Nat /\ l \in Nat /\ q + l =< Len(d)
        BY <1>1, <1>2, <1>3, <4>2
      <4>4. LET t == SubSeq(d, q + 1, q + l)
            IN t \in Seq(Srcs) /\ Len(t) = l /\ \A k \in 1 .. l : t[k] = d[q + k]
        BY <4>3, SliceFacts
      <4> QED BY <3>2, <4>1, <4>2, <4>4
    <3>4. /\ SameTo(cookie.list, cookie'.list, off)
          /\ \A k \in 1 .. n : R(off + k) = D[p + 1]
      <4> HIDE DEF p, n, D
      <4> QED BY <1>2, <1>4, <1>5, <1>6, <3>1, FillPieceShown
    <3> QED BY <3>3, <3>4
  <2>2. CASE ~Uniform
    <3>1. x = Piece("fd", <<"path", fd.path>>, p, n)
      BY <2>2
    <3>2. /\ SameTo(cookie.list, cookie'.list, off)
          /\ \A k \in 1 .. n : R(off + k) = IF p + k =< Len(D) THEN D[p + k] ELSE NULL
      <4> HIDE DEF p, n
      <4> QED BY <1>1, <1>2, <1>5, <1>6, <3>1, FilePieceShown
    <3> HIDE DEF p, n, D, R, off
    <3>3. \A k \in 1 .. n : p + k =< Len(D)
      BY <1>1, <1>2, <1>3
    <3> QED BY <3>2, <3>3
  <2> QED BY <2>1, <2>2
<1>8. \A k \in 1 .. p : R(k) = D[k]
  <2>1. \A k \in 1 .. p : ByteAt(cookie'.list, k) = ByteAt(cookie.list, k)
    BY <1>2, <1>7 DEF SameTo
  <2> QED BY <2>1
<1> SUFFICES ASSUME NEW k \in 1 .. p + n PROVE R(k) = D[k]
  OBVIOUS
<1> HIDE DEF p, n, D, R, off
<1>9. k \in 1 .. p \/ (k - p \in 1 .. n /\ p + (k - p) = k)
  BY <1>1, <1>2
<1> QED BY <1>2, <1>7, <1>8, <1>9

LEMMA ReadBlockShown ==
  ASSUME HoleApart, RInv, disk' = disk, ReadBlock,
         NEW bytes, NEW damage, Made(bytes, damage), ReadSoFar(bytes, damage)
  PROVE  ReadSoFar(bytes, damage)'
<1> DEFINE x == IF Uniform THEN Piece("fill", Bytes[fd.pos + 1], 0, ToRead)
                           ELSE Piece("fd", <<"path", fd.path>>, fd.pos, ToRead)
           m == fd.pos + ToRead
<1>1. /\ rd.pc = "normal" /\ Remain > 0 /\ cookie \in Cookies /\ ~EmptyChunk /\ rd.hdr = NULL /\ rd.faults \in Nat
      /\ rd.faults = 0 => \A k \in 1 .. fd.pos : ReadAs(disk, ByteAt(cookie.list, k)) = disk["in"][k]
  BY DEF ReadBlock, RInv, Typed, Made, ReadSoFar
<1>2. CASE ~Readable(fd.pos, ToRead)
  <2>1. rd' = [rd EXCEPT !.pc = "done"] /\ cookie' = NULL
    BY <1>2 DEF ReadBlock
  <2>2. rd'.pc = "done"
    BY <2>1 DEF RInv, Typed
  <2> QED BY <2>1, <2>2 DEF ReadSoFar
<1>3. CASE Readable(fd.pos, ToRead)
  <2>1. \/ ~NoMemory /\ IF ~QueueAsserts(cookie, x) THEN Abort
                        ELSE /\ AddExtent(x)
                             /\ rd' = [rd EXCEPT !.cur_block = @ + 1]
                             /\ fd' = [fd EXCEPT !.pos = @ + ToRead]
        \/ /\ rd' = [rd EXCEPT !.cur_block = @ + 1, !.faults = @ + 1]
           /\ fd' = [fd EXCEPT !.pos = @ + ToRead]
           /\ UNCHANGED cookie
    BY <1>3 DEF ReadBlock
  <2>2. x \in Nodes \/ Fresh \notin Addr
    <3>1. fd.path = "in" /\ fd.pos \in Nat /\ Bytes = disk["in"] /\ disk["in"] \in Seq(Srcs) /\ Len(disk["in"]) \in Nat
      BY LenProperties DEF RInv, Typed, Fits, Words, Bytes
    <3>2. CASE ~Uniform
      <4>1. "fd" \in Types /\ <<"path", fd.path>> \in Srcs
        BY <3>1, FilesAssumption DEF Types
      <4>2. x = Piece("fd", <<"path", fd.path>>, fd.pos, ToRead)
        BY <3>2
      <4> HIDE DEF x
      <4> QED BY <1>1, <3>1, <4>1, <4>2, BlockPiece
    <3>3. CASE Uniform
      <4>1. x = Piece("fill", Bytes[fd.pos + 1], 0, ToRead)
        BY <3>3
      <4>2. ToRead \in Nat \ {0}
        <5>1. "fd" \in Types /\ <<"path", "in">> \in Srcs /\ 0 \in Nat
          BY FilesAssumption DEF Types
        <5> QED BY <1>1, <5>1, BlockPiece
      <4>3. fd.pos + 1 \in 1 .. Len(disk["in"])
        BY <1>3, <3>1, <4>2 DEF Readable
      <4>4. "fill" \in Types /\ 0 \in Nat /\ Bytes[fd.pos + 1] \in Srcs
        BY <3>1, <4>3, ElementOfSeq DEF Types
      <4> HIDE DEF x
      <4> QED BY <1>1, <4>1, <4>4, BlockPiece
    <3> QED BY <3>2, <3>3
  <2>3. CASE Abort
    BY <2>3, AbortShown
  <2>4. CASE ~NoMemory /\ /\ AddExtent(x)
                          /\ rd' = [rd EXCEPT !.cur_block = @ + 1]
                          /\ fd' = [fd EXCEPT !.pos = @ + ToRead]
    <3>1. x \in Nodes
      BY <1>1, <2>2, <2>4, FreshFacts
    <3>2. rd'.pc = "normal" /\ rd'.hdr = rd.hdr /\ rd'.faults = rd.faults
      <4>1. rd' = [pc |-> rd.pc, auto |-> rd.auto, crc |-> rd.crc, hdr |-> rd.hdr, i |-> rd.i,
                   cur_block |-> rd.cur_block + 1, crc32 |-> rd.crc32, faults |-> rd.faults]
        BY <2>4 DEF RInv, Typed
      <4> QED BY <1>1, <4>1
    <3>3. fd'.pos = m
      BY <2>4 DEF RInv, Typed
    <3>4. x = IF Uniform THEN Piece("fill", Bytes[fd.pos + 1], 0, ToRead)
                         ELSE Piece("fd", <<"path", fd.path>>, fd.pos, ToRead)
      OBVIOUS
    <3> HIDE DEF x
    <3>5. rd.faults = 0 => \A k \in 1 .. m : ReadAs(disk, ByteAt(cookie'.list, k)) = disk["in"][k]
      BY <1>1, <1>3, <2>4, <3>1, <3>4, BlockShown
    <3> HIDE DEF m
    <3> QED BY <1>1, <3>2, <3>3, <3>5 DEF ReadSoFar
  <2>5. CASE rd' = [rd EXCEPT !.cur_block = @ + 1, !.faults = @ + 1]
    <3>1. rd' = [pc |-> rd.pc, auto |-> rd.auto, crc |-> rd.crc, hdr |-> rd.hdr, i |-> rd.i,
                 cur_block |-> rd.cur_block + 1, crc32 |-> rd.crc32, faults |-> rd.faults + 1]
      BY <2>5 DEF RInv, Typed
    <3>2. rd'.pc = "normal" /\ rd'.hdr = NULL /\ rd'.faults = rd.faults + 1
      BY <1>1, <3>1
    <3>3. rd'.faults # 0
      BY <1>1, <3>2
    <3> QED BY <3>2, <3>3 DEF ReadSoFar
  <2> QED BY <2>1, <2>3, <2>4, <2>5
<1> QED BY <1>2, <1>3


\* The file is one its writer meant, or what damage left of such a file.
FromRegular ==
  \E bytes \in Files : \E left \in Damaged(bytes) :
    /\ Regular(bytes) /\ disk["in"] = left.bytes
    /\ origin = [image |-> StandsFor(bytes), damage |-> left.damage]

XInv == RInv /\ \E bytes, damage : Made(bytes, damage) /\ ReadSoFar(bytes, damage)

LEMMA MadeKept ==
  ASSUME RInv, RInv', disk' = disk, origin' = origin, NEW bytes, NEW damage, Made(bytes, damage)
  PROVE  Made(bytes, damage)'
<1>1. fd'.path = "in"
  BY DEF RInv, Typed
<1>2. EmptyChunk' <=> EmptyChunk
  BY <1>1, SameFile DEF RInv
<1> QED BY <1>2 DEF Made

LEMMA InitShown == ASSUME Init, FromRegular PROVE XInv
<1>1. PICK bytes \in Files : \E left \in Damaged(bytes) :
        /\ Regular(bytes) /\ disk["in"] = left.bytes
        /\ origin = [image |-> StandsFor(bytes), damage |-> left.damage]
  BY DEF FromRegular
<1>2. PICK left \in Damaged(bytes) :
        /\ Regular(bytes) /\ disk["in"] = left.bytes
        /\ origin = [image |-> StandsFor(bytes), damage |-> left.damage]
  BY <1>1
<1>3. /\ fd = [path |-> "in", pos |-> 0] /\ Bytes = disk["in"]
      /\ \/ \E auto, crc \in BOOLEAN : rd = [Idle EXCEPT !.pc = "header", !.auto = auto, !.crc = crc]
         \/ rd = [Idle EXCEPT !.pc = "normal"]
  <2>1. fd = [path |-> "in", pos |-> 0]
    BY DEF Init
  <2>2. Bytes = disk["in"]
    BY <2>1 DEF Bytes
  <2>3. \/ \E auto, crc \in BOOLEAN : rd = [Idle EXCEPT !.pc = "header", !.auto = auto, !.crc = crc]
        \/ rd = [Idle EXCEPT !.pc = "normal"]
    BY Zenon DEF Init
  <2> QED BY <2>1, <2>2, <2>3
<1>4. Harmed(bytes, disk["in"], left.damage)
  BY <1>2, FileFits, HarmedFacts
<1>5. ~EmptyChunk
  <2> SUFFICES ASSUME NEW n \in DOMAIN disk["in"], disk["in"][n][1] = "chunk", disk["in"][n][2].chunk_sz = 0,
                      disk["in"][n][2].chunk_type \in {"raw", "fill"}
               PROVE  FALSE
    BY <1>3 DEF EmptyChunk
  <2>1. /\ DOMAIN disk["in"] = 1 .. Len(disk["in"]) /\ DOMAIN bytes = 1 .. Len(bytes)
        /\ Len(disk["in"]) \in Nat /\ Len(bytes) \in Nat /\ Len(disk["in"]) =< Len(bytes)
    BY <1>4, LenProperties DEF Harmed, Words
  <2>2. n \in 1 .. Len(disk["in"]) /\ n \in DOMAIN bytes
    BY <2>1
  <2>3. disk["in"][n] = bytes[n]
    BY <1>4, <2>2 DEF Harmed
  <2> QED BY <1>2, <2>2, <2>3 DEF Regular
<1>6. Made(bytes, left.damage)
  BY <1>2, <1>3, <1>4, <1>5 DEF Made
<1>7. ReadSoFar(bytes, left.damage)
  <2>1. CASE \E auto, crc \in BOOLEAN : rd = [Idle EXCEPT !.pc = "header", !.auto = auto, !.crc = crc]
    <3>1. rd.pc = "header" /\ rd.i = 0 /\ rd.crc32 = <<>>
      BY <2>1 DEF Idle
    <3> QED BY <3>1 DEF ReadSoFar
  <2>2. CASE rd = [Idle EXCEPT !.pc = "normal"]
    <3>1. rd.pc = "normal" /\ rd.hdr = NULL
      BY <2>2 DEF Idle
    <3>2. fd.pos = 0
      BY <1>3
    <3>3. 1 .. 0 = {}
      OBVIOUS
    <3> QED BY <3>1, <3>2, <3>3 DEF ReadSoFar
  <2> QED BY <1>3, <2>1, <2>2
<1> QED BY <1>6, <1>7, InitHolds DEF XInv

LEMMA StepShown == ASSUME HoleApart, XInv, [Next]_vars PROVE XInv'
<1>1. RInv /\ RInv'
  BY StepKeeps DEF XInv
<1>2. PICK bytes, damage : Made(bytes, damage) /\ ReadSoFar(bytes, damage)
  BY DEF XInv
<1>3. ASSUME UNCHANGED vars PROVE ReadSoFar(bytes, damage)'
  BY <1>2, <1>3 DEF vars, ReadSoFar, SparseUpTo
<1>4. ASSUME Next PROVE ReadSoFar(bytes, damage)'
  <2>1. disk' = disk
    BY <1>4 DEF Next
  <2>2. CASE ReadHeader
    BY <1>1, <1>2, <2>1, <2>2, ReadHeaderShown
  <2>3. CASE ReadChunk
    BY <1>1, <1>2, <2>1, <2>3, ReadChunkShown
  <2>4. CASE EndOfChunks
    BY <1>1, <1>2, <2>1, <2>4, EndOfChunksShown
  <2>5. CASE ReadBlock
    BY <1>1, <1>2, <2>1, <2>5, ReadBlockShown
  <2>6. CASE EndOfBlocks
    BY <1>1, <1>2, <2>1, <2>6, EndOfBlocksShown
  <2> QED BY <1>4, <2>2, <2>3, <2>4, <2>5, <2>6 DEF Next, Read
<1>5. disk' = disk /\ origin' = origin
  BY DEF Next, vars
<1>6. Made(bytes, damage)'
  BY <1>1, <1>2, <1>5, MadeKept
<1> QED BY <1>1, <1>3, <1>4, <1>6 DEF XInv

(* A checksum at the end that was confirmed leaves no rot unnoticed.       *)
LEMMA CheckedToEnd ==
  ASSUME NEW bytes, NEW damage, Made(bytes, damage), SparseUpTo(bytes, damage), Bytes = disk["in"],
         rd.i = rd.hdr.total_chunks, damage = "rot", rd.crc, Checked
  PROVE  rd.crc32 = ImageUpTo(bytes, rd.i)
<1> DEFINE n == Len(bytes)
<1>1. /\ Harmed(bytes, disk["in"], damage) /\ Len(disk["in"]) = n /\ n \in Nat
      /\ rd.hdr = HeaderOf(bytes) /\ Supported(rd.hdr)
  BY LenProperties DEF Made, Harmed, Words, SparseUpTo
<1>2. n \in 1 .. Len(disk["in"])
  <2>1. 0 + HeaderLen =< n
    BY <1>1 DEF Supported, HeaderOf, Record
  <2> QED BY <1>1, <2>1, ReaderAssumption
<1>3. disk["in"][n][1] = "crc"
  BY <1>1 DEF Checked
<1> HIDE DEF n
<1>4. disk["in"][n] = bytes[n]
  BY <1>1, <1>2, <1>3 DEF Harmed
<1>5. rd.hdr.total_chunks > 0 /\ ChunkAt(bytes, StartOf(bytes, rd.hdr.total_chunks - 1)).chunk_type = "crc32"
  BY <1>1, <1>3, <1>4 DEF Made, Regular, n
<1> QED BY <1>5 DEF SparseUpTo

LEMMA ShownExact == ASSUME XInv PROVE Exact
<1> SUFFICES ASSUME Accepted, rd.faults = 0
             PROVE  IF rd.hdr = NULL
                    THEN ReadBack = Bytes
                    ELSE origin.damage # "rot" \/ (rd.crc /\ Checked) =>
                           /\ Len(ReadBack) = Len(origin.image)
                           /\ \A k \in DOMAIN ReadBack :
                                ReadBack[k] = origin.image[k] \/ (ReadBack[k] = NULL /\ ~rd.crc)
  BY DEF Exact
<1>1. PICK bytes, damage : Made(bytes, damage) /\ ReadSoFar(bytes, damage)
  BY DEF XInv
<1>2. /\ rd.pc = "done" /\ cookie # NULL /\ cookie \in Cookies /\ Bytes = disk["in"] /\ disk["in"] \in Seq(Srcs)
      /\ origin = [image |-> StandsFor(bytes), damage |-> damage]
  BY <1>1 DEF Accepted, XInv, RInv, Typed, Fits, Words, Bytes, Made
<1> DEFINE R(k) == ReadAs(disk, ByteAt(cookie.list, k))
<1>3. cookie.len \in Nat
  BY <1>2 DEF Cookies
<1>4. \A b : Resolve(b) = ReadAs(disk, b)
  BY DEF Resolve, ReadAs
<1>5. ReadBack = [k \in 1 .. cookie.len |-> R(k)]
  <2>1. \A k \in 1 .. cookie.len : Resolve(Image(cookie)[k]) = R(k)
    BY <1>4 DEF Image
  <2> QED BY <2>1 DEF ReadBack
<1>6. CASE rd.hdr = NULL
  <2>1. cookie.len = Len(disk["in"]) /\ Shows(disk, cookie.list, 0, disk["in"], FALSE)
    BY <1>1, <1>2, <1>6 DEF ReadSoFar
  <2>2. \A k \in 1 .. Len(disk["in"]) : R(k) = disk["in"][k]
    <3> SUFFICES ASSUME NEW k \in 1 .. Len(disk["in"]) PROVE R(k) = disk["in"][k]
      OBVIOUS
    <3>1. 0 + k = k
      OBVIOUS
    <3> QED BY <2>1, <3>1 DEF Shows
  <2>3. disk["in"] = [k \in 1 .. Len(disk["in"]) |-> disk["in"][k]]
    BY <1>2, LenProperties
  <2> HIDE DEF R
  <2>4. ReadBack = disk["in"]
    BY <1>5, <2>1, <2>2, <2>3
  <2> QED BY <1>2, <1>6, <2>4
<1>7. CASE rd.hdr # NULL
  <2>1. SparseUpTo(bytes, damage) /\ rd.i = rd.hdr.total_chunks /\ cookie.len = rd.cur_block * BlockSize
    BY <1>1, <1>2, <1>7 DEF ReadSoFar
  <2> DEFINE image == ImageUpTo(bytes, rd.i)
  <2>2. origin.image = image /\ Len(image) = cookie.len /\ origin.damage = damage
    BY <1>2, <2>1 DEF SparseUpTo, StandsFor
  <2>3. Len(ReadBack) = cookie.len /\ DOMAIN ReadBack = 1 .. cookie.len /\ \A k \in 1 .. cookie.len : ReadBack[k] = R(k)
    <3> HIDE DEF R
    <3>1. \A k \in 1 .. cookie.len : R(k) \in {R(j) : j \in 1 .. cookie.len}
      OBVIOUS
    <3> QED BY <1>3, <1>5
  <2>4. ASSUME damage # "rot" \/ (rd.crc /\ Checked)
        PROVE  Shows(disk, cookie.list, 0, image, ~rd.crc)
    <3>1. CASE damage # "rot"
      BY <2>1, <3>1 DEF SparseUpTo
    <3>2. CASE damage = "rot"
      <4>1. rd.crc32 = image /\ rd.crc
        BY <1>1, <1>2, <2>1, <2>4, <3>2, CheckedToEnd
      <4>2. Shows(disk, cookie.list, 0, rd.crc32, FALSE)
        BY <2>1, <4>1 DEF SparseUpTo
      <4> QED BY <4>1, <4>2
    <3> QED BY <3>1, <3>2
  <2>5. ASSUME damage # "rot" \/ (rd.crc /\ Checked), NEW k \in 1 .. cookie.len
        PROVE  R(k) = image[k] \/ (R(k) = NULL /\ ~rd.crc)
    <3>1. 0 + k = k /\ k \in 1 .. Len(image)
      BY <2>2
    <3> HIDE DEF image
    <3>2. Shows(disk, cookie.list, 0, image, ~rd.crc)
      BY <2>4, <2>5
    <3>3. \/ ReadAs(disk, ByteAt(cookie.list, 0 + k)) = image[k]
          \/ ~rd.crc /\ ReadAs(disk, ByteAt(cookie.list, 0 + k)) = NULL
      BY <3>1, <3>2 DEF Shows
    <3> QED BY <3>1, <3>3
  <2> HIDE DEF R, image
  <2> QED BY <1>7, <2>2, <2>3, <2>5
<1> QED BY <1>6, <1>7

-----------------------------------------------------------------------------
(* The theorems.                                                           *)

LEMMA InvariantHolds == Spec => []RInv
BY InitHolds, StepKeeps, PTL DEF Spec

(* The locals of the readers keep their types, whatever the file holds:    *)
(* in particular the plain reader never looks behind the end of the file.  *)
THEOREM TypesKept == Spec => []TypeOK
<1>1. RInv => TypeOK
  <2> SUFFICES ASSUME RInv PROVE TypeOK
    OBVIOUS
  <2>1. {fd.pos, rd.i, rd.cur_block, rd.faults} \subseteq Nat
    BY DEF RInv, Typed
  <2>2. rd.pc \in {"idle", "header", "chunk", "normal", "done", "aborted"}
    BY DEF RInv, Typed
  <2>3. cookie = NULL \/ [list |-> cookie.list, last_used |-> cookie.last_used]
                            \in [list : Seq(Nodes), last_used : Addr \cup {NULL}]
    BY DEF RInv, Typed, Cookies
  <2>4. rd.pc = "normal" => fd.pos =< Len(Bytes)
    BY DEF RInv, Typed, AtBlock, Bytes
  <2> QED BY <2>1, <2>2, <2>3, <2>4 DEF TypeOK
<1> QED BY <1>1, InvariantHolds, PTL

(* Whatever a file holds, a cookie that the readers return is one that the *)
(* writer and resparse can take, unless a chunk of the file was empty.     *)
THEOREM ReadyForWriter == Spec => []ReadyToWrite
<1>1. RInv => ReadyToWrite
  <2> SUFFICES ASSUME RInv, Accepted, ~EmptyChunk PROVE
        /\ Ascending(cookie.list)
        /\ \A x \in ToSet(cookie.list) : x.len > 0 /\ x.block * BlockSize + x.len =< cookie.len
    BY DEF ReadyToWrite
  <2>1. Kept(cookie, cookie.len)
    BY DEF RInv, Ordered, Accepted
  <2>2. \A x \in ToSet(cookie.list) : WellPlaced(x)
    BY <2>1, GoodListFacts DEF Kept, ToSet
  <2> QED BY <2>1, <2>2 DEF Kept, GoodList, WellPlaced, End
<1> QED BY <1>1, InvariantHolds, PTL

(* No file makes the assert of merge_bb fail, unless it has an empty chunk. *)
THEOREM NeverAsserts == Spec => []NoAbort
<1>1. RInv => NoAbort
  BY DEF RInv
<1> QED BY <1>1, InvariantHolds, PTL

(* What the readers accept of a file as its writer meant it, or of what    *)
(* damage left of one, is read exactly: a plain file as it is, a sparse    *)
(* file as the image it was made for.  A file cut short lacks only data of *)
(* its last chunk, for a caller that asks for no checksum, and rot does    *)
(* not go unnoticed where there is one.                                    *)
THEOREM ImageRead == HoleApart => (Spec /\ FromRegular => []Exact)
<1> SUFFICES ASSUME HoleApart PROVE Spec /\ FromRegular => []Exact
  OBVIOUS
<1>1. Init /\ FromRegular => XInv
  BY InitShown
<1>2. XInv /\ [Next]_vars => XInv'
  BY StepShown
<1>3. XInv => Exact
  BY ShownExact
<1> QED BY <1>1, <1>2, <1>3, PTL DEF Spec
=============================================================================
