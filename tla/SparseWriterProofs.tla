------------------------- MODULE SparseWriterProofs -------------------------
(***************************************************************************)
(* Proofs about SparseWriter: whatever the extents of a cookie are, the    *)
(* file that is written without an error stands for its image.             *)
(***************************************************************************)
EXTENDS SparseWriter, ListLemmas

\* What the functions that write assume, and their callers do not always see to:
\* an image of whole blocks, lengths that can be rounded up in an unsigned int,
\* and fills of whole blocks.
WholeBlocks ==
  \A c \in Cookies :
    /\ c.len % BlockSize = 0
    /\ \A i \in DOMAIN c.list :
         /\ c.list[i].len + BlockSize =< UIntMod
         /\ c.list[i].type = "fill" => c.list[i].len % BlockSize = 0

Byte == {Hole, "crc"} \cup (Types \X Srcs) \cup (Types \X Srcs \X Nat)

-----------------------------------------------------------------------------
(* The extents of a cookie.                                                *)

LEMMA CookieFacts ==
  ASSUME NEW c \in Cookies
  PROVE  /\ c.list \in Seq(Nodes) /\ Len(c.list) \in Nat /\ DOMAIN c.list = 1 .. Len(c.list)
         /\ c.len \in Nat /\ Ascending(c.list)
         /\ \A i \in 1 .. Len(c.list) :
              /\ c.list[i] \in Nodes /\ c.list[i].len > 0
              /\ c.list[i].block * BlockSize + c.list[i].len =< c.len
BY WriterAssumption, LenProperties, ElementOfSeq

\* The numbers of a node, which hold nothing but blocks.
LEMMA NodeFacts ==
  ASSUME NEW x \in Nodes
  PROVE  /\ x.len \in Nat /\ x.block \in Nat /\ x.off \in Nat /\ NBlocks(x) \in Nat
         /\ EndBlock(x) = x.block + NBlocks(x) /\ EndBlock(x) \in Nat
         /\ x.block * BlockSize \in Nat /\ NBlocks(x) * BlockSize \in Nat
         /\ EndBlock(x) * BlockSize = x.block * BlockSize + NBlocks(x) * BlockSize
<1>1. BlockSize \in Nat \ {0} /\ UIntMod \in Nat \ {0}
  BY SizesAssumption
<1>2. x.len \in Nat /\ x.block \in Nat /\ x.off \in Nat
  BY <1>1 DEF Nodes, UInt
<1>3. U(x.len + BlockSize - 1) \in Nat
  BY <1>1, <1>2 DEF U
<1>4. NBlocks(x) \in Nat
  BY <1>1, <1>3, DivFacts DEF NBlocks, DivRoundUp
<1> DEFINE b == x.block
           n == NBlocks(x)
<1>5. EndBlock(x) = b + n
  BY DEF EndBlock
<1>6. b \in Nat /\ n \in Nat
  BY <1>2, <1>4
<1> HIDE DEF b, n
<1>7. b * BlockSize \in Nat /\ n * BlockSize \in Nat /\ b + n \in Nat
      /\ (b + n) * BlockSize = b * BlockSize + n * BlockSize
  BY <1>1, <1>6
<1> QED BY <1>2, <1>5, <1>6, <1>7 DEF b, n

\* A length is padded to the end of its last block.
LEMMA RoundedUp ==
  ASSUME NEW x \in Nodes, x.len + BlockSize =< UIntMod
  PROVE  /\ x.len =< NBlocks(x) * BlockSize /\ NBlocks(x) * BlockSize < x.len + BlockSize
         /\ x.len % BlockSize = 0 => NBlocks(x) * BlockSize = x.len
<1> DEFINE B == BlockSize
           n == x.len + B - 1
           k == n \div B
<1>1. B \in Nat \ {0} /\ UIntMod \in Nat \ {0} /\ x.len \in Nat
  BY SizesAssumption, NodeFacts
<1>2. n \in Nat /\ n < UIntMod
  BY <1>1
<1>3. NBlocks(x) = k
  <2>1. n % UIntMod = n
    BY <1>1, <1>2
  <2> QED BY <2>1 DEF NBlocks, DivRoundUp, U
<1>4. k \in Nat /\ B * k =< n /\ n < B * k + B /\ B * k \in Int /\ k * B = B * k
  BY <1>1, <1>2, DivFacts
<1>5. x.len =< k * B /\ k * B < x.len + B
  <2> HIDE DEF k
  <2> QED BY <1>1, <1>4
<1>6. x.len % B = 0 => k * B = x.len
  <2> SUFFICES ASSUME x.len % B = 0 PROVE k * B = x.len
    OBVIOUS
  <2> DEFINE q == x.len \div B
  <2>1. q \in Nat /\ x.len = B * q /\ B * q \in Nat
    BY <1>1, DivFacts
  <2>2. B * q =< n /\ n < B * q + B
    <3> HIDE DEF q
    <3> QED BY <1>1, <2>1
  <2> HIDE DEF q
  <2>3. k = q
    BY <1>1, <1>2, <2>1, <2>2, DivUnique
  <2> HIDE DEF k
  <2> QED BY <1>4, <2>1, <2>3
<1> QED BY <1>3, <1>5, <1>6

\* An extent ends, with its padding, inside the image.
LEMMA ExtentFacts ==
  ASSUME WholeBlocks, NEW c \in Cookies, NEW i \in 1 .. Len(c.list)
  PROVE  /\ c.list[i] \in Nodes /\ c.list[i].len > 0 /\ c.list[i].len \in Nat
         /\ c.list[i].block * BlockSize \in Nat /\ EndBlock(c.list[i]) * BlockSize \in Nat
         /\ c.list[i].block * BlockSize + c.list[i].len =< EndBlock(c.list[i]) * BlockSize
         /\ EndBlock(c.list[i]) * BlockSize < c.list[i].block * BlockSize + c.list[i].len + BlockSize
         /\ EndBlock(c.list[i]) * BlockSize =< c.len
         /\ c.list[i].type = "fill" =>
              EndBlock(c.list[i]) * BlockSize = c.list[i].block * BlockSize + c.list[i].len
<1> DEFINE x == c.list[i]
           B == BlockSize
           s0 == x.block * B
           e == EndBlock(x)
           q == c.len \div B
<1>1. B \in Nat \ {0} /\ c.len \in Nat /\ c.list \in Seq(Nodes) /\ i \in DOMAIN c.list
  BY SizesAssumption, CookieFacts
<1>2. x \in Nodes /\ x.len > 0 /\ s0 + x.len =< c.len
  BY CookieFacts
<1>3. /\ x.len + B =< UIntMod /\ (x.type = "fill" => x.len % B = 0) /\ c.len % B = 0
  BY <1>1 DEF WholeBlocks
<1>4. /\ x.len \in Nat /\ s0 \in Nat /\ e \in Nat /\ NBlocks(x) * B \in Nat
      /\ e * B = s0 + NBlocks(x) * B
  BY <1>2, NodeFacts
<1>5. /\ x.len =< NBlocks(x) * B /\ NBlocks(x) * B < x.len + B
      /\ (x.len % B = 0 => NBlocks(x) * B = x.len)
  BY <1>2, <1>3, RoundedUp
<1>6. q \in Nat /\ c.len = B * q
  BY <1>1, <1>3, DivFacts
<1> HIDE DEF e, q, s0, x
<1>7. s0 + x.len =< e * B /\ e * B < s0 + x.len + B
  BY <1>1, <1>4, <1>5
<1>8. e * B =< c.len
  <2>1. e * B < B * q + B
    <3> DEFINE eB == e * B
    <3>1. eB < s0 + x.len + B /\ eB \in Nat /\ s0 + x.len =< c.len /\ x.len \in Nat
      BY <1>1, <1>2, <1>4, <1>7
    <3>2. s0 \in Nat /\ B \in Nat /\ c.len \in Nat
      BY <1>1, <1>4
    <3> HIDE DEF eB, B
    <3>3. eB < c.len + B
      BY <3>1, <3>2
    <3>4. eB < B * q + B
      BY <1>6, <3>3
    <3> QED BY <3>4 DEF eB
  <2>2. B * (q + 1) = B * q + B /\ B * e = e * B
    BY <1>1, <1>4, <1>6
  <2>3. e < q + 1
    BY <1>1, <1>4, <1>6, <2>1, <2>2, MulLess
  <2>4. e =< q
    BY <1>4, <1>6, <2>3
  <2>5. B * e =< B * q
    BY <1>1, <1>4, <1>6, <2>4, MulLess
  <2> QED BY <1>6, <2>2, <2>5
<1>9. x.type = "fill" => e * B = s0 + x.len
  BY <1>3, <1>4, <1>5
<1>10. e * B \in Nat
  BY <1>1, <1>4
<1> QED BY <1>2, <1>4, <1>7, <1>8, <1>9, <1>10 DEF x, s0, e

LEMMA TimesBlock ==
  ASSUME NEW a \in Nat, NEW b \in Nat
  PROVE  /\ a * BlockSize \in Nat
         /\ a =< b => a * BlockSize =< b * BlockSize /\ (b - a) * BlockSize = b * BlockSize - a * BlockSize
         /\ (a * BlockSize) % BlockSize = 0 /\ (a * BlockSize) \div BlockSize = a
<1>1. BlockSize \in Nat \ {0}
  BY SizesAssumption
<1>2. a * BlockSize = BlockSize * a /\ b * BlockSize = BlockSize * b /\ BlockSize * a \in Nat
  BY <1>1
<1>3. a =< b => BlockSize * a =< BlockSize * b
  BY <1>1, MulLess
<1>4. (b - a) * BlockSize = b * BlockSize - a * BlockSize
  BY <1>1
<1>5. (BlockSize * a) \div BlockSize = a
  <2> DEFINE n == BlockSize * a
  <2>1. n \in Nat /\ BlockSize * a =< n /\ n < BlockSize * a + BlockSize
    BY <1>1, <1>2
  <2> HIDE DEF n
  <2>2. n \div BlockSize = a
    BY <1>1, <2>1, DivUnique
  <2> QED BY <2>2 DEF n
<1>6. (BlockSize * a) % BlockSize = 0
  BY <1>1, <1>2, <1>5
<1> QED BY <1>2, <1>3, <1>4, <1>5, <1>6

\* The extents before one end before it, and so does the last block of them.
LEMMA OrderFacts ==
  ASSUME NEW c \in Cookies, NEW i \in 1 .. Len(c.list), NEW j \in 1 .. Len(c.list), j < i
  PROVE  /\ EndBlock(c.list[j]) =< c.list[i].block
         /\ EndBlock(c.list[j]) * BlockSize =< c.list[i].block * BlockSize
<1>1. EndBlock(c.list[j]) =< c.list[i].block
  BY CookieFacts DEF Ascending, EndBlock
<1>2. EndBlock(c.list[j]) \in Nat /\ c.list[i].block \in Nat
  BY CookieFacts, NodeFacts
<1> QED BY <1>1, <1>2, TimesBlock

LEMMA LastFacts ==
  ASSUME NEW c \in Cookies, NEW i \in 1 .. Len(c.list) + 1
  PROVE  /\ LastBlock(c.list, i) \in Nat
         /\ i =< Len(c.list) => LastBlock(c.list, i) =< c.list[i].block
<1>1. Len(c.list) \in Nat
  BY CookieFacts
<1>2. CASE i = 1
  <2>1. 1 =< Len(c.list) => c.list[1] \in Nodes
    BY <1>1, CookieFacts
  <2> QED BY <1>2, <2>1, NodeFacts DEF LastBlock
<1>3. CASE i # 1
  <2>1. i-1 \in 1 .. Len(c.list) /\ i-1 < i
    BY <1>1, <1>3
  <2>2. EndBlock(c.list[i-1]) \in Nat
    BY <2>1, CookieFacts, NodeFacts
  <2>3. i =< Len(c.list) => EndBlock(c.list[i-1]) =< c.list[i].block
    BY <1>1, <2>1, OrderFacts
  <2> QED BY <1>3, <2>2, <2>3 DEF LastBlock
<1> QED BY <1>2, <1>3

-----------------------------------------------------------------------------
(* The bytes of an image: those of an extent, and holes.                   *)

\* Where the data before position i of a list end.
DataEnd(list, i) == IF i = 1 THEN 0 ELSE list[i-1].block * BlockSize + list[i-1].len

LEMMA HoleBytes ==
  ASSUME WholeBlocks, NEW c \in Cookies, NEW i \in 1 .. Len(c.list) + 1, NEW k \in Nat,
         DataEnd(c.list, i) < k, i =< Len(c.list) => k =< c.list[i].block * BlockSize
  PROVE  ByteAt(c.list, k) = Hole
<1> DEFINE list == c.list
           Start(x) == x.block * BlockSize
<1>1. Len(list) \in Nat /\ BlockSize \in Nat \ {0}
  BY CookieFacts, SizesAssumption
<1>2. ASSUME NEW j \in 1 .. Len(list), Start(list[j]) < k, k =< Start(list[j]) + list[j].len
      PROVE FALSE
  <2> DEFINE y == list[j]
  <2>1. y \in Nodes /\ Start(y) \in Nat /\ y.len \in Nat
    BY CookieFacts, NodeFacts
  <2>2. CASE j >= i
    <3>1. i \in 1 .. Len(list) /\ i =< Len(list)
      BY <1>1, <2>2
    <3>2. Start(list[i]) \in Nat /\ list[i].len \in Nat /\ EndBlock(list[i]) * BlockSize \in Nat
          /\ Start(list[i]) + list[i].len =< EndBlock(list[i]) * BlockSize
      BY <3>1, ExtentFacts
    <3>3. Start(list[i]) =< Start(y)
      <4>1. CASE j = i
        BY <2>1, <4>1
      <4>2. CASE j > i
        <5>1. EndBlock(list[i]) * BlockSize =< Start(y)
          BY <3>1, <4>2, OrderFacts
        <5>2. list[i].len >= 0
          BY <3>2
        <5> HIDE DEF Start, y
        <5> QED BY <2>1, <3>2, <5>1, <5>2, SMTT(40)
      <4> QED BY <1>1, <2>2, <4>1, <4>2
    <3>4. k =< Start(list[i])
      BY <3>1
    <3> HIDE DEF y, Start
    <3> QED BY <1>2, <2>1, <3>2, <3>3, <3>4 DEF y
  <2>3. CASE j < i
    <3>1. i # 1 /\ i-1 \in 1 .. Len(list) /\ DataEnd(list, i) = Start(list[i-1]) + list[i-1].len
      BY <1>1, <2>3 DEF DataEnd
    <3>2. Start(list[i-1]) \in Nat /\ list[i-1].len \in Nat
      BY <3>1, CookieFacts, NodeFacts
    <3>3. Start(y) + y.len =< DataEnd(list, i)
      <4>1. CASE j = i-1
        BY <2>1, <3>1, <3>2, <4>1
      <4>2. CASE j # i-1
        <5>1. j < i-1
          BY <1>1, <2>3, <4>2
        <5>2. EndBlock(y) * BlockSize =< Start(list[i-1])
          BY <3>1, <5>1, OrderFacts
        <5>3. Start(y) + y.len =< EndBlock(y) * BlockSize /\ EndBlock(y) * BlockSize \in Nat
          BY <2>1, ExtentFacts
        <5>4. DataEnd(list, i) = Start(list[i-1]) + list[i-1].len
          BY <3>1
        <5> DEFINE e == EndBlock(y) * BlockSize
                   u == Start(y) + y.len
                   v == Start(list[i-1])
                   w == list[i-1].len
                   z == DataEnd(list, i)
        <5>5. u \in Nat
          BY <2>1, SMTT(40)
        <5>6. v \in Nat /\ w \in Nat
          BY <3>2
        <5>7. e \in Nat /\ u =< e
          BY <5>3
        <5>8. e =< v /\ z = v + w
          BY <5>2, <5>4
        <5> HIDE DEF e, u, v, w, z, Start, y
        <5>9. u =< z
          BY <5>5, <5>6, <5>7, <5>8
        <5> QED BY <5>9 DEF u, z
      <4> QED BY <4>1, <4>2
    <3> HIDE DEF y, Start
    <3> QED BY <1>2, <2>1, <3>1, <3>2, <3>3, SMTT(40) DEF y
  <2> QED BY <1>1, <2>2, <2>3
<1>3. {x \in ToSet(list) : Start(x) < k /\ k =< Start(x) + x.len} = {}
  <2>1. \A x \in ToSet(list) : \E j \in 1 .. Len(list) : x = list[j]
    BY CookieFacts DEF ToSet
  <2> QED BY <1>2, <2>1
<1> QED BY <1>3 DEF ByteAt

LEMMA ExtentBytes ==
  ASSUME WholeBlocks, NEW c \in Cookies, NEW i \in 1 .. Len(c.list), NEW k \in Nat,
         c.list[i].block * BlockSize < k, k =< c.list[i].block * BlockSize + c.list[i].len
  PROVE  ByteAt(c.list, k) = ByteOf(c.list[i], k - 1 - c.list[i].block * BlockSize)
<1> DEFINE list == c.list
           x == list[i]
           Start(y) == y.block * BlockSize
           holders == {y \in ToSet(list) : Start(y) < k /\ k =< Start(y) + y.len}
<1>1. /\ Len(list) \in Nat /\ Start(x) \in Nat /\ x.len \in Nat /\ x \in Nodes
      /\ EndBlock(x) * BlockSize \in Nat /\ Start(x) + x.len =< EndBlock(x) * BlockSize
  BY CookieFacts, ExtentFacts
<1>2. ASSUME NEW j \in 1 .. Len(list), Start(list[j]) < k, k =< Start(list[j]) + list[j].len
      PROVE j = i
  <2> DEFINE y == list[j]
  <2>1. /\ Start(y) \in Nat /\ y.len \in Nat /\ EndBlock(y) * BlockSize \in Nat
        /\ Start(y) + y.len =< EndBlock(y) * BlockSize
    BY ExtentFacts
  <2>2. j < i => EndBlock(y) * BlockSize =< Start(x)
    BY OrderFacts
  <2>3. i < j => EndBlock(x) * BlockSize =< Start(y)
    BY OrderFacts
  <2> HIDE DEF x, y, Start
  <2>4. ~(j < i)
    BY <1>1, <1>2, <2>1, <2>2, SMTT(40) DEF x, y, Start
  <2>5. ~(i < j)
    BY <1>1, <1>2, <2>1, <2>3, SMTT(40) DEF x, y, Start
  <2> QED BY <1>1, <2>4, <2>5
<1>3. x \in holders
  BY <1>1, CookieFacts DEF ToSet
<1>4. \A y \in holders : y = x
  <2>1. \A y \in ToSet(list) : \E j \in 1 .. Len(list) : y = list[j]
    BY CookieFacts DEF ToSet
  <2> QED BY <1>2, <2>1
<1>5. ByteAt(list, k) = IF holders = {} THEN Hole
                        ELSE LET y == CHOOSE y \in holders : TRUE IN ByteOf(y, k - 1 - Start(y))
  BY DEF ByteAt
<1>6. (CHOOSE y \in holders : TRUE) = x
  <2> HIDE DEF holders, x
  <2> QED BY <1>3, <1>4
<1> QED BY <1>3, <1>5, <1>6

-----------------------------------------------------------------------------
(* What holds while a file is written.                                     *)

\* The walk over the list, and what a result of 0 says about what failed.
Walk ==
  /\ s \in Cookies
  /\ pc = "open" =>
       bb = 1 /\ last_block = 0 /\ file = <<>> /\ pos = 0 /\ crc32 = <<>> /\ ret = 0 /\ faults = <<>>
  /\ pc \in {"gap", "extent"} => last_block = LastBlock(s.list, bb) /\ ret = 0
  /\ pc = "extent" => bb =< Len(s.list)
  /\ faults \in Seq({"open", "gap", "extent", "close"})
  /\ ret = 0 => ToSet(faults) \subseteq {"gap", "close"}

IInv == TypeOK /\ Walk

\* The first n bytes of the image.
Prefix(c, n) == [k \in 1 .. n |-> ByteAt(c.list, k)]

\* How far the image has been written.
At == CASE pc = "gap"    -> last_block * BlockSize
        [] pc = "extent" -> s.list[bb].block * BlockSize
        [] OTHER         -> s.len

\* The chunks of the first n extents, and of the gaps in front of them and of g.
ChunksBefore(c, n, g) == n + Cardinality({i \in 1 .. g : Gap(c.list, i)})

ChunksAt == CASE pc = "gap"    -> ChunksBefore(s, bb - 1, bb - 1)
              [] pc = "extent" -> ChunksBefore(s, bb - 1, bb)
              [] pc = "close"  -> CountChunks
              [] OTHER         -> CountChunks + IF crc THEN 1 ELSE 0

Header == [type         |-> "header",
           total_blks   |-> s.len \div BlockSize,
           total_chunks |-> CountChunks + IF crc THEN 1 ELSE 0]

Chunks == {r \in [type : {"raw", "fill", "dont_care", "crc32"}, chunk_sz : Nat,
                  total_sz : Int, body : Seq(Byte)] :
             /\ r.total_sz = ChunkHeaderLen + Len(r.body)
             /\ r.type = "fill" => r.body # <<>>}

\* The chunks of a file the checksum of which is that of the data.
Summed(f) == \A i \in DOMAIN f : f[i].type \in {"header", "raw", "crc32"}
                                 \/ (f[i].type = "fill" /\ f[i].chunk_sz = 1)

\* What a sequence of records stands for.
ExpandAll(f) == FlattenSeq([i \in DOMAIN f |-> Expand(f[i])])

\* A file with header h that holds n chunks, which stand for the bytes `image`.
Holds(f, h, n, image) ==
  /\ f \in Seq({h} \cup Chunks) /\ Len(f) = n + 1 /\ f[1] = h
  /\ \A i \in 2 .. n + 1 : f[i] \in Chunks
  /\ ExpandAll(f) = image

SparseSoFar ==
  /\ Holds(file, Header, ChunksAt, Prefix(s, At))
  /\ crc /\ Summed(file) => crc32 = Prefix(s, At)

\* Bytes that make the first n of the image when holes are read behind them.
Leaves(f, c, n) ==
  /\ f \in Seq(Byte) /\ Len(f) =< n
  /\ \A k \in 1 .. n : ByteAt(c.list, k) = IF k =< Len(f) THEN f[k] ELSE Hole

\* A plain file ends with the data: the position may be ahead of it.
PlainSoFar ==
  Leaves(file, s, At) /\ pos = At /\ (pc = "closed" => Len(file) = At)

SoFar ==
  /\ pc # "aborted"
  /\ pc # "open" /\ ret = 0 /\ faults = <<>> => IF sparse THEN SparseSoFar ELSE PlainSoFar

PInv == IInv /\ SoFar

-----------------------------------------------------------------------------
(* Types, and the walk over the list.                                      *)

LEMMA ByteFacts ==
  ASSUME NEW x \in Nodes, NEW n \in Int
  PROVE  /\ \A k \in Nat : ByteOf(x, k) \in Byte
         /\ BytesOf(x, n) \in Seq(Byte) /\ Zeros(n) \in Seq(Byte)
         /\ n \in Nat => Len(BytesOf(x, n)) = n /\ Len(Zeros(n)) = n
         /\ \A k \in 1 .. n : BytesOf(x, n)[k] = ByteOf(x, k - 1) /\ Zeros(n)[k] = Hole
<1>1. x.type \in Types /\ x.src \in Srcs /\ x.off \in Nat
  BY DEF Nodes
<1>2. ASSUME NEW k \in Nat PROVE ByteOf(x, k) \in Byte
  <2>1. x.off + k \in Nat
    BY <1>1
  <2> QED BY <1>1, <2>1 DEF ByteOf, Byte
<1>3. Hole \in Byte
  BY DEF Byte
<1> HIDE DEF Byte
<1>4. \A k \in 1 .. n : k - 1 \in Nat /\ ByteOf(x, k - 1) \in Byte
  BY <1>2
<1> DEFINE b == BytesOf(x, n)
           z == Zeros(n)
<1>5. /\ b = [k \in 1 .. n |-> ByteOf(x, k - 1)] /\ z = [k \in 1 .. n |-> Hole]
      /\ b \in [1 .. n -> Byte] /\ z \in [1 .. n -> Byte]
  BY <1>3, <1>4 DEF BytesOf, Zeros
<1>6. \A k \in 1 .. n : b[k] = ByteOf(x, k - 1) /\ z[k] = Hole
  BY <1>5
<1>7. b \in Seq(Byte) /\ z \in Seq(Byte) /\ (n \in Nat => Len(b) = n /\ Len(z) = n)
  <2> HIDE DEF b, z
  <2>1. CASE n \in Nat
    BY <1>5, <2>1, SeqDef, LenProperties
  <2>2. CASE n \notin Nat
    <3>1. 1 .. n = {} /\ 1 .. 0 = {} /\ 0 \in Nat
      BY <2>2
    <3>2. b \in [1 .. 0 -> Byte] /\ z \in [1 .. 0 -> Byte]
      BY <1>5, <3>1
    <3> QED BY <2>2, <3>1, <3>2, SeqDef
  <2> QED BY <2>1, <2>2
<1> QED BY <1>2, <1>6, <1>7

LEMMA CallsFacts ==
  ASSUME IInv, NEW n, NEW all, Calls(n, all), pc \in {"open", "gap", "extent", "close"}
  PROVE  /\ faults' \in Seq({"open", "gap", "extent", "close"}) /\ Len(faults') =< MaxFaults
         /\ n = all => faults' = faults
         /\ n # all => faults' = Append(faults, pc) /\ faults' # <<>>
         /\ ToSet(faults') \subseteq ToSet(faults) \cup {pc}
<1> DEFINE S == {"open", "gap", "extent", "close"}
           f == Append(faults, pc)
<1>1. faults \in Seq(S) /\ Len(faults) \in Nat /\ Len(faults) =< MaxFaults /\ MaxFaults \in Nat
  BY WriterAssumption, LenProperties DEF IInv, TypeOK, Walk
<1>2. CASE n = all
  BY <1>1, <1>2 DEF Calls
<1>3. CASE n # all
  <2>1. Len(faults) < MaxFaults /\ faults' = f
    BY <1>3 DEF Calls
  <2>2. /\ f \in Seq(S) /\ Len(f) = Len(faults) + 1 /\ f[Len(faults) + 1] = pc
        /\ \A i \in 1 .. Len(faults) : f[i] = faults[i]
    BY <1>1, AppendProperties
  <2>3. DOMAIN f = 1 .. Len(faults) + 1 /\ DOMAIN faults = 1 .. Len(faults)
    BY <1>1, <2>2, LenProperties
  <2>4. \A i \in DOMAIN f : f[i] \in ToSet(faults) \cup {pc}
    <3>1. \A i \in 1 .. Len(faults) + 1 : i = Len(faults) + 1 \/ i \in 1 .. Len(faults)
      BY <1>1
    <3> HIDE DEF f
    <3> QED BY <2>2, <2>3, <3>1 DEF ToSet
  <2>5. f # <<>>
    <3> HIDE DEF f
    <3> QED BY <1>1, <2>2
  <2> HIDE DEF f
  <2>6. ToSet(f) \subseteq ToSet(faults) \cup {pc}
    BY <2>4 DEF ToSet
  <2>7. Len(f) =< MaxFaults
    BY <1>1, <2>1, <2>2
  <2> QED BY <1>3, <2>1, <2>2, <2>5, <2>6, <2>7 DEF f
<1> QED BY <1>2, <1>3

LEMMA SkipFacts ==
  ASSUME IInv, pc = "gap", NEW n \in Nat, Skip(n)
  PROVE  /\ faults' \in Seq({"open", "gap", "extent", "close"}) /\ Len(faults') =< MaxFaults
         /\ ToSet(faults') \subseteq ToSet(faults) \cup {"gap"}
         /\ pos' \in Nat
<1>1. pos \in Nat /\ faults \in Seq({"open", "gap", "extent", "close"}) /\ Len(faults) =< MaxFaults
  BY DEF IInv, TypeOK, Walk
<1>2. CASE ~sparse
  <2>1. PICK k \in 0 .. 1 : Calls(k, 1) /\ pos' = IF k = 1 THEN pos + n ELSE pos
    BY <1>2 DEF Skip
  <2>2. pos' \in Nat
    BY <1>1, <2>1
  <2> QED BY <2>1, <2>2, CallsFacts
<1>3. CASE sparse /\ n % BlockSize # 0
  BY <1>1, <1>3 DEF Skip
<1>4. CASE sparse /\ n % BlockSize = 0
  <2>1. PICK k \in 0 .. 1 : Calls(k, 1) /\ pos' = pos
    BY <1>4 DEF Skip, PutChunk
  <2> QED BY <1>1, <2>1, CallsFacts
<1> QED BY <1>2, <1>3, <1>4

LEMMA NormalFacts ==
  ASSUME IInv, pc = "extent", NEW x \in Nodes, WriteNormal(x)
  PROVE  /\ faults' \in Seq({"open", "gap", "extent", "close"}) /\ Len(faults') =< MaxFaults
         /\ ret' = 0 => faults' = faults
         /\ pos' \in Nat /\ ret' \in {0, -1}
<1> DEFINE padded == x.type # "fill" /\ Padding(x) > 0
           fills == [k \in 1 .. NBlocks(x) |-> BytesOf(x, CellOf(x, x.block + k - 1).bytes)]
           pieces == IF x.type = "fill" THEN fills ELSE <<BytesOf(x, x.len)>>
           all == Len(pieces) + IF padded THEN 1 ELSE 0
           Taken(n) == IF n > Len(pieces) THEN Len(pieces) ELSE n
           Written(n) == FlattenSeq(SubSeq(pieces, 1, Taken(n)))
<1>1. pos \in Nat /\ BlockSize \in Nat \ {0} /\ x.len \in Nat /\ x.block \in Nat /\ NBlocks(x) \in Nat
  BY SizesAssumption, NodeFacts DEF IInv, TypeOK
<1>2. PICK n \in 0 .. all :
        /\ Calls(n, all)
        /\ ret' = IF n = all THEN 0 ELSE -1
        /\ pos' = pos + Len(Written(n)) + IF padded /\ n = all THEN Padding(x) ELSE 0
  BY DEF WriteNormal
<1>3. fills \in Seq(Seq(Byte))
  <2>1. \A k \in 1 .. NBlocks(x) : CellOf(x, x.block + k - 1).bytes \in Int
    <3> SUFFICES ASSUME NEW k \in 1 .. NBlocks(x) PROVE CellOf(x, x.block + k - 1).bytes \in Int
      OBVIOUS
    <3> DEFINE skipped == ((x.block + k - 1) - x.block) * BlockSize
    <3>1. skipped \in Int
      BY <1>1
    <3> HIDE DEF skipped
    <3>2. x.len - skipped \in Int
      BY <1>1, <3>1
    <3> QED BY <1>1, <3>2 DEF CellOf, skipped
  <2>2. \A k \in 1 .. NBlocks(x) : BytesOf(x, CellOf(x, x.block + k - 1).bytes) \in Seq(Byte)
    BY <2>1, ByteFacts
  <2> QED BY <1>1, <2>2
<1>4. <<BytesOf(x, x.len)>> \in Seq(Seq(Byte))
  BY <1>1, ByteFacts
<1> HIDE DEF fills
<1>5. pieces \in Seq(Seq(Byte)) /\ Len(pieces) \in Nat
  BY <1>3, <1>4, LenProperties
<1> HIDE DEF pieces
<1>6. n \in Nat /\ Taken(n) \in 0 .. Len(pieces)
  BY <1>2, <1>5
<1>7. Written(n) \in Seq(Byte) /\ Len(Written(n)) \in Nat
  <2>1. SubSeq(pieces, 1, Taken(n)) \in Seq(Seq(Byte))
    BY <1>5, <1>6, FirstParts
  <2> QED BY <2>1, FlattenIsSeq, LenProperties
<1>8. Padding(x) \in Int
  BY <1>1 DEF Padding
<1> HIDE DEF Written
<1>9. pos' \in Nat
  BY <1>1, <1>2, <1>7, <1>8
<1>10. ret' = 0 => n = all
  BY <1>2
<1> HIDE DEF all
<1>11. /\ faults' \in Seq({"open", "gap", "extent", "close"}) /\ Len(faults') =< MaxFaults
       /\ (n = all => faults' = faults)
  BY <1>2, CallsFacts
<1> QED BY <1>2, <1>9, <1>10, <1>11

LEMMA SparseFacts ==
  ASSUME IInv, pc = "extent", NEW x \in Nodes, WriteSparse(x)
  PROVE  /\ faults' \in Seq({"open", "gap", "extent", "close"}) /\ Len(faults') =< MaxFaults
         /\ ret' = 0 => faults' = faults
         /\ pos' = pos /\ ret' \in {0, -1}
<1> DEFINE parts == IF x.type = "fill" THEN <<BytesOf(x, WordLen)>> ELSE Body(x)
           all == Len(parts) + 1
<1>1. PICK n \in 0 .. all : Calls(n, all) /\ pos' = pos /\ ret' = IF n = all THEN 0 ELSE -1
  BY DEF WriteSparse, PutChunk
<1> HIDE DEF all
<1> QED BY <1>1, CallsFacts

LEMMA WalkInit ==
  ASSUME Init
  PROVE  IInv
<1>1. /\ s \in Cookies /\ pc = "open" /\ bb = 1 /\ last_block = 0 /\ pos = 0 /\ ret = 0
      /\ faults = <<>> /\ sparse \in BOOLEAN /\ crc \in BOOLEAN /\ file = <<>> /\ crc32 = <<>>
  BY DEF Init
<1>2. s \in [list : Seq(Nodes), len : Nat] /\ Len(s.list) \in Nat /\ MaxFaults \in Nat
  BY <1>1, WriterAssumption, CookieFacts
<1>3. Len(faults) = 0 /\ faults \in Seq({"open", "gap", "extent", "close"})
  BY <1>1
<1>4. TypeOK
  BY <1>1, <1>2, <1>3 DEF TypeOK
<1>5. ToSet(faults) = {}
  BY <1>1 DEF ToSet
<1>6. Walk
  BY <1>1, <1>3, <1>5 DEF Walk
<1> QED BY <1>4, <1>6 DEF IInv

LEMMA WalkStep ==
  ASSUME IInv, [Next]_vars
  PROVE  IInv'
<1>1. /\ s \in [list : Seq(Nodes), len : Nat] /\ sparse \in BOOLEAN /\ crc \in BOOLEAN
      /\ pc \in {"open", "gap", "extent", "close", "closed", "aborted"}
      /\ bb \in 1 .. Len(s.list) + 1 /\ last_block \in Nat /\ pos \in Nat
      /\ ret \in {0, -1} /\ Len(faults) =< MaxFaults
  BY DEF IInv, TypeOK
<1>2. /\ s \in Cookies
      /\ pc = "open" =>
           bb = 1 /\ last_block = 0 /\ file = <<>> /\ pos = 0 /\ crc32 = <<>> /\ ret = 0 /\ faults = <<>>
      /\ pc \in {"gap", "extent"} => last_block = LastBlock(s.list, bb) /\ ret = 0
      /\ pc = "extent" => bb =< Len(s.list)
      /\ faults \in Seq({"open", "gap", "extent", "close"})
      /\ ret = 0 => ToSet(faults) \subseteq {"gap", "close"}
  BY DEF IInv, Walk
<1>3. Len(s.list) \in Nat
  BY <1>2, CookieFacts
<1>4. CASE Open
  <2>1. PICK n \in 0 .. 1 : /\ Calls(n, 1) /\ ret' = IF n = 1 THEN 0 ELSE -1
                            /\ pc' = IF n = 1 THEN "gap" ELSE "closed"
    BY <1>4 DEF Open
  <2>2. pc = "open" /\ UNCHANGED <<s, sparse, crc, bb, last_block, pos, crc32>>
    BY <1>4 DEF Open
  <2>3. /\ faults' \in Seq({"open", "gap", "extent", "close"}) /\ Len(faults') =< MaxFaults
        /\ n = 1 => faults' = faults
    BY <2>1, <2>2, CallsFacts
  <2>4. LastBlock(s.list, 1) = 0
    BY DEF LastBlock
  <2>5. ToSet(<<>>) = {}
    BY DEF ToSet
  <2>6. TypeOK'
    BY <1>1, <1>2, <2>1, <2>2, <2>3 DEF TypeOK
  <2>7. Walk'
    BY <1>2, <2>1, <2>2, <2>3, <2>4, <2>5 DEF Walk
  <2> QED BY <2>6, <2>7 DEF IInv
<1>5. CASE SkipGap
  <2>1. /\ pc = "gap" /\ bb =< Len(s.list) /\ pc' = "extent"
        /\ UNCHANGED <<s, sparse, crc, bb, last_block, crc32, ret>>
    BY <1>5 DEF SkipGap
  <2>2. /\ faults' \in Seq({"open", "gap", "extent", "close"}) /\ Len(faults') =< MaxFaults
        /\ ToSet(faults') \subseteq ToSet(faults) \cup {"gap"}
        /\ pos' \in Nat
    <3>1. CASE s.list[bb].block > last_block
      <4>1. Skip(GapBlocks * BlockSize)
        BY <1>5, <3>1 DEF SkipGap
      <4>2. s.list[bb].block \in Nat
        BY <1>1, <1>2, <1>3, <2>1, CookieFacts, NodeFacts
      <4>3. GapBlocks \in Nat
        BY <1>1, <3>1, <4>2 DEF GapBlocks
      <4>4. GapBlocks * BlockSize \in Nat
        BY <4>3, TimesBlock
      <4> QED BY <2>1, <4>1, <4>4, SkipFacts
    <3>2. CASE ~(s.list[bb].block > last_block)
      BY <1>1, <1>2, <1>5, <3>2 DEF SkipGap
    <3> QED BY <3>1, <3>2
  <2>3. TypeOK'
    BY <1>1, <2>1, <2>2 DEF TypeOK
  <2>4. Walk'
    BY <1>2, <2>1, <2>2 DEF Walk
  <2> QED BY <2>3, <2>4 DEF IInv
<1>6. CASE WriteExtent
  <2>1. /\ pc = "extent" /\ UNCHANGED <<s, sparse, crc>>
        /\ IF ret' = 0
           THEN pc' = "gap" /\ bb' = bb + 1 /\ last_block' = EndBlock(s.list[bb])
           ELSE pc' = "close" /\ UNCHANGED <<bb, last_block>>
    BY <1>6 DEF WriteExtent
  <2>2. bb \in 1 .. Len(s.list)
    BY <1>1, <1>2, <1>3, <2>1
  <2>3. s.list[bb] \in Nodes /\ EndBlock(s.list[bb]) \in Nat
    BY <1>2, <2>2, CookieFacts, NodeFacts
  <2>4. /\ faults' \in Seq({"open", "gap", "extent", "close"}) /\ Len(faults') =< MaxFaults
        /\ ret' = 0 => faults' = faults
        /\ pos' \in Nat /\ ret' \in {0, -1}
    <3>1. CASE sparse
      <4>1. WriteSparse(s.list[bb])
        BY <1>6, <3>1 DEF WriteExtent
      <4> QED BY <1>1, <2>1, <2>3, <4>1, SparseFacts
    <3>2. CASE ~sparse
      <4>1. WriteNormal(s.list[bb])
        BY <1>6, <3>2 DEF WriteExtent
      <4> QED BY <2>1, <2>3, <4>1, NormalFacts
    <3> QED BY <3>1, <3>2
  <2>5. TypeOK'
    <3>1. bb' \in 1 .. Len(s'.list) + 1
      BY <1>1, <1>3, <2>1, <2>2
    <3>2. last_block' \in Nat
      BY <1>1, <2>1, <2>3
    <3>3. pc' \in {"gap", "close"}
      BY <2>1
    <3> QED BY <1>1, <2>1, <2>4, <3>1, <3>2, <3>3 DEF TypeOK
  <2>6. Walk'
    <3>1. CASE ret' = 0
      <4>1. bb + 1 # 1 /\ (bb + 1) - 1 = bb
        BY <1>3, <2>2
      <4>2. LastBlock(s.list, bb + 1) = EndBlock(s.list[bb])
        BY <4>1 DEF LastBlock
      <4> QED BY <1>2, <2>1, <2>4, <3>1, <4>2 DEF Walk
    <3>2. CASE ret' # 0
      BY <1>2, <2>1, <2>4, <3>2 DEF Walk
    <3> QED BY <3>1, <3>2
  <2> QED BY <2>5, <2>6 DEF IInv
<1>7. CASE SkipEnd
  <2>1. /\ pc = "gap" /\ bb > Len(s.list) /\ pc' \in {"aborted", "close"}
        /\ UNCHANGED <<s, sparse, crc, bb, last_block, crc32, ret>>
    BY <1>7 DEF SkipEnd
  <2>2. /\ faults' \in Seq({"open", "gap", "extent", "close"}) /\ Len(faults') =< MaxFaults
        /\ ToSet(faults') \subseteq ToSet(faults) \cup {"gap"}
        /\ pos' \in Nat
    <3>1. CASE Pad > 0
      <4>1. Skip(Pad)
        BY <1>7, <3>1 DEF SkipEnd
      <4>2. last_block * BlockSize \in Nat
        BY <1>1, TimesBlock
      <4>3. Pad \in Nat
        BY <1>1, <3>1, <4>2 DEF Pad
      <4> QED BY <2>1, <4>1, <4>3, SkipFacts
    <3>2. CASE ~(Pad > 0)
      BY <1>1, <1>2, <1>7, <3>2 DEF SkipEnd
    <3> QED BY <3>1, <3>2
  <2>3. TypeOK'
    BY <1>1, <2>1, <2>2 DEF TypeOK
  <2>4. Walk'
    BY <1>2, <2>1, <2>2 DEF Walk
  <2> QED BY <2>3, <2>4 DEF IInv
<1>8. CASE Close
  <2>1. /\ pc = "close" /\ pc' = "closed" /\ UNCHANGED pos
        /\ UNCHANGED <<s, sparse, crc, bb, last_block, crc32, ret>>
    BY <1>8 DEF Close, PutChunk
  <2>2. faults' = faults \/ \E n, all : Calls(n, all)
    BY <1>8 DEF Close
  <2>3. /\ faults' \in Seq({"open", "gap", "extent", "close"}) /\ Len(faults') =< MaxFaults
        /\ ToSet(faults') \subseteq ToSet(faults) \cup {"close"}
    BY <1>1, <1>2, <2>1, <2>2, CallsFacts
  <2>4. TypeOK'
    BY <1>1, <2>1, <2>3 DEF TypeOK
  <2>5. Walk'
    BY <1>2, <2>1, <2>3 DEF Walk
  <2> QED BY <2>4, <2>5 DEF IInv
<1>9. CASE UNCHANGED vars
  <2>1. UNCHANGED <<s, sparse, crc, pc, bb, last_block, file, pos, crc32, ret, faults>>
    BY <1>9 DEF vars
  <2>2. TypeOK'
    BY <1>1, <2>1 DEF TypeOK
  <2>3. Walk'
    BY <1>2, <2>1 DEF Walk
  <2> QED BY <2>2, <2>3 DEF IInv
<1> QED BY <1>4, <1>5, <1>6, <1>7, <1>8, <1>9 DEF Next

\* The walk stays inside the list, and positions do not go below zero, whatever
\* fails on the way.
THEOREM TypesKept == Spec => []TypeOK
<1>1. Init => IInv
  BY WalkInit
<1>2. IInv /\ [Next]_vars => IInv'
  BY WalkStep
<1>3. IInv => TypeOK
  BY DEF IInv
<1> QED BY <1>1, <1>2, <1>3, PTL DEF Spec

-----------------------------------------------------------------------------
(* The image, piece by piece.                                              *)

LEMMA ByteAtType ==
  ASSUME NEW c \in Cookies, NEW k \in Nat
  PROVE  ByteAt(c.list, k) \in Byte
<1> DEFINE holders == {x \in ToSet(c.list) : x.block * BlockSize < k /\ k =< x.block * BlockSize + x.len}
           x == CHOOSE x \in holders : TRUE
<1>1. CASE holders = {}
  <2>1. ByteAt(c.list, k) = Hole
    BY <1>1 DEF ByteAt
  <2> QED BY <2>1 DEF Byte
<1>2. CASE holders # {}
  <2>1. x \in holders
    <3> HIDE DEF holders
    <3> QED BY <1>2
  <2>2. ByteAt(c.list, k) = ByteOf(x, k - 1 - x.block * BlockSize)
    BY <1>2 DEF ByteAt
  <2> HIDE DEF x
  <2>3. x \in Nodes
    BY <2>1, CookieFacts DEF ToSet
  <2>4. x.block * BlockSize \in Nat
    BY <2>3, NodeFacts
  <2> DEFINE b == x.block * BlockSize
  <2>5. b < k
    BY <2>1
  <2> HIDE DEF b
  <2>6. k - 1 - b \in Nat
    BY <2>4, <2>5 DEF b
  <2>7. ByteOf(x, k - 1 - b) \in Byte
    BY <2>3, <2>6, ByteFacts
  <2> QED BY <2>2, <2>7 DEF b
<1> QED BY <1>1, <1>2

LEMMA PrefixFacts ==
  ASSUME NEW c \in Cookies, NEW n \in Nat
  PROVE  /\ Prefix(c, n) \in Seq(Byte) /\ Len(Prefix(c, n)) = n
         /\ \A k \in 1 .. n : Prefix(c, n)[k] = ByteAt(c.list, k)
<1>1. \A k \in 1 .. n : ByteAt(c.list, k) \in Byte
  BY ByteAtType
<1>2. Prefix(c, n) \in [1 .. n -> Byte] /\ \A k \in 1 .. n : Prefix(c, n)[k] = ByteAt(c.list, k)
  BY <1>1 DEF Prefix
<1> QED BY <1>2, SeqDef, LenProperties

LEMMA PrefixJoin ==
  ASSUME NEW c \in Cookies, NEW n \in Nat, NEW m \in Nat, n =< m,
         NEW piece \in Seq(Byte), Len(piece) = m - n,
         \A k \in 1 .. m - n : piece[k] = ByteAt(c.list, n + k)
  PROVE  Prefix(c, n) \o piece = Prefix(c, m)
<1> DEFINE p == Prefix(c, n)
           q == Prefix(c, m)
           r == p \o piece
<1>1. /\ p \in Seq(Byte) /\ Len(p) = n /\ (\A k \in 1 .. n : p[k] = ByteAt(c.list, k))
      /\ q \in Seq(Byte) /\ Len(q) = m /\ (\A k \in 1 .. m : q[k] = ByteAt(c.list, k))
  BY PrefixFacts
<1> HIDE DEF p, q
<1>2. /\ r \in Seq(Byte) /\ Len(r) = n + (m - n)
      /\ \A k \in 1 .. n + (m - n) : r[k] = IF k =< n THEN p[k] ELSE piece[k - n]
  BY <1>1, ConcatProperties
<1> HIDE DEF r
<1>3. ASSUME NEW k \in 1 .. m PROVE r[k] = q[k]
  <2>1. CASE k =< n
    BY <1>1, <1>2, <2>1
  <2>2. CASE ~(k =< n)
    <3>1. k - n \in 1 .. m - n /\ n + (k - n) = k
      BY <2>2
    <3> QED BY <1>1, <1>2, <2>2, <3>1
  <2> QED BY <2>1, <2>2
<1>4. r = q
  BY <1>1, <1>2, <1>3, SeqEqual
<1> QED BY <1>4 DEF p, q, r

\* Between the last block of an extent and the next extent there are holes.
LEMMA GapBytes ==
  ASSUME WholeBlocks, NEW c \in Cookies, NEW i \in 1 .. Len(c.list) + 1, NEW k \in Nat,
         LastBlock(c.list, i) * BlockSize < k, i =< Len(c.list) => k =< c.list[i].block * BlockSize
  PROVE  ByteAt(c.list, k) = Hole
<1>1. DataEnd(c.list, i) < k
  <2>1. CASE i = 1
    BY <2>1, SizesAssumption DEF DataEnd, LastBlock
  <2>2. CASE i # 1
    <3>1. i-1 \in 1 .. Len(c.list)
      BY <2>2, CookieFacts
    <3> DEFINE a == c.list[i-1].block * BlockSize + c.list[i-1].len
               e == EndBlock(c.list[i-1]) * BlockSize
    <3>2. a =< e /\ e \in Nat /\ a \in Nat
      BY <3>1, ExtentFacts, SMTT(40)
    <3>3. e < k
      BY <2>2 DEF LastBlock
    <3>4. DataEnd(c.list, i) = a
      BY <2>2 DEF DataEnd
    <3> HIDE DEF a, e
    <3> QED BY <3>2, <3>3, <3>4
  <2> QED BY <2>1, <2>2
<1> QED BY <1>1, HoleBytes

\* The bytes between the place of an extent and the end of its last block.
LEMMA ExtentImage ==
  ASSUME WholeBlocks, NEW c \in Cookies, NEW i \in 1 .. Len(c.list),
         NEW k \in 1 .. EndBlock(c.list[i]) * BlockSize - c.list[i].block * BlockSize
  PROVE  ByteAt(c.list, c.list[i].block * BlockSize + k) =
           IF k =< c.list[i].len THEN ByteOf(c.list[i], k - 1) ELSE Hole
<1> DEFINE x == c.list[i]
           b == x.block * BlockSize
           e == EndBlock(x) * BlockSize
<1>1. b \in Nat /\ e \in Nat /\ x.len \in Nat /\ b + x.len =< e
  BY ExtentFacts
<1>2. k \in Nat /\ b + k \in Nat /\ k > 0 /\ b + k =< e /\ (b + k) - 1 - b = k - 1
  <2> HIDE DEF b, e
  <2>1. k \in 1 .. e - b
    BY DEF b, e, x
  <2> QED BY <1>1, <2>1, SMTT(40)
<1>3. CASE k =< x.len
  <2>1. b < b + k /\ b + k =< b + x.len
    <3> HIDE DEF x, b
    <3> QED BY <1>1, <1>2, <1>3
  <2>2. ByteAt(c.list, b + k) = ByteOf(x, (b + k) - 1 - b)
    BY <1>2, <2>1, ExtentBytes
  <2>3. ByteAt(c.list, b + k) = ByteOf(x, k - 1)
    <3> HIDE DEF x, b
    <3> QED BY <1>2, <2>2
  <2> QED BY <1>3, <2>3
<1>4. CASE ~(k =< x.len)
  <2>1. i+1 \in 1 .. Len(c.list) + 1 /\ DataEnd(c.list, i+1) = b + x.len
    <3>1. i+1 \in 1 .. Len(c.list) + 1 /\ i+1 # 1 /\ (i+1)-1 = i
      BY CookieFacts
    <3> QED BY <3>1 DEF DataEnd
  <2>2. b + x.len < b + k
    <3> HIDE DEF x, b
    <3> QED BY <1>1, <1>2, <1>4
  <2>3. ASSUME i+1 =< Len(c.list) PROVE b + k =< c.list[i+1].block * BlockSize
    <3> DEFINE b2 == c.list[i+1].block * BlockSize
    <3>1. i+1 \in 1 .. Len(c.list) /\ i < i+1
      BY <2>1, <2>3, CookieFacts
    <3>2. e =< b2 /\ b2 \in Nat
      BY <3>1, OrderFacts, ExtentFacts
    <3> HIDE DEF b, e, b2
    <3>3. b + k =< b2
      BY <1>1, <1>2, <3>2
    <3> QED BY <3>3 DEF b2
  <2>4. DataEnd(c.list, i+1) < b + k
    BY <2>1, <2>2
  <2>5. ByteAt(c.list, b + k) = Hole
    <3> HIDE DEF b, x
    <3> QED BY <1>2, <2>1, <2>3, <2>4, HoleBytes
  <2> QED BY <1>4, <2>5
<1> QED BY <1>3, <1>4

-----------------------------------------------------------------------------
(* What the functions write.                                               *)

\* The parts of a raw chunk: the data, and zeros up to the end of a block.
LEMMA BodyFacts ==
  ASSUME NEW x \in Nodes, x.len =< NBlocks(x) * BlockSize
  PROVE  /\ Padding(x) \in Nat /\ Padding(x) = NBlocks(x) * BlockSize - x.len
         /\ Body(x) \in Seq(Seq(Byte)) /\ FlattenSeq(Body(x)) \in Seq(Byte)
         /\ Len(FlattenSeq(Body(x))) = NBlocks(x) * BlockSize
         /\ \A k \in 1 .. NBlocks(x) * BlockSize :
              FlattenSeq(Body(x))[k] = IF k =< x.len THEN ByteOf(x, k - 1) ELSE Hole
<1> DEFINE n == NBlocks(x) * BlockSize
           b == BytesOf(x, x.len)
           z == Zeros(Padding(x))
           body == FlattenSeq(Body(x))
<1>1. n \in Nat /\ x.len \in Nat /\ BlockSize * NBlocks(x) = n
  BY SizesAssumption, NodeFacts
<1>2. Padding(x) = n - x.len
  BY <1>1 DEF Padding
<1>3. n - x.len \in Nat
  <2> HIDE DEF n
  <2>1. x.len =< n
    BY DEF n
  <2> QED BY <1>1, <2>1
<1>4. /\ b \in Seq(Byte) /\ Len(b) = x.len /\ \A k \in 1 .. x.len : b[k] = ByteOf(x, k - 1)
  <2>1. x.len \in Int /\ x.len \in Nat
    BY <1>1
  <2>2. b \in Seq(Byte)
    BY <2>1, ByteFacts
  <2>3. Len(b) = x.len
    BY <2>1, ByteFacts
  <2>4. \A k \in 1 .. x.len : b[k] = ByteOf(x, k - 1)
    BY <2>1, ByteFacts
  <2> QED BY <2>2, <2>3, <2>4
<1>5. /\ z \in Seq(Byte) /\ Len(z) = n - x.len /\ \A k \in 1 .. n - x.len : z[k] = Hole
  <2> DEFINE m == Padding(x)
  <2>1. m \in Int /\ m \in Nat /\ m = n - x.len
    BY <1>2, <1>3
  <2> HIDE DEF m, n
  <2>2. Zeros(m) \in Seq(Byte)
    BY <2>1, ByteFacts
  <2>3. Len(Zeros(m)) = m
    BY <2>1, ByteFacts
  <2>4. \A k \in 1 .. m : Zeros(m)[k] = Hole
    BY <2>1, ByteFacts
  <2> QED BY <2>1, <2>2, <2>3, <2>4 DEF m
<1> HIDE DEF n, b, z
<1>6. CASE Padding(x) = 0
  <2>1. Body(x) = <<b>>
    BY <1>6 DEF Body, b
  <2>2. <<b>> \in Seq(Seq(Byte)) /\ FlattenSeq(<<b>>) = b
    <3>1. <<b>> \in Seq(Seq(Byte))
      BY <1>4
    <3>2. FlattenSeq(<<b>>) = b
      BY <1>4, FlattenFew
    <3> QED BY <3>1, <3>2
  <2>3. body = b
    BY <2>1, <2>2
  <2>4. x.len = n
    BY <1>1, <1>2, <1>6
  <2>5. \A k \in 1 .. n : body[k] = IF k =< x.len THEN ByteOf(x, k - 1) ELSE Hole
    BY <1>1, <1>4, <2>3, <2>4
  <2> QED BY <1>2, <1>3, <1>4, <2>1, <2>2, <2>3, <2>4, <2>5 DEF n
<1>7. CASE Padding(x) # 0
  <2>1. Body(x) = <<b, z>>
    BY <1>7 DEF Body, b, z
  <2>2. <<b, z>> \in Seq(Seq(Byte)) /\ FlattenSeq(<<b, z>>) = b \o z
    <3>1. <<b, z>> \in Seq(Seq(Byte))
      BY <1>4, <1>5
    <3>2. FlattenSeq(<<b, z>>) = b \o z
      BY <1>4, <1>5, FlattenFew
    <3> QED BY <3>1, <3>2
  <2>3. /\ b \o z \in Seq(Byte) /\ Len(b \o z) = x.len + (n - x.len)
        /\ \A k \in 1 .. x.len + (n - x.len) :
             (b \o z)[k] = IF k =< x.len THEN b[k] ELSE z[k - x.len]
    <3>1. /\ b \o z \in Seq(Byte) /\ Len(b \o z) = Len(b) + Len(z)
          /\ \A k \in 1 .. Len(b) + Len(z) :
               (b \o z)[k] = IF k =< Len(b) THEN b[k] ELSE z[k - Len(b)]
      BY <1>4, <1>5, ConcatProperties
    <3> QED BY <1>4, <1>5, <3>1
  <2>4. body = b \o z
    BY <2>1, <2>2
  <2>5. x.len + (n - x.len) = n
    BY <1>1
  <2> HIDE DEF body
  <2>6. ASSUME NEW k \in 1 .. n PROVE body[k] = IF k =< x.len THEN ByteOf(x, k - 1) ELSE Hole
    <3>1. body[k] = IF k =< x.len THEN b[k] ELSE z[k - x.len]
      BY <2>3, <2>4, <2>5
    <3>2. CASE k =< x.len
      <4>1. k \in 1 .. x.len
        BY <1>1, <3>2
      <4> QED BY <1>4, <3>1, <3>2, <4>1
    <3>3. CASE ~(k =< x.len)
      <4>1. k - x.len \in 1 .. n - x.len
        BY <1>1, <3>3
      <4> QED BY <1>5, <3>1, <3>3, <4>1
    <3> QED BY <3>2, <3>3
  <2> QED BY <1>2, <1>3, <2>1, <2>2, <2>3, <2>4, <2>5, <2>6 DEF n, body
<1> QED BY <1>6, <1>7

\* A raw chunk holds the bytes of its extent, and the zeros behind them.
LEMMA RawImage ==
  ASSUME WholeBlocks, NEW c \in Cookies, NEW i \in 1 .. Len(c.list)
  PROVE  Prefix(c, c.list[i].block * BlockSize) \o FlattenSeq(Body(c.list[i]))
           = Prefix(c, EndBlock(c.list[i]) * BlockSize)
<1> DEFINE x == c.list[i]
           b == x.block * BlockSize
           n == NBlocks(x) * BlockSize
           e == EndBlock(x) * BlockSize
           body == FlattenSeq(Body(x))
<1>1. x \in Nodes /\ b \in Nat /\ e \in Nat /\ x.len \in Nat /\ b + x.len =< e
  BY ExtentFacts
<1>2. e = b + n /\ n \in Nat
  BY <1>1, NodeFacts
<1>3. x.len =< n
  <2> HIDE DEF b, e, n
  <2> QED BY <1>1, <1>2
<1>4. /\ body \in Seq(Byte) /\ Len(body) = n
      /\ \A k \in 1 .. n : body[k] = IF k =< x.len THEN ByteOf(x, k - 1) ELSE Hole
  BY <1>1, <1>3, BodyFacts
<1>5. \A k \in 1 .. e - b : ByteAt(c.list, b + k) = IF k =< x.len THEN ByteOf(x, k - 1) ELSE Hole
  BY ExtentImage
<1> HIDE DEF x, b, n, e, body
<1>6. b =< e /\ e - b = n
  BY <1>1, <1>2
<1>7. Len(body) = e - b /\ \A k \in 1 .. e - b : body[k] = ByteAt(c.list, b + k)
  BY <1>4, <1>5, <1>6
<1>8. Prefix(c, b) \o body = Prefix(c, e)
  BY <1>1, <1>4, <1>6, <1>7, PrefixJoin
<1> QED BY <1>8 DEF x, b, e, body

\* One value repeated stands for a fill.
LEMMA FillImage ==
  ASSUME WholeBlocks, NEW c \in Cookies, NEW i \in 1 .. Len(c.list), c.list[i].type = "fill"
  PROVE  Prefix(c, c.list[i].block * BlockSize)
             \o [k \in 1 .. NBlocks(c.list[i]) * BlockSize |-> ByteOf(c.list[i], 0)]
           = Prefix(c, EndBlock(c.list[i]) * BlockSize)
<1> DEFINE x == c.list[i]
           b == x.block * BlockSize
           n == NBlocks(x) * BlockSize
           e == EndBlock(x) * BlockSize
           v == ByteOf(x, 0)
           piece == [k \in 1 .. n |-> v]
<1>1. x \in Nodes /\ b \in Nat /\ e \in Nat /\ x.len \in Nat /\ e = b + x.len
  BY ExtentFacts
<1>2. e = b + n /\ n \in Nat /\ v \in Byte
  <2>1. e = b + n /\ n \in Nat
    BY <1>1, NodeFacts
  <2>2. v \in Byte
    BY <1>1, ByteFacts
  <2> QED BY <2>1, <2>2
<1>3. \A k : ByteOf(x, k) = v
  BY DEF ByteOf
<1>5. \A k \in 1 .. e - b : ByteAt(c.list, b + k) = IF k =< x.len THEN ByteOf(x, k - 1) ELSE Hole
  BY ExtentImage
<1> HIDE DEF x, b, n, e, v
<1>6. b =< e /\ e - b = n /\ x.len = n
  BY <1>1, <1>2
<1>7. piece \in Seq(Byte) /\ Len(piece) = n /\ \A k \in 1 .. n : piece[k] = v
  BY <1>2
<1>8. \A k \in 1 .. e - b : piece[k] = ByteAt(c.list, b + k)
  <2> HIDE DEF piece
  <2> QED BY <1>2, <1>3, <1>5, <1>6, <1>7
<1>9. Prefix(c, b) \o piece = Prefix(c, e)
  <2> HIDE DEF piece
  <2>1. Len(piece) = e - b
    BY <1>6, <1>7
  <2>2. b =< e /\ piece \in Seq(Byte) /\ b \in Nat /\ e \in Nat
    BY <1>1, <1>6, <1>7
  <2> QED BY <1>8, <2>1, <2>2, PrefixJoin
<1> QED BY <1>9 DEF x, b, e, n, v, piece

\* Zeros stand for a gap.
LEMMA GapImage ==
  ASSUME WholeBlocks, NEW c \in Cookies, NEW i \in 1 .. Len(c.list) + 1,
         NEW m \in Nat, LastBlock(c.list, i) * BlockSize =< m,
         i =< Len(c.list) => m = c.list[i].block * BlockSize
  PROVE  Prefix(c, LastBlock(c.list, i) * BlockSize) \o Zeros(m - LastBlock(c.list, i) * BlockSize)
           = Prefix(c, m)
<1> DEFINE n == LastBlock(c.list, i) * BlockSize
           piece == Zeros(m - n)
<1>1. n \in Nat
  BY LastFacts, TimesBlock
<1>2. ASSUME NEW k \in 1 .. m - n PROVE ByteAt(c.list, n + k) = Hole
  <2>1. n < n + k /\ n + k =< m /\ n + k \in Nat
    <3> HIDE DEF n
    <3> QED BY <1>1, <1>2
  <2>2. i =< Len(c.list) => n + k =< c.list[i].block * BlockSize
    BY <2>1
  <2> QED BY <2>1, <2>2, GapBytes
<1>3. m - n \in Nat
  <2>1. n =< m
    OBVIOUS
  <2> HIDE DEF n
  <2> QED BY <1>1, <2>1
<1>4. piece = [k \in 1 .. m - n |-> Hole] /\ Hole \in Byte
  BY DEF Zeros, Byte
<1> HIDE DEF n
<1>5. piece \in Seq(Byte) /\ Len(piece) = m - n /\ \A k \in 1 .. m - n : piece[k] = Hole
  BY <1>3, <1>4
<1>6. n =< m
  BY <1>1, <1>3
<1> HIDE DEF piece
<1>7. Prefix(c, n) \o piece = Prefix(c, m)
  BY <1>1, <1>2, <1>5, <1>6, PrefixJoin, ZenonT(40)
<1> QED BY <1>7 DEF n, piece

-----------------------------------------------------------------------------
(* The chunks of a file.                                                   *)

LEMMA ExpandFacts ==
  ASSUME NEW r \in Chunks
  PROVE  /\ Expand(r) \in Seq(Byte)
         /\ r.type = "raw" => Expand(r) = r.body
         /\ r.type = "fill" => Expand(r) = [k \in 1 .. r.chunk_sz * BlockSize |-> r.body[1]]
         /\ r.type = "dont_care" => Expand(r) = Zeros(r.chunk_sz * BlockSize)
         /\ r.type = "crc32" => Expand(r) = <<>>
<1>1. r.type \in {"raw", "fill", "dont_care", "crc32"} /\ r.chunk_sz \in Nat /\ r.body \in Seq(Byte)
  BY DEF Chunks
<1>2. r.type = "raw" => Expand(r) = r.body
  BY DEF Expand
<1>3. r.type = "fill" => Expand(r) = [k \in 1 .. r.chunk_sz * BlockSize |-> r.body[1]]
  BY DEF Expand
<1>4. r.type = "dont_care" => Expand(r) = Zeros(r.chunk_sz * BlockSize)
  BY DEF Expand
<1>5. r.type = "crc32" => Expand(r) = <<>>
  BY DEF Expand
<1>6. r.chunk_sz * BlockSize \in Nat
  BY <1>1, TimesBlock
<1> DEFINE n == r.chunk_sz * BlockSize
<1>7. r.type = "fill" => r.body[1] \in Byte
  <2> SUFFICES ASSUME r.type = "fill" PROVE r.body[1] \in Byte
    OBVIOUS
  <2>1. r.body # <<>>
    BY DEF Chunks
  <2>2. 1 \in 1 .. Len(r.body)
    BY <1>1, <2>1, EmptySeq
  <2> QED BY <1>1, <2>2, ElementOfSeq
<1>8. Hole \in Byte
  BY DEF Byte
<1> HIDE DEF n
<1>9. [k \in 1 .. n |-> r.body[1]] \in Seq(Byte) \/ r.type # "fill"
  BY <1>6, <1>7 DEF n
<1>10. Zeros(n) \in Seq(Byte)
  BY <1>6, <1>8 DEF Zeros, n
<1>11. <<>> \in Seq(Byte)
  OBVIOUS
<1>12. Expand(r) \in Seq(Byte)
  BY <1>1, <1>2, <1>3, <1>4, <1>5, <1>9, <1>10, <1>11 DEF n
<1> QED BY <1>2, <1>3, <1>4, <1>5, <1>12

LEMMA HeaderFacts ==
  ASSUME NEW h, h.type = "header"
  PROVE  Expand(h) = <<>>
BY DEF Expand

LEMMA ExpandAppend ==
  ASSUME NEW R, NEW f \in Seq(R), NEW r \in R, \A q \in R : Expand(q) \in Seq(Byte)
  PROVE  /\ ExpandAll(f) \in Seq(Byte)
         /\ ExpandAll(Append(f, r)) = ExpandAll(f) \o Expand(r)
<1> DEFINE n == Len(f)
           g == Append(f, r)
           e == [i \in DOMAIN f |-> Expand(f[i])]
           d == [i \in DOMAIN g |-> Expand(g[i])]
           a == Append(e, Expand(r))
<1>1. /\ n \in Nat /\ DOMAIN f = 1 .. n /\ g \in Seq(R) /\ Len(g) = n + 1 /\ DOMAIN g = 1 .. n + 1
      /\ g[n + 1] = r /\ (\A i \in 1 .. n : g[i] = f[i] /\ f[i] \in R)
  BY AppendProperties, LenProperties, ElementOfSeq
<1> HIDE DEF g, n
<1>2. e = [i \in 1 .. n |-> Expand(f[i])] /\ e \in Seq(Seq(Byte)) /\ Len(e) = n
  <2>1. e = [i \in 1 .. n |-> Expand(f[i])]
    BY <1>1
  <2>2. \A i \in 1 .. n : Expand(f[i]) \in Seq(Byte)
    BY <1>1
  <2> QED BY <1>1, <2>1, <2>2
<1>3. d = [i \in 1 .. n + 1 |-> Expand(g[i])] /\ d \in Seq(Seq(Byte)) /\ Len(d) = n + 1
  <2>1. \A i \in 1 .. n + 1 : g[i] \in R
    BY <1>1, ElementOfSeq
  <2>2. d = [i \in 1 .. n + 1 |-> Expand(g[i])]
    BY <1>1
  <2>3. \A i \in 1 .. n + 1 : Expand(g[i]) \in Seq(Byte)
    BY <2>1
  <2> QED BY <1>1, <2>2, <2>3
<1>4. /\ a \in Seq(Seq(Byte)) /\ Len(a) = n + 1 /\ a[n + 1] = Expand(r)
      /\ \A i \in 1 .. n : a[i] = e[i]
  <2> HIDE DEF e
  <2> QED BY <1>1, <1>2, AppendProperties
<1>5. \A i \in 1 .. n + 1 : a[i] = d[i]
  <2> SUFFICES ASSUME NEW i \in 1 .. n + 1 PROVE a[i] = d[i]
    OBVIOUS
  <2>1. d[i] = Expand(g[i])
    BY <1>3
  <2>2. CASE i = n + 1
    <3> HIDE DEF a, d
    <3> QED BY <1>1, <1>4, <2>1, <2>2
  <2>3. CASE i # n + 1
    <3>1. i \in 1 .. n
      BY <1>1, <2>3
    <3>2. e[i] = Expand(f[i])
      BY <1>2, <3>1
    <3> HIDE DEF a, d, e
    <3> QED BY <1>1, <1>4, <2>1, <3>1, <3>2
  <2> QED BY <2>2, <2>3
<1>6. a = d
  <2> HIDE DEF a, d
  <2> QED BY <1>3, <1>4, <1>5, SeqEqual
<1>7. FlattenSeq(a) = FlattenSeq(e) \o Expand(r)
  <2> HIDE DEF e
  <2> QED BY <1>2, FlattenAppend
<1>8. FlattenSeq(e) \in Seq(Byte)
  <2> HIDE DEF e
  <2> QED BY <1>2, FlattenIsSeq
<1>9. ExpandAll(f) = FlattenSeq(e) /\ ExpandAll(g) = FlattenSeq(d)
  BY DEF ExpandAll
<1> HIDE DEF a, d, e
<1>10. ExpandAll(g) = ExpandAll(f) \o Expand(r)
  BY <1>6, <1>7, <1>9
<1> QED BY <1>8, <1>9, <1>10 DEF g

\* One chunk more.
LEMMA Grown ==
  ASSUME NEW f, NEW h, NEW n \in Nat, NEW image, NEW r \in Chunks,
         h.type = "header", Holds(f, h, n, image)
  PROVE  /\ Holds(Append(f, r), h, n + 1, image \o Expand(r))
         /\ image \in Seq(Byte)
         /\ Summed(Append(f, r)) =>
              Summed(f) /\ (r.type \in {"raw", "crc32"} \/ (r.type = "fill" /\ r.chunk_sz = 1))
<1> DEFINE R == {h} \cup Chunks
           g == Append(f, r)
<1>1. f \in Seq(R) /\ Len(f) = n + 1 /\ f[1] = h /\ ExpandAll(f) = image /\ r \in R
  BY DEF Holds
<1>2. \A q \in R : Expand(q) \in Seq(Byte)
  <2>1. Expand(h) = <<>> /\ <<>> \in Seq(Byte)
    BY HeaderFacts
  <2>2. \A q \in Chunks : Expand(q) \in Seq(Byte)
    BY ExpandFacts
  <2> QED BY <2>1, <2>2
<1> HIDE DEF R
<1>3. ExpandAll(f) \in Seq(Byte) /\ ExpandAll(g) = ExpandAll(f) \o Expand(r)
  BY <1>1, <1>2, ExpandAppend
<1>4. g \in Seq(R) /\ Len(g) = n + 2 /\ g[n + 2] = r /\ \A i \in 1 .. n + 1 : g[i] = f[i]
  <2>1. /\ g \in Seq(R) /\ Len(g) = Len(f) + 1 /\ g[Len(f) + 1] = r
        /\ \A i \in 1 .. Len(f) : g[i] = f[i]
    BY <1>1, AppendProperties
  <2>2. Len(f) + 1 = n + 2
    BY <1>1
  <2> HIDE DEF g
  <2> QED BY <1>1, <2>1, <2>2
<1>5. DOMAIN f = 1 .. n + 1 /\ DOMAIN g = 1 .. n + 2
  <2> HIDE DEF g
  <2> QED BY <1>1, <1>4, LenProperties
<1>6. r.type # "header"
  BY DEF Chunks
<1> HIDE DEF g
<1>7. Summed(g) => Summed(f) /\ (r.type \in {"raw", "crc32"} \/ (r.type = "fill" /\ r.chunk_sz = 1))
  <2> SUFFICES ASSUME Summed(g)
               PROVE  Summed(f) /\ (r.type \in {"raw", "crc32"} \/ (r.type = "fill" /\ r.chunk_sz = 1))
    OBVIOUS
  <2>1. \A i \in 1 .. n + 2 : \/ g[i].type \in {"header", "raw", "crc32"}
                              \/ g[i].type = "fill" /\ g[i].chunk_sz = 1
    BY <1>5 DEF Summed
  <2>2. n + 2 \in 1 .. n + 2 /\ \A i \in 1 .. n + 1 : i \in 1 .. n + 2
    OBVIOUS
  <2>3. r.type \in {"raw", "crc32"} \/ (r.type = "fill" /\ r.chunk_sz = 1)
    BY <1>4, <1>6, <2>1, <2>2
  <2>4. Summed(f)
    BY <1>4, <1>5, <2>1, <2>2 DEF Summed
  <2> QED BY <2>3, <2>4
<1>8. Holds(g, h, n + 1, image \o Expand(r))
  <2>1. g[1] = h /\ \A i \in 2 .. (n + 1) + 1 : g[i] \in Chunks
    <3>1. \A i \in 2 .. (n + 1) + 1 : i = n + 2 \/ i \in 2 .. n + 1
      OBVIOUS
    <3>2. \A i \in 2 .. n + 1 : f[i] \in Chunks
      BY DEF Holds
    <3>3. \A i \in 2 .. n + 1 : g[i] = f[i]
      BY <1>4
    <3> QED BY <1>1, <1>4, <3>1, <3>2, <3>3
  <2>2. Len(g) = (n + 1) + 1
    BY <1>4
  <2> QED BY <1>1, <1>3, <1>4, <2>1, <2>2 DEF Holds, R
<1> QED BY <1>1, <1>3, <1>7, <1>8 DEF g

\* A chunk that was written with all its parts.
Whole(type, n, body) ==
  [type |-> type, chunk_sz |-> n, total_sz |-> ChunkHeaderLen + Len(body), body |-> body]

LEMMA WholeFacts ==
  ASSUME NEW type \in {"raw", "fill", "dont_care", "crc32"}, NEW n \in Nat, NEW body \in Seq(Byte),
         type = "fill" => body # <<>>
  PROVE  /\ Whole(type, n, body) \in Chunks
         /\ Whole(type, n, body).type = type /\ Whole(type, n, body).chunk_sz = n
         /\ Whole(type, n, body).body = body
<1>1. ChunkHeaderLen + Len(body) \in Int
  BY FormatAssumption, LenProperties
<1> QED BY <1>1 DEF Whole, Chunks

LEMMA HoleFacts ==
  ASSUME NEW n \in Nat
  PROVE  /\ Whole("dont_care", n, <<>>) \in Chunks
         /\ Whole("dont_care", n, <<>>).type = "dont_care" /\ Whole("dont_care", n, <<>>).chunk_sz = n
         /\ Whole("dont_care", n, <<>>).body = <<>>
<1> DEFINE body == <<>>
           type == "dont_care"
<1>1. body \in Seq(Byte) /\ type \in {"raw", "fill", "dont_care", "crc32"} /\ type # "fill"
  OBVIOUS
<1> HIDE DEF body, type
<1>2. /\ Whole(type, n, body) \in Chunks
      /\ Whole(type, n, body).type = type /\ Whole(type, n, body).chunk_sz = n
      /\ Whole(type, n, body).body = body
  BY <1>1, WholeFacts
<1> QED BY <1>2 DEF body, type

LEMMA PutWhole ==
  ASSUME NEW type, NEW n, NEW parts \in Seq(Seq(Byte)),
         PutChunk(Chunk(type, n, Len(FlattenSeq(parts))), parts, Len(parts) + 1)
  PROVE  file' = Append(file, Whole(type, n, FlattenSeq(parts))) /\ pos' = pos
<1> DEFINE m == Len(parts) + 1
           body == FlattenSeq(parts)
           k == Chunk(type, n, Len(body))
<1>1. m # 0 /\ m - 1 = Len(parts) /\ Len(parts) \in 0 .. Len(parts)
  BY LenProperties
<1>2. SubSeq(parts, 1, m - 1) = parts
  <2> HIDE DEF m
  <2> QED BY <1>1, FirstParts
<1>3. file' = Append(file, [k EXCEPT !.body = FlattenSeq(SubSeq(parts, 1, m - 1))]) /\ pos' = pos
  <2> HIDE DEF m, k, body
  <2>1. PutChunk(k, parts, m)
    BY DEF m, k, body
  <2> QED BY <1>1, <2>1 DEF PutChunk
<1>4. [k EXCEPT !.body = body] = Whole(type, n, body)
  <2> HIDE DEF body
  <2> QED BY DEF Chunk, Whole
<1> QED BY <1>2, <1>3, <1>4

-----------------------------------------------------------------------------
(* The number of chunks.                                                   *)

LEMMA CountFacts ==
  ASSUME NEW c \in Cookies, NEW n \in Nat, NEW i \in 1 .. Len(c.list)
  PROVE  /\ ChunksBefore(c, n, i - 1) \in Nat /\ ChunksBefore(c, n, i) \in Nat
         /\ ChunksBefore(c, n, i) = ChunksBefore(c, n, i - 1) + IF Gap(c.list, i) THEN 1 ELSE 0
         /\ ChunksBefore(c, n + 1, i) = ChunksBefore(c, n, i) + 1
<1> DEFINE S(g) == {j \in 1 .. g : Gap(c.list, j)}
<1>1. i \in Nat /\ i - 1 \in Nat
  BY CookieFacts
<1>2. ASSUME NEW g \in Nat PROVE IsFiniteSet(S(g)) /\ Cardinality(S(g)) \in Nat
  <2>1. IsFiniteSet(1 .. g) /\ S(g) \subseteq 1 .. g
    BY FS_Interval
  <2> HIDE DEF S
  <2> QED BY <2>1, FS_Subset, FS_CardinalityType
<1>3. Cardinality(S(i)) = Cardinality(S(i - 1)) + IF Gap(c.list, i) THEN 1 ELSE 0
  <2>1. CASE Gap(c.list, i)
    <3>1. S(i) = S(i - 1) \cup {i} /\ i \notin S(i - 1)
      BY <1>1, <2>1
    <3> HIDE DEF S
    <3>2. Cardinality(S(i - 1) \cup {i}) = Cardinality(S(i - 1)) + 1
      BY <1>1, <1>2, <3>1, FS_AddElement
    <3> QED BY <2>1, <3>1, <3>2
  <2>2. CASE ~Gap(c.list, i)
    <3>1. S(i) = S(i - 1)
      BY <1>1, <2>2
    <3> HIDE DEF S
    <3> QED BY <1>1, <1>2, <2>2, <3>1
  <2> QED BY <2>1, <2>2
<1>4. /\ ChunksBefore(c, n, i) = n + Cardinality(S(i))
      /\ ChunksBefore(c, n + 1, i) = n + 1 + Cardinality(S(i))
      /\ ChunksBefore(c, n, i - 1) = n + Cardinality(S(i - 1))
  BY DEF ChunksBefore
<1>5. Cardinality(S(i)) \in Nat /\ Cardinality(S(i - 1)) \in Nat
  BY <1>1, <1>2
<1> HIDE DEF S
<1> QED BY <1>3, <1>4, <1>5

\* sparse_count_chunks counts what the loop writes, and the gap at the end.
LEMMA CountedAll ==
  ASSUME WholeBlocks, s \in Cookies
  PROVE  /\ LastBlock(s.list, Len(s.list) + 1) * BlockSize =< s.len
         /\ ChunksBefore(s, Len(s.list), Len(s.list)) \in Nat
         /\ CountChunks = ChunksBefore(s, Len(s.list), Len(s.list))
              + IF LastBlock(s.list, Len(s.list) + 1) * BlockSize < s.len THEN 1 ELSE 0
<1> DEFINE n == Len(s.list)
           l == LastBlock(s.list, n + 1)
           q == s.len \div BlockSize
           B == BlockSize
<1>1. n \in Nat /\ B \in Nat \ {0} /\ s.len \in Nat /\ DOMAIN s.list = 1 .. n /\ n + 1 \in 1 .. n + 1
  BY CookieFacts, SizesAssumption
<1>2. l \in Nat
  BY <1>1, LastFacts
<1>3. l * B =< s.len
  <2>1. CASE n = 0
    <3>1. l = 0
      BY <2>1 DEF LastBlock
    <3> HIDE DEF l
    <3> QED BY <1>1, <3>1
  <2>2. CASE n # 0
    <3>1. n + 1 # 1 /\ (n + 1) - 1 = n /\ n \in 1 .. n
      BY <1>1, <2>2
    <3>2. l = EndBlock(s.list[n])
      BY <3>1 DEF LastBlock
    <3>3. EndBlock(s.list[n]) * B =< s.len
      BY <3>1, ExtentFacts
    <3> QED BY <3>2, <3>3
  <2> QED BY <2>1, <2>2
<1>4. ChunksBefore(s, n, n) \in Nat
  <2> HIDE DEF n
  <2> DEFINE T == {j \in 1 .. n : Gap(s.list, j)}
  <2>1. IsFiniteSet(1 .. n)
    BY <1>1, FS_Interval
  <2>2. T \subseteq 1 .. n
    OBVIOUS
  <2>3. Cardinality(T) \in Nat
    <3> HIDE DEF T
    <3> QED BY <2>1, <2>2, FS_Subset, FS_CardinalityType
  <2> QED BY <1>1, <2>3 DEF ChunksBefore
<1>5. q \in Nat /\ s.len = B * q
  <2> DEFINE a == s.len
  <2>1. a % B = 0
    BY DEF WholeBlocks
  <2> HIDE DEF a
  <2>2. a \div B \in Nat /\ a = B * (a \div B)
    BY <1>1, <2>1, DivExact DEF a
  <2> QED BY <2>2 DEF a
<1>6. (s.len + B - 1) \div B = q
  <2> DEFINE m == s.len + B - 1
  <2>1. m \in Nat /\ B * q =< m /\ m < B * q + B
    <3> HIDE DEF q
    <3> QED BY <1>1, <1>5
  <2> HIDE DEF m, q
  <2> QED BY <1>1, <1>5, <2>1, DivUnique DEF m
<1>7. l < q <=> l * B < s.len
  <2> HIDE DEF l, q
  <2>1. l * B = B * l
    BY <1>1, <1>2
  <2>2. l < q => B * (l + 1) =< B * q
    BY <1>1, <1>2, <1>5, MulLess
  <2>3. B * (l + 1) = B * l + B /\ B * l \in Nat
    BY <1>1, <1>2
  <2>4. B * l < B * q => l < q
    BY <1>1, <1>2, <1>5, MulLess
  <2>5. B * q \in Nat
    BY <1>1, <1>5
  <2> QED BY <1>1, <1>5, <2>1, <2>2, <2>3, <2>4, <2>5
<1>8. CountChunks = ChunksBefore(s, n, n) + IF l < q THEN 1 ELSE 0
  <2>1. {i \in DOMAIN s.list : Gap(s.list, i)} = {i \in 1 .. n : Gap(s.list, i)}
    BY <1>1
  <2> QED BY <1>6, <2>1 DEF CountChunks, ChunksBefore
<1> HIDE DEF l, q
<1>9. CountChunks = ChunksBefore(s, n, n) + IF l * B < s.len THEN 1 ELSE 0
  BY <1>7, <1>8
<1> QED BY <1>3, <1>4, <1>9 DEF l

-----------------------------------------------------------------------------
(* Every step of writing a sparse file keeps it true.                      *)

LEMMA NoFault ==
  ASSUME IInv, NEW n, NEW all, Calls(n, all), pc \in {"open", "gap", "extent", "close"}, faults' = <<>>
  PROVE  n = all /\ faults = <<>>
BY CallsFacts

LEMMA HeaderKept ==
  ASSUME UNCHANGED <<s, crc>>
  PROVE  Header' = Header /\ CountChunks' = CountChunks
BY DEF Header, CountChunks

LEMMA OpenSparse ==
  ASSUME PInv, Open, sparse, ret' = 0
  PROVE  SparseSoFar'
<1>1. /\ s \in Cookies /\ bb = 1 /\ last_block = 0 /\ crc32 = <<>> /\ file = <<>> /\ pc = "open"
      /\ UNCHANGED <<s, sparse, crc, bb, last_block, crc32>>
  BY DEF PInv, IInv, Walk, Open
<1>2. pc' = "gap" /\ file' = <<Header>>
  <2>1. PICK n \in 0 .. 1 :
          /\ file' = IF sparse /\ n = 1 THEN <<Header>> ELSE file
          /\ ret' = IF n = 1 THEN 0 ELSE -1
          /\ pc' = IF n = 1 THEN "gap" ELSE "closed"
    BY DEF Open, Header
  <2> QED BY <2>1
<1>3. At' = 0
  <2>1. 0 * BlockSize = 0
    BY SizesAssumption
  <2> QED BY <1>1, <1>2, <2>1 DEF At
<1>4. ChunksAt' = 0
  <2>1. {i \in 1 .. 0 : Gap(s.list, i)} = {}
    OBVIOUS
  <2>2. ChunksBefore(s, 0, 0) = 0
    BY <2>1, FS_EmptySet DEF ChunksBefore
  <2>3. ChunksAt' = ChunksBefore(s', bb' - 1, bb' - 1)
    BY <1>2 DEF ChunksAt
  <2> QED BY <1>1, <2>2, <2>3
<1>5. Prefix(s, 0) = <<>>
  BY DEF Prefix
<1> DEFINE h == Header
           f == <<h>>
<1>6. Expand(h) = <<>>
  BY HeaderFacts DEF Header
<1> HIDE DEF h
<1>7. f \in Seq({h} \cup Chunks) /\ Len(f) = 1 /\ f[1] = h /\ DOMAIN f = {1}
  OBVIOUS
<1>8. ExpandAll(f) = <<>>
  <2>1. [i \in DOMAIN f |-> Expand(f[i])] = <<Expand(h)>>
    BY <1>7
  <2>2. <<>> \in Seq(Byte)
    OBVIOUS
  <2>3. FlattenSeq(<<Expand(h)>>) = <<>>
    BY <1>6, <2>2, FlattenFew
  <2> QED BY <2>1, <2>3 DEF ExpandAll
<1>9. Holds(f, h, 0, <<>>)
  BY <1>7, <1>8 DEF Holds
<1>10. Header' = h
  BY <1>1, HeaderKept DEF h
<1> QED BY <1>1, <1>2, <1>3, <1>4, <1>5, <1>9, <1>10 DEF SparseSoFar, h

\* What Skip appends when nothing fails.
LEMMA SkipSparse ==
  ASSUME PInv, sparse, pc = "gap", NEW n \in Nat, Skip(n * BlockSize), faults' = <<>>
  PROVE  file' = Append(file, Whole("dont_care", n, <<>>)) /\ faults = <<>>
<1> DEFINE m == n * BlockSize
<1>1. m % BlockSize = 0 /\ m \div BlockSize = n
  BY TimesBlock
<1> HIDE DEF m
<1>2. PICK k \in 0 .. 1 : Calls(k, 1) /\ PutChunk(Chunk("dont_care", m \div BlockSize, 0), <<>>, k)
  BY <1>1 DEF Skip, m
<1>3. k = 1 /\ faults = <<>>
  BY <1>2, NoFault DEF PInv
<1>4. FlattenSeq(<<>>) = <<>> /\ Len(<<>>) = 0 /\ <<>> \in Seq(Seq(Byte))
  BY DEF FlattenSeq
<1>5. PutChunk(Chunk("dont_care", n, Len(FlattenSeq(<<>>))), <<>>, Len(<<>>) + 1)
  BY <1>1, <1>2, <1>3, <1>4
<1> QED BY <1>3, <1>4, <1>5, PutWhole

LEMMA GapSparse ==
  ASSUME WholeBlocks, PInv, SkipGap, sparse, ret' = 0, faults' = <<>>
  PROVE  SparseSoFar'
<1> DEFINE i == bb
           b == s.list[i].block
           l == last_block
<1>1. /\ s \in Cookies /\ pc = "gap" /\ i =< Len(s.list) /\ pc' = "extent" /\ ret = 0
      /\ l = LastBlock(s.list, i) /\ i \in 1 .. Len(s.list) + 1 /\ l \in Nat
      /\ UNCHANGED <<s, sparse, crc, bb, last_block, crc32, ret>>
  BY DEF PInv, IInv, Walk, TypeOK, SkipGap
<1>2. i \in 1 .. Len(s.list) /\ Len(s.list) \in Nat
  BY <1>1, CookieFacts
<1>3. b \in Nat /\ l =< b /\ s.list[i] \in Nodes
  BY <1>1, <1>2, CookieFacts, NodeFacts, LastFacts
<1>4. At = l * BlockSize /\ At' = b * BlockSize
  BY <1>1 DEF At
<1>5. ChunksAt = ChunksBefore(s, i - 1, i - 1) /\ ChunksAt' = ChunksBefore(s, i - 1, i)
  BY <1>1 DEF ChunksAt
<1>6. ChunksAt \in Nat /\ ChunksAt' = ChunksAt + IF Gap(s.list, i) THEN 1 ELSE 0
  <2>1. i - 1 \in Nat
    BY <1>2
  <2> QED BY <1>1, <1>2, <1>5, <2>1, CountFacts
<1>7. Header' = Header /\ Header.type = "header"
  BY <1>1, HeaderKept DEF Header
<1>8. CASE b > l
  <2>1. Skip(GapBlocks * BlockSize) /\ GapBlocks = b - l /\ b - l \in Nat
    BY <1>1, <1>3, <1>8 DEF SkipGap, GapBlocks
  <2> DEFINE r == Whole("dont_care", b - l, <<>>)
  <2>2. file' = Append(file, r) /\ faults = <<>>
    BY <1>1, <2>1, SkipSparse
  <2>3. Holds(file, Header, ChunksAt, Prefix(s, At))
    BY <1>1, <2>2 DEF PInv, SoFar, SparseSoFar
  <2>4. r \in Chunks /\ r.type = "dont_care" /\ r.chunk_sz = b - l
    BY <2>1, HoleFacts
  <2>5. Expand(r) = Zeros((b - l) * BlockSize)
    <3> HIDE DEF r
    <3> QED BY <2>4, ExpandFacts
  <2>6. (b - l) * BlockSize = b * BlockSize - l * BlockSize /\ l * BlockSize =< b * BlockSize
        /\ b * BlockSize \in Nat
    BY <1>1, <1>3, TimesBlock
  <2> HIDE DEF r
  <2>7. Prefix(s, l * BlockSize) \o Zeros(b * BlockSize - l * BlockSize) = Prefix(s, b * BlockSize)
    BY <1>1, <1>2, <2>6, GapImage
  <2>8. /\ Holds(Append(file, r), Header, ChunksAt + 1, Prefix(s, At) \o Expand(r))
        /\ Summed(Append(file, r)) =>
             Summed(file) /\ (r.type \in {"raw", "crc32"} \/ (r.type = "fill" /\ r.chunk_sz = 1))
    BY <1>6, <1>7, <2>3, <2>4, Grown
  <2>9. Prefix(s, At) \o Expand(r) = Prefix(s, At')
    BY <1>4, <2>5, <2>6, <2>7
  <2>10. ~Summed(file')
    BY <2>2, <2>4, <2>8
  <2>11. ChunksAt' = ChunksAt + 1
    BY <1>1, <1>3, <1>6, <1>8 DEF Gap
  <2>12. Holds(file', Header', ChunksAt', Prefix(s, At'))
    BY <1>7, <2>2, <2>8, <2>9, <2>11
  <2> QED BY <1>1, <2>10, <2>12 DEF SparseSoFar
<1>9. CASE ~(b > l)
  <2>1. UNCHANGED <<file, faults>>
    BY <1>9 DEF SkipGap
  <2>2. b = l
    BY <1>1, <1>3, <1>9
  <2>3. SparseSoFar
    BY <1>1, <2>1 DEF PInv, SoFar
  <2>4. At' = At
    BY <1>4, <2>2
  <2>5. ChunksAt' = ChunksAt
    BY <1>1, <1>3, <1>6, <1>9 DEF Gap
  <2> QED BY <1>1, <1>7, <2>1, <2>3, <2>4, <2>5 DEF SparseSoFar
<1> QED BY <1>8, <1>9

\* What WriteSparse appends, and counts, when nothing fails.
LEMMA ExtentChunk ==
  ASSUME WholeBlocks, PInv, pc = "extent", ret' = 0, faults' = <<>>,
         NEW i \in 1 .. Len(s.list), WriteSparse(s.list[i])
  PROVE  \E r \in Chunks :
           /\ file' = Append(file, r) /\ faults = <<>> /\ r.type # "crc32"
           /\ ChunkHeaderLen + Len(r.body) = ChunkLen(s.list[i])
           /\ Prefix(s, s.list[i].block * BlockSize) \o Expand(r)
                = Prefix(s, EndBlock(s.list[i]) * BlockSize)
           /\ crc /\ (r.type = "raw" \/ (r.type = "fill" /\ r.chunk_sz = 1)) =>
                crc32' = crc32 \o Expand(r)
<1> DEFINE x == s.list[i]
           n == NBlocks(x)
           parts == IF x.type = "fill" THEN <<BytesOf(x, WordLen)>> ELSE Body(x)
           type == IF x.type = "fill" THEN "fill" ELSE "raw"
           all == Len(parts) + 1
           body == FlattenSeq(parts)
           r == Whole(type, n, body)
<1>1. s \in Cookies /\ x \in Nodes /\ n \in Nat /\ WordLen \in Nat /\ WordLen \in Int /\ WordLen > 0
  BY CookieFacts, NodeFacts, FormatAssumption, SMTT(40) DEF PInv, IInv, Walk
<1>2. PICK k \in 0 .. all :
        /\ Calls(k, all) /\ PutChunk(Chunk(type, n, Len(body)), parts, k)
        /\ crc32' = IF crc /\ k = all THEN crc32 \o Sum(x) ELSE crc32
        /\ ret' = IF k = all THEN 0 ELSE -1
  BY DEF WriteSparse
<1>3. k = all /\ faults = <<>>
  <2> HIDE DEF all
  <2> QED BY <1>2, NoFault DEF PInv
<1>4. x.len =< n * BlockSize
  <2> DEFINE b == x.block * BlockSize
             e == EndBlock(x) * BlockSize
             m == n * BlockSize
  <2>1. b \in Nat /\ e \in Nat /\ x.len \in Nat /\ b + x.len =< e
    BY <1>1, ExtentFacts
  <2>2. e = b + m /\ m \in Nat
    BY <1>1, NodeFacts
  <2> HIDE DEF b, e, m
  <2>3. x.len =< m
    BY <2>1, <2>2
  <2> QED BY <2>3 DEF m
<1>5. CASE x.type = "fill"
  <2> DEFINE w == BytesOf(x, WordLen)
  <2>1. w \in Seq(Byte) /\ Len(w) = WordLen /\ w[1] = ByteOf(x, 1 - 1)
    <3>1. w \in Seq(Byte)
      BY <1>1, ByteFacts
    <3>2. Len(w) = WordLen
      BY <1>1, ByteFacts
    <3>3. 1 \in 1 .. WordLen
      BY <1>1
    <3>4. w[1] = ByteOf(x, 1 - 1)
      BY <1>1, <3>3, ByteFacts
    <3> QED BY <3>1, <3>2, <3>4
  <2> HIDE DEF w
  <2>2. parts = <<w>> /\ type = "fill"
    BY <1>5 DEF w
  <2>3. <<w>> \in Seq(Seq(Byte)) /\ FlattenSeq(<<w>>) = w
    <3>1. <<w>> \in Seq(Seq(Byte))
      BY <2>1
    <3>2. FlattenSeq(<<w>>) = w
      BY <2>1, FlattenFew
    <3> QED BY <3>1, <3>2
  <2>4. parts \in Seq(Seq(Byte)) /\ body = w
    BY <2>2, <2>3
  <2> HIDE DEF parts
  <2>5. file' = Append(file, r)
    BY <1>2, <1>3, <2>4, PutWhole
  <2>6. w # <<>>
    BY <1>1, <2>1
  <2>7. /\ Whole("fill", n, w) \in Chunks /\ Whole("fill", n, w).type = "fill"
        /\ Whole("fill", n, w).chunk_sz = n /\ Whole("fill", n, w).body = w
    BY <1>1, <2>1, <2>6, WholeFacts
  <2>8. r = Whole("fill", n, w)
    BY <2>2, <2>4
  <2> HIDE DEF r
  <2>9. r \in Chunks /\ r.type = "fill" /\ r.chunk_sz = n /\ r.body = w
    BY <2>7, <2>8
  <2>10. Expand(r) = [j \in 1 .. n * BlockSize |-> ByteOf(x, 0)]
    <3>1. Expand(r) = [j \in 1 .. r.chunk_sz * BlockSize |-> r.body[1]]
      BY <2>9, ExpandFacts
    <3> QED BY <2>1, <2>9, <3>1
  <2>11. Prefix(s, x.block * BlockSize) \o Expand(r) = Prefix(s, EndBlock(x) * BlockSize)
    BY <1>1, <1>5, <2>10, FillImage
  <2>12. ASSUME crc, n = 1 PROVE crc32' = crc32 \o Expand(r)
    <3>1. crc32' = crc32 \o BytesOf(x, BlockSize)
      BY <1>2, <1>3, <1>5, <2>12 DEF Sum
    <3>2. n * BlockSize = BlockSize
      BY <2>12, SizesAssumption
    <3>3. BytesOf(x, BlockSize) = [j \in 1 .. BlockSize |-> ByteOf(x, 0)]
      BY <1>5 DEF BytesOf, ByteOf
    <3> QED BY <2>10, <3>1, <3>2, <3>3
  <2>13. ChunkHeaderLen + Len(r.body) = ChunkLen(x)
    BY <1>5, <2>1, <2>9 DEF ChunkLen
  <2> QED BY <1>3, <2>5, <2>9, <2>11, <2>12, <2>13
<1>6. CASE x.type # "fill"
  <2>1. parts = Body(x) /\ type = "raw"
    BY <1>6
  <2>2. parts \in Seq(Seq(Byte)) /\ body \in Seq(Byte)
    BY <1>1, <1>4, <2>1, BodyFacts
  <2> HIDE DEF parts
  <2>3. file' = Append(file, r)
    BY <1>2, <1>3, <2>2, PutWhole
  <2> HIDE DEF body
  <2>4. r \in Chunks /\ r.type = "raw" /\ r.body = body
    BY <1>1, <2>1, <2>2, WholeFacts
  <2> HIDE DEF r
  <2>5. Expand(r) = body
    BY <2>4, ExpandFacts
  <2>6. Prefix(s, x.block * BlockSize) \o Expand(r) = Prefix(s, EndBlock(x) * BlockSize)
    BY <1>1, <2>1, <2>5, RawImage DEF body
  <2>7. crc => crc32' = crc32 \o Expand(r)
    BY <1>2, <1>3, <1>6, <2>1, <2>5 DEF Sum, body
  <2>8. ChunkHeaderLen + Len(r.body) = ChunkLen(x)
    <3>1. Len(body) = n * BlockSize
      BY <1>1, <1>4, <2>1, BodyFacts DEF body
    <3>2. n * BlockSize = BlockSize * n
      BY <1>1, SizesAssumption
    <3> QED BY <1>6, <2>4, <3>1, <3>2 DEF ChunkLen
  <2> QED BY <1>3, <2>3, <2>4, <2>6, <2>7, <2>8
<1> QED BY <1>5, <1>6

LEMMA ExtentSparse ==
  ASSUME WholeBlocks, PInv, WriteExtent, sparse, ret' = 0, faults' = <<>>
  PROVE  SparseSoFar'
<1> DEFINE x == s.list[bb]
<1>1. /\ s \in Cookies /\ pc = "extent" /\ pc' = "gap" /\ bb \in 1 .. Len(s.list) /\ ret = 0
      /\ bb' = bb + 1 /\ last_block' = EndBlock(x) /\ UNCHANGED <<s, sparse, crc>>
      /\ WriteSparse(x)
  <2>1. s \in Cookies /\ pc = "extent" /\ bb \in 1 .. Len(s.list) + 1 /\ bb =< Len(s.list) /\ ret = 0
    BY DEF PInv, IInv, Walk, TypeOK, WriteExtent
  <2>2. Len(s.list) \in Nat
    BY <2>1, CookieFacts
  <2> QED BY <2>1, <2>2 DEF WriteExtent
<1>2. PICK r \in Chunks :
        /\ file' = Append(file, r) /\ faults = <<>> /\ r.type # "crc32"
        /\ Prefix(s, x.block * BlockSize) \o Expand(r) = Prefix(s, EndBlock(x) * BlockSize)
        /\ crc /\ (r.type = "raw" \/ (r.type = "fill" /\ r.chunk_sz = 1)) => crc32' = crc32 \o Expand(r)
  BY <1>1, ExtentChunk
<1>3. SparseSoFar
  BY <1>1, <1>2 DEF PInv, SoFar
<1>4. At = x.block * BlockSize /\ At' = EndBlock(x) * BlockSize
  BY <1>1 DEF At
<1> HIDE DEF x
<1>5. ChunksAt \in Nat /\ ChunksAt' = ChunksAt + 1
  <2>1. ChunksAt = ChunksBefore(s, bb - 1, bb) /\ ChunksAt' = ChunksBefore(s, (bb + 1) - 1, (bb + 1) - 1)
    BY <1>1 DEF ChunksAt
  <2>2. bb - 1 \in Nat /\ (bb + 1) - 1 = bb /\ (bb - 1) + 1 = bb
    BY <1>1, CookieFacts
  <2>3. ChunksBefore(s, bb - 1, bb) \in Nat
        /\ ChunksBefore(s, (bb - 1) + 1, bb) = ChunksBefore(s, bb - 1, bb) + 1
    BY <1>1, <2>2, CountFacts
  <2> QED BY <2>1, <2>2, <2>3
<1>6. Header' = Header /\ Header.type = "header"
  BY <1>1, HeaderKept DEF Header
<1>7. Holds(file, Header, ChunksAt, Prefix(s, At)) /\ (crc /\ Summed(file) => crc32 = Prefix(s, At))
  BY <1>3 DEF SparseSoFar
<1>8. /\ Holds(Append(file, r), Header, ChunksAt + 1, Prefix(s, At) \o Expand(r))
      /\ Summed(Append(file, r)) =>
           Summed(file) /\ (r.type \in {"raw", "crc32"} \/ (r.type = "fill" /\ r.chunk_sz = 1))
  BY <1>5, <1>6, <1>7, Grown, ZenonT(40)
<1>9. Prefix(s, At) \o Expand(r) = Prefix(s, At')
  BY <1>2, <1>4
<1>10. ASSUME crc, Summed(file') PROVE crc32' = Prefix(s, At')
  <2>1. Summed(file) /\ (r.type \in {"raw", "crc32"} \/ (r.type = "fill" /\ r.chunk_sz = 1))
    BY <1>2, <1>8, <1>10
  <2>2. r.type # "crc32"
    BY <1>2
  <2> QED BY <1>2, <1>7, <1>9, <1>10, <2>1, <2>2
<1>11. Holds(file', Header', ChunksAt', Prefix(s, At'))
  BY <1>2, <1>5, <1>6, <1>8, <1>9
<1> QED BY <1>1, <1>10, <1>11 DEF SparseSoFar

\* What is left behind the last extent, in blocks.
LEMMA PadFacts ==
  ASSUME WholeBlocks, IInv, SkipEnd
  PROVE  /\ pc' = "close" /\ pc = "gap" /\ bb = Len(s.list) + 1 /\ ret = 0
         /\ last_block = LastBlock(s.list, Len(s.list) + 1)
         /\ last_block * BlockSize \in Nat /\ last_block * BlockSize =< s.len /\ s.len \in Nat
         /\ Pad = s.len - last_block * BlockSize
         /\ \E n \in Nat : Pad = n * BlockSize
         /\ UNCHANGED <<s, sparse, crc, bb, last_block, crc32, ret>>
<1> DEFINE l == last_block
           q == s.len \div BlockSize
<1>1. /\ s \in Cookies /\ pc = "gap" /\ bb > Len(s.list) /\ ret = 0
      /\ bb \in 1 .. Len(s.list) + 1 /\ l \in Nat /\ l = LastBlock(s.list, bb)
      /\ pc' = IF Pad < 0 THEN "aborted" ELSE "close"
      /\ UNCHANGED <<s, sparse, crc, bb, last_block, crc32, ret>>
  BY DEF IInv, Walk, TypeOK, SkipEnd
<1>2. Len(s.list) \in Nat /\ s.len \in Nat /\ BlockSize \in Nat \ {0}
  BY <1>1, CookieFacts, SizesAssumption
<1>3. bb = Len(s.list) + 1
  BY <1>1, <1>2
<1>4. l = LastBlock(s.list, Len(s.list) + 1) /\ l * BlockSize \in Nat
  BY <1>1, <1>3, TimesBlock
<1>5. l * BlockSize =< s.len
  BY <1>1, <1>4, CountedAll
<1>6. q \in Nat /\ s.len = BlockSize * q
  <2>1. s.len % BlockSize = 0
    BY <1>1 DEF WholeBlocks
  <2> QED BY <1>2, <2>1, DivExact
<1> HIDE DEF q
<1>7. Pad = s.len - l * BlockSize
  BY DEF Pad
<1>8. l =< q /\ q - l \in Nat /\ Pad = (q - l) * BlockSize
  <2>1. l * BlockSize = BlockSize * l /\ BlockSize * q = q * BlockSize
    BY <1>1, <1>2, <1>6
  <2>2. l =< q
    <3>1. CASE q < l
      <4>1. BlockSize * (q + 1) =< BlockSize * l
        BY <1>1, <1>2, <1>6, <3>1, MulLess, SMTT(40)
      <4>2. BlockSize * (q + 1) = BlockSize * q + BlockSize
        BY <1>2, <1>6
      <4> DEFINE p == BlockSize * q
                 m == BlockSize * l
      <4>3. p \in Nat /\ m \in Nat /\ m = l * BlockSize /\ p = s.len
        BY <1>1, <1>2, <1>6, <2>1
      <4>4. p + BlockSize =< m
        BY <4>1, <4>2
      <4> HIDE DEF p, m
      <4>5. m =< p
        BY <1>5, <4>3
      <4> QED BY <1>2, <4>3, <4>4, <4>5
    <3> QED BY <1>1, <1>6, <3>1
  <2>3. (q - l) * BlockSize = q * BlockSize - l * BlockSize
    BY <1>1, <1>6, <2>2, TimesBlock
  <2> QED BY <1>1, <1>6, <1>7, <2>1, <2>2, <2>3
<1>9. ~(Pad < 0)
  BY <1>2, <1>4, <1>5, <1>7
<1> QED BY <1>1, <1>2, <1>3, <1>4, <1>5, <1>7, <1>8, <1>9

LEMMA EndSparse ==
  ASSUME WholeBlocks, PInv, SkipEnd, sparse, ret' = 0, faults' = <<>>
  PROVE  SparseSoFar'
<1> DEFINE l == last_block * BlockSize
           i == Len(s.list) + 1
<1>1. /\ pc' = "close" /\ pc = "gap" /\ bb = i /\ ret = 0
      /\ last_block = LastBlock(s.list, i)
      /\ l \in Nat /\ l =< s.len /\ s.len \in Nat /\ Pad = s.len - l
      /\ UNCHANGED <<s, sparse, crc, bb, last_block, crc32, ret>>
  BY PadFacts DEF PInv
<1>2. s \in Cookies /\ Len(s.list) \in Nat /\ i \in 1 .. i /\ ~(i =< Len(s.list)) /\ i - 1 = Len(s.list)
  BY CookieFacts DEF PInv, IInv, Walk
<1>3. At = l /\ At' = s.len
  BY <1>1 DEF At
<1>4. /\ ChunksAt \in Nat
      /\ ChunksAt' = ChunksAt + IF l < s.len THEN 1 ELSE 0
  <2>1. ChunksAt = ChunksBefore(s, Len(s.list), Len(s.list))
    BY <1>1, <1>2 DEF ChunksAt
  <2>2. ChunksAt' = CountChunks'
    BY <1>1 DEF ChunksAt
  <2>3. CountChunks' = CountChunks
    BY <1>1, HeaderKept
  <2> QED BY <1>1, <1>2, <2>1, <2>2, <2>3, CountedAll
<1>5. Header' = Header /\ Header.type = "header"
  BY <1>1, HeaderKept DEF Header
<1>6. CASE l < s.len
  <2>1. PICK n \in Nat : Pad = n * BlockSize
    BY PadFacts DEF PInv
  <2> DEFINE r == Whole("dont_care", n, <<>>)
  <2>2. Skip(n * BlockSize)
    <3>1. Pad > 0
      BY <1>1, <1>6
    <3> QED BY <2>1, <3>1 DEF SkipEnd
  <2>3. file' = Append(file, r) /\ faults = <<>>
    BY <1>1, <2>2, SkipSparse
  <2>4. Holds(file, Header, ChunksAt, Prefix(s, At))
    BY <1>1, <2>3 DEF PInv, SoFar, SparseSoFar
  <2>5. r \in Chunks /\ r.type = "dont_care" /\ r.chunk_sz = n
    BY HoleFacts
  <2>6. Expand(r) = Zeros(n * BlockSize)
    <3> HIDE DEF r
    <3> QED BY <2>5, ExpandFacts
  <2> HIDE DEF r
  <2>7. Prefix(s, l) \o Zeros(s.len - l) = Prefix(s, s.len)
    BY <1>1, <1>2, GapImage
  <2>8. /\ Holds(Append(file, r), Header, ChunksAt + 1, Prefix(s, At) \o Expand(r))
        /\ Summed(Append(file, r)) =>
             Summed(file) /\ (r.type \in {"raw", "crc32"} \/ (r.type = "fill" /\ r.chunk_sz = 1))
    BY <1>4, <1>5, <2>4, <2>5, Grown
  <2>9. Prefix(s, At) \o Expand(r) = Prefix(s, s.len)
    BY <1>1, <1>3, <2>1, <2>6, <2>7
  <2>10. ~Summed(file')
    BY <2>3, <2>5, <2>8
  <2>11. Prefix(s, At)' = Prefix(s, s.len)
    BY <1>1, <1>3
  <2>12. Holds(file', Header', ChunksAt', Prefix(s, At)')
    BY <1>4, <1>5, <1>6, <2>3, <2>8, <2>9, <2>11
  <2> QED BY <1>1, <2>10, <2>12 DEF SparseSoFar
<1>7. CASE ~(l < s.len)
  <2>1. l = s.len
    BY <1>1, <1>7
  <2>2. UNCHANGED <<file, faults>>
    <3>1. ~(Pad > 0)
      BY <1>1, <2>1
    <3> QED BY <3>1 DEF SkipEnd
  <2>3. SparseSoFar
    BY <1>1, <2>2 DEF PInv, SoFar
  <2>4. At' = At
    BY <1>3, <2>1
  <2>5. ChunksAt' = ChunksAt
    BY <1>4, <1>7
  <2> QED BY <1>1, <1>5, <2>2, <2>3, <2>4, <2>5 DEF SparseSoFar
<1> QED BY <1>6, <1>7

\* The crc chunk.
LEMMA CloseChunk ==
  ASSUME PInv, Close, sparse, crc, faults' = <<>>
  PROVE  \E w \in Seq(Byte) :
           Len(w) = WordLen /\ file' = Append(file, Whole("crc32", 0, w)) /\ faults = <<>>
<1> DEFINE w == [k \in 1 .. WordLen |-> "crc"]
<1>1. w \in Seq(Byte) /\ Len(w) = WordLen
  <2>1. WordLen \in Nat /\ "crc" \in Byte
    BY FormatAssumption DEF Byte
  <2> HIDE DEF Byte
  <2> QED BY <2>1
<1>2. PICK n \in 0 .. 2 : Calls(n, 2) /\ PutChunk(Chunk("crc32", 0, WordLen), <<w>>, n)
  BY DEF Close
<1> HIDE DEF w
<1>3. n = 2 /\ faults = <<>>
  <2>1. pc = "close"
    BY DEF Close
  <2> QED BY <1>2, <2>1, NoFault DEF PInv
<1>4. <<w>> \in Seq(Seq(Byte)) /\ Len(<<w>>) + 1 = 2
  BY <1>1
<1>5. FlattenSeq(<<w>>) = w
  BY <1>1, FlattenFew
<1>6. PutChunk(Chunk("crc32", 0, Len(FlattenSeq(<<w>>))), <<w>>, Len(<<w>>) + 1)
  BY <1>1, <1>2, <1>3, <1>4, <1>5
<1>7. file' = Append(file, Whole("crc32", 0, w))
  BY <1>4, <1>5, <1>6, PutWhole
<1> QED BY <1>1, <1>3, <1>7

LEMMA CloseSparse ==
  ASSUME WholeBlocks, PInv, Close, sparse, ret' = 0, faults' = <<>>
  PROVE  SparseSoFar'
<1>1. /\ pc = "close" /\ pc' = "closed" /\ ret = 0
      /\ UNCHANGED <<s, sparse, crc, bb, last_block, crc32, ret>>
  BY DEF Close
<1>2. s \in Cookies /\ crc \in BOOLEAN
  BY DEF PInv, IInv, Walk, TypeOK
<1>3. At = s.len /\ At' = s.len
  BY <1>1 DEF At
<1>4. ChunksAt \in Nat /\ ChunksAt' = ChunksAt + IF crc THEN 1 ELSE 0
  <2>1. ChunksAt = CountChunks /\ ChunksAt' = CountChunks' + IF crc' THEN 1 ELSE 0
    BY <1>1 DEF ChunksAt
  <2>2. CountChunks' = CountChunks
    BY <1>1, HeaderKept
  <2>3. CountChunks \in Nat
    BY <1>2, CountedAll
  <2> QED BY <1>1, <2>1, <2>2, <2>3
<1>5. Header' = Header /\ Header.type = "header"
  BY <1>1, HeaderKept DEF Header
<1>6. CASE crc
  <2>1. PICK w \in Seq(Byte) :
          Len(w) = WordLen /\ file' = Append(file, Whole("crc32", 0, w)) /\ faults = <<>>
    BY <1>6, CloseChunk
  <2> DEFINE r == Whole("crc32", 0, w)
  <2>7. file' = Append(file, r)
    BY <2>1
  <2>8. r \in Chunks /\ r.type = "crc32"
    BY <2>1, WholeFacts
  <2> HIDE DEF r
  <2>9. Expand(r) = <<>>
    BY <2>8, ExpandFacts
  <2>10. SparseSoFar
    BY <1>1, <2>1 DEF PInv, SoFar
  <2>11. Holds(file, Header, ChunksAt, Prefix(s, At)) /\ (crc /\ Summed(file) => crc32 = Prefix(s, At))
    BY <2>10 DEF SparseSoFar
  <2>12. /\ Holds(Append(file, r), Header, ChunksAt + 1, Prefix(s, At) \o Expand(r))
         /\ Prefix(s, At) \in Seq(Byte)
         /\ Summed(Append(file, r)) => Summed(file)
    BY <1>4, <1>5, <2>8, <2>11, Grown
  <2>13. Prefix(s, At) \o Expand(r) = Prefix(s, At)
    BY <2>9, <2>12, ConcatEmptySeq
  <2>14. Prefix(s, At)' = Prefix(s, At)
    BY <1>1, <1>3
  <2>15. ChunksAt' = ChunksAt + 1
    BY <1>4, <1>6
  <2>16. Holds(file', Header', ChunksAt', Prefix(s, At)')
    BY <1>5, <2>7, <2>12, <2>13, <2>14, <2>15
  <2>17. crc' /\ Summed(file') => crc32' = Prefix(s, At)'
    BY <1>1, <2>7, <2>11, <2>12, <2>14
  <2> QED BY <2>16, <2>17 DEF SparseSoFar
<1>7. CASE ~crc
  <2>1. UNCHANGED <<file, faults>>
    BY <1>7 DEF Close
  <2>2. SparseSoFar
    BY <1>1, <2>1 DEF PInv, SoFar
  <2>3. At' = At /\ ChunksAt' = ChunksAt
    BY <1>3, <1>4, <1>7
  <2> QED BY <1>1, <1>5, <2>1, <2>2, <2>3 DEF SparseSoFar
<1> QED BY <1>2, <1>6, <1>7

-----------------------------------------------------------------------------
(* Every step of writing a plain image keeps it true.                      *)

LEMMA LeavesMore ==
  ASSUME NEW c, NEW f, NEW n \in Nat, NEW m \in Nat, n =< m, Leaves(f, c, n),
         \A k \in 1 .. m : n < k => ByteAt(c.list, k) = Hole
  PROVE  Leaves(f, c, m)
<1>1. /\ f \in Seq(Byte) /\ Len(f) =< n /\ Len(f) \in Nat
      /\ \A k \in 1 .. n : ByteAt(c.list, k) = IF k =< Len(f) THEN f[k] ELSE Hole
  BY LenProperties DEF Leaves
<1>2. \A k \in 1 .. m : ByteAt(c.list, k) = IF k =< Len(f) THEN f[k] ELSE Hole
  <2> SUFFICES ASSUME NEW k \in 1 .. m
               PROVE  ByteAt(c.list, k) = IF k =< Len(f) THEN f[k] ELSE Hole
    OBVIOUS
  <2>1. CASE n < k
    <3>1. ~(k =< Len(f))
      BY <1>1, <2>1
    <3> QED BY <2>1, <3>1
  <2>2. CASE ~(n < k)
    <3>1. k \in 1 .. n
      BY <2>2
    <3> QED BY <1>1, <3>1
  <2> QED BY <2>1, <2>2
<1>3. Len(f) =< m
  BY <1>1
<1> QED BY <1>1, <1>2, <1>3 DEF Leaves

LEMMA LeavesWritten ==
  ASSUME NEW c, NEW f, NEW n \in Nat, Leaves(f, c, n), NEW body \in Seq(Byte),
         \A k \in 1 .. Len(body) : ByteAt(c.list, n + k) = body[k]
  PROVE  /\ Leaves(WriteAt(f, n, body), c, n + Len(body))
         /\ Len(WriteAt(f, n, body)) = n + Len(body)
<1> DEFINE m == n + Len(body)
           B(k) == IF n < k /\ k =< m THEN body[k - n] ELSE IF k =< Len(f) THEN f[k] ELSE Hole
           g == WriteAt(f, n, body)
<1>1. /\ f \in Seq(Byte) /\ Len(f) =< n /\ Len(f) \in Nat
      /\ \A k \in 1 .. n : ByteAt(c.list, k) = IF k =< Len(f) THEN f[k] ELSE Hole
  BY LenProperties DEF Leaves
<1>2. Len(body) \in Nat /\ m \in Nat /\ Hole \in Byte
  BY LenProperties DEF Byte
<1>3. g = [k \in 1 .. m |-> B(k)]
  <2>1. ~(Len(f) > m) \/ Len(f) = m
    BY <1>1, <1>2
  <2> QED BY <2>1 DEF WriteAt
<1>4. ASSUME NEW k \in 1 .. m PROVE B(k) \in Byte /\ ByteAt(c.list, k) = B(k)
  <2>1. CASE n < k
    <3>1. k - n \in 1 .. Len(body) /\ n + (k - n) = k /\ k =< m
      BY <1>2, <2>1
    <3>2. body[k - n] \in Byte /\ ByteAt(c.list, n + (k - n)) = body[k - n]
      BY <3>1, ElementOfSeq
    <3> HIDE DEF m
    <3> QED BY <2>1, <3>1, <3>2
  <2>2. CASE ~(n < k)
    <3>1. k \in 1 .. n
      BY <2>2
    <3>2. k =< Len(f) => k \in 1 .. Len(f) /\ f[k] \in Byte
      BY <1>1, <3>1, ElementOfSeq
    <3> HIDE DEF m
    <3> QED BY <1>1, <1>2, <2>2, <3>1, <3>2
  <2> QED BY <2>1, <2>2
<1> HIDE DEF B, g, m
<1>5. g \in Seq(Byte) /\ Len(g) = m /\ \A k \in 1 .. m : g[k] = B(k)
  BY <1>2, <1>3, <1>4
<1>6. \A k \in 1 .. m : ByteAt(c.list, k) = IF k =< Len(g) THEN g[k] ELSE Hole
  BY <1>4, <1>5
<1>7. Leaves(g, c, m)
  BY <1>2, <1>5, <1>6 DEF Leaves
<1> QED BY <1>5, <1>7 DEF g, m

LEMMA LeavesCut ==
  ASSUME NEW c, NEW f, NEW n \in Nat, Leaves(f, c, n)
  PROVE  Leaves(Truncate(f, n), c, n) /\ Len(Truncate(f, n)) = n
<1> DEFINE B(k) == IF k =< Len(f) THEN f[k] ELSE Hole
           g == Truncate(f, n)
<1>1. /\ f \in Seq(Byte) /\ Len(f) =< n /\ Len(f) \in Nat /\ Hole \in Byte
      /\ \A k \in 1 .. n : ByteAt(c.list, k) = B(k)
  BY LenProperties DEF Leaves, Byte
<1>2. g = [k \in 1 .. n |-> B(k)]
  BY DEF Truncate
<1>3. \A k \in 1 .. n : B(k) \in Byte
  <2>1. \A k \in 1 .. n : k =< Len(f) => k \in 1 .. Len(f)
    OBVIOUS
  <2> QED BY <1>1, <2>1, ElementOfSeq
<1> HIDE DEF B, g
<1>4. g \in Seq(Byte) /\ Len(g) = n /\ \A k \in 1 .. n : g[k] = B(k)
  BY <1>2, <1>3
<1>5. \A k \in 1 .. n : ByteAt(c.list, k) = IF k =< Len(g) THEN g[k] ELSE Hole
  BY <1>1, <1>4
<1>6. Leaves(g, c, n)
  BY <1>4, <1>5 DEF Leaves
<1> QED BY <1>4, <1>6 DEF g

\* The pieces of a fill join to its length.
LEMMA PiecesJoined ==
  ASSUME NEW x \in Nodes, x.type = "fill", NBlocks(x) * BlockSize = x.len,
         NEW pieces, pieces = [k \in 1 .. NBlocks(x) |-> BytesOf(x, CellOf(x, x.block + k - 1).bytes)]
  PROVE  pieces \in Seq(Seq(Byte)) /\ FlattenSeq(pieces) = BytesOf(x, x.len)
<1> DEFINE n == NBlocks(x)
           v == ByteOf(x, 0)
           p == Copies(v, BlockSize)
<1>1. n \in Nat /\ BlockSize \in Nat /\ x.len \in Nat /\ x.block \in Nat
  BY NodeFacts, SizesAssumption
<1>2. v \in Byte
  BY ByteFacts
<1>3. \A k : ByteOf(x, k) = v
  BY DEF ByteOf
<1>4. \A m : BytesOf(x, m) = [j \in 1 .. m |-> v]
  BY <1>3 DEF BytesOf
<1> HIDE DEF n, v
<1>5. ASSUME NEW k \in 1 .. n PROVE CellOf(x, x.block + k - 1).bytes = BlockSize
  <2> DEFINE left == x.len - ((x.block + k - 1) - x.block) * BlockSize
  <2>1. (x.block + k - 1) - x.block = k - 1 /\ k - 1 \in Nat /\ k \in Nat /\ k =< n
    BY <1>1
  <2>2. k * BlockSize =< n * BlockSize /\ (k - 1) * BlockSize = k * BlockSize - BlockSize
        /\ k * BlockSize \in Nat /\ (k - 1) * BlockSize \in Nat
    <3>1. k * BlockSize =< n * BlockSize
      BY <1>1, <2>1, TimesBlock
    <3>2. (k - 1) * BlockSize = k * BlockSize - BlockSize
      BY <1>1
    <3> QED BY <2>1, <3>1, <3>2, TimesBlock
  <2>3. n * BlockSize = x.len
    BY DEF n
  <2>4. left = x.len - (k - 1) * BlockSize
    BY <2>1
  <2> DEFINE a == k * BlockSize
             b == (k - 1) * BlockSize
  <2> HIDE DEF left
  <2>5. a =< x.len /\ b = a - BlockSize /\ left = x.len - b /\ a \in Nat /\ b \in Nat
    BY <2>2, <2>3, <2>4
  <2> HIDE DEF a, b
  <2>6. ~(left < BlockSize)
    BY <1>1, <2>5
  <2> QED BY <2>6 DEF CellOf, left
<1>6. pieces = [k \in 1 .. n |-> p]
  BY <1>4, <1>5 DEF n, Copies
<1>7. pieces \in [1 .. n -> {p}]
  BY <1>6
<1>8. pieces \in Seq(Seq(Byte)) /\ FlattenSeq(pieces) = Copies(v, n * BlockSize)
  <2> DEFINE q == pieces
  <2>1. q \in [1 .. n -> {Copies(v, BlockSize)}]
    BY <1>7
  <2> HIDE DEF q
  <2>2. q \in Seq(Seq(Byte))
    BY <1>1, <1>2, <2>1, FlattenCopies
  <2>3. FlattenSeq(q) = Copies(v, n * BlockSize)
    BY <1>1, <1>2, <2>1, FlattenCopies
  <2> QED BY <2>2, <2>3 DEF q
<1>9. BytesOf(x, x.len) = Copies(v, x.len)
  BY <1>4 DEF Copies
<1> QED BY <1>8, <1>9 DEF n

LEMMA OpenPlain ==
  ASSUME PInv, Open, ~sparse, ret' = 0
  PROVE  PlainSoFar'
<1>1. /\ s \in Cookies /\ bb = 1 /\ last_block = 0 /\ file = <<>> /\ pc = "open" /\ pos = 0
      /\ UNCHANGED <<s, sparse, crc, bb, last_block, pos>>
  BY DEF PInv, IInv, Walk, Open
<1>2. pc' = "gap" /\ file' = <<>>
  <2>1. PICK n \in 0 .. 1 : /\ ret' = IF n = 1 THEN 0 ELSE -1
                            /\ pc' = IF n = 1 THEN "gap" ELSE "closed"
    BY DEF Open
  <2>2. file' = file
    BY DEF Open
  <2> QED BY <1>1, <2>1, <2>2
<1>3. At' = 0
  <2>1. 0 * BlockSize = 0
    BY SizesAssumption
  <2> QED BY <1>1, <1>2, <2>1 DEF At
<1>4. Leaves(<<>>, s, 0)
  BY DEF Leaves
<1> QED BY <1>1, <1>2, <1>3, <1>4 DEF PlainSoFar

\* What a seek does when nothing fails.
LEMMA SkipPlain ==
  ASSUME PInv, ~sparse, pc = "gap", NEW n \in Nat, Skip(n), faults' = <<>>
  PROVE  file' = file /\ pos' = pos + n /\ faults = <<>>
<1>1. PICK k \in 0 .. 1 : Calls(k, 1) /\ (pos' = IF k = 1 THEN pos + n ELSE pos) /\ file' = file
  BY DEF Skip
<1>2. k = 1 /\ faults = <<>>
  BY <1>1, NoFault DEF PInv
<1> QED BY <1>1, <1>2

LEMMA GapPlain ==
  ASSUME WholeBlocks, PInv, SkipGap, ~sparse, ret' = 0, faults' = <<>>
  PROVE  PlainSoFar'
<1> DEFINE i == bb
           b == s.list[i].block
           l == last_block
<1>1. /\ s \in Cookies /\ pc = "gap" /\ i =< Len(s.list) /\ pc' = "extent" /\ ret = 0
      /\ l = LastBlock(s.list, i) /\ i \in 1 .. Len(s.list) + 1 /\ l \in Nat
      /\ UNCHANGED <<s, sparse, crc, bb, last_block, crc32, ret>>
  BY DEF PInv, IInv, Walk, TypeOK, SkipGap
<1>2. i \in 1 .. Len(s.list) /\ Len(s.list) \in Nat
  BY <1>1, CookieFacts
<1>3. b \in Nat /\ l =< b /\ s.list[i] \in Nodes
  BY <1>1, <1>2, CookieFacts, NodeFacts, LastFacts
<1>4. At = l * BlockSize /\ At' = b * BlockSize
  BY <1>1 DEF At
<1>5. /\ l * BlockSize \in Nat /\ b * BlockSize \in Nat /\ l * BlockSize =< b * BlockSize
      /\ (b - l) * BlockSize = b * BlockSize - l * BlockSize
  BY <1>1, <1>3, TimesBlock
<1>6. file' = file /\ pos' = pos + (b * BlockSize - l * BlockSize) /\ faults = <<>>
  <2>1. pos \in Nat
    BY DEF PInv, IInv, TypeOK
  <2>2. CASE b > l
    <3>1. Skip(GapBlocks * BlockSize) /\ GapBlocks = b - l
      BY <1>1, <1>3, <2>2 DEF SkipGap, GapBlocks
    <3> DEFINE n == b * BlockSize - l * BlockSize
    <3>2. n \in Nat
      BY <1>5
    <3>3. Skip(n)
      BY <1>5, <3>1
    <3> HIDE DEF n
    <3>4. file' = file /\ pos' = pos + n /\ faults = <<>>
      BY <1>1, <3>2, <3>3, SkipPlain
    <3> QED BY <3>4 DEF n
  <2>3. CASE ~(b > l)
    <3>1. UNCHANGED <<file, pos, faults>>
      BY <2>3 DEF SkipGap
    <3>2. b = l
      BY <1>1, <1>3, <2>3
    <3> DEFINE m == b * BlockSize
    <3>3. m \in Nat
      BY <1>5
    <3> HIDE DEF m
    <3>4. pos = pos + (m - m)
      BY <2>1, <3>3
    <3> QED BY <3>1, <3>2, <3>4 DEF m
  <2> QED BY <2>2, <2>3
<1>7. Leaves(file, s, l * BlockSize) /\ pos = l * BlockSize
  BY <1>1, <1>4, <1>6 DEF PInv, SoFar, PlainSoFar
<1>8. \A k \in 1 .. b * BlockSize : l * BlockSize < k => ByteAt(s.list, k) = Hole
  <2> SUFFICES ASSUME NEW k \in 1 .. b * BlockSize, l * BlockSize < k PROVE ByteAt(s.list, k) = Hole
    OBVIOUS
  <2>1. k \in Nat /\ k =< b * BlockSize
    OBVIOUS
  <2>2. LastBlock(s.list, i) * BlockSize < k
    BY <1>1
  <2> QED BY <1>1, <2>1, <2>2, GapBytes
<1>9. Leaves(file, s, b * BlockSize)
  BY <1>5, <1>7, <1>8, LeavesMore
<1>10. pos' = b * BlockSize
  <2> DEFINE m == b * BlockSize
             n == l * BlockSize
  <2>1. m \in Nat /\ n \in Nat /\ pos = n /\ pos' = pos + (m - n)
    BY <1>5, <1>6, <1>7
  <2> HIDE DEF m, n
  <2>2. pos' = m
    BY <2>1
  <2> QED BY <2>2 DEF m
<1> QED BY <1>1, <1>4, <1>6, <1>9, <1>10 DEF PlainSoFar

\* What WriteNormal leaves when nothing fails.
LEMMA ExtentWritten ==
  ASSUME WholeBlocks, PInv, pc = "extent", ret' = 0, faults' = <<>>,
         NEW i \in 1 .. Len(s.list), WriteNormal(s.list[i])
  PROVE  /\ file' = WriteAt(file, pos, BytesOf(s.list[i], s.list[i].len)) /\ faults = <<>>
         /\ pos' = pos + NBlocks(s.list[i]) * BlockSize
<1> DEFINE x == s.list[i]
           n == NBlocks(x) * BlockSize
           padded == x.type # "fill" /\ Padding(x) > 0
           fills == [k \in 1 .. NBlocks(x) |-> BytesOf(x, CellOf(x, x.block + k - 1).bytes)]
           pieces == IF x.type = "fill" THEN fills ELSE <<BytesOf(x, x.len)>>
           all == Len(pieces) + IF padded THEN 1 ELSE 0
           Taken(k) == IF k > Len(pieces) THEN Len(pieces) ELSE k
           Written(k) == FlattenSeq(SubSeq(pieces, 1, Taken(k)))
           body == BytesOf(x, x.len)
<1>1. s \in Cookies /\ pos \in Nat
  BY DEF PInv, IInv, Walk, TypeOK
<1>2. x \in Nodes /\ x.len \in Nat /\ x.len > 0 /\ n \in Nat
  <2>1. x \in Nodes /\ x.len \in Nat /\ x.len > 0
    BY <1>1, ExtentFacts
  <2> QED BY <2>1, NodeFacts
<1>3. x.len =< n /\ (x.type = "fill" => n = x.len)
  <2> DEFINE b == x.block * BlockSize
             e == EndBlock(x) * BlockSize
  <2>1. /\ b \in Nat /\ e \in Nat /\ b + x.len =< e
        /\ x.type = "fill" => e = b + x.len
    BY <1>1, ExtentFacts
  <2>2. e = b + n
    BY <1>2, NodeFacts
  <2> HIDE DEF b, e, n, x
  <2> QED BY <1>2, <2>1, <2>2
<1>4. PICK k \in 0 .. all :
        /\ Calls(k, all)
        /\ ret' = IF k = all THEN 0 ELSE -1
        /\ file' = IF Written(k) = <<>> THEN file ELSE WriteAt(file, pos, Written(k))
        /\ pos' = pos + Len(Written(k)) + IF padded /\ k = all THEN Padding(x) ELSE 0
  BY DEF WriteNormal
<1>5. k = all /\ faults = <<>>
  <2> HIDE DEF all, Written, padded
  <2>1. k = all
    BY <1>4
  <2> QED BY <1>4, <2>1, NoFault DEF PInv
<1>6. body \in Seq(Byte) /\ Len(body) = x.len /\ body # <<>>
  <2>1. x.len \in Int
    BY <1>2
  <2>2. body \in Seq(Byte)
    BY <1>2, <2>1, ByteFacts
  <2>3. Len(body) = x.len
    BY <1>2, <2>1, ByteFacts
  <2> HIDE DEF body
  <2>4. body # <<>>
    BY <1>2, <2>3
  <2> QED BY <2>2, <2>3, <2>4
<1>7. pieces \in Seq(Seq(Byte)) /\ FlattenSeq(pieces) = body
  <2>1. CASE x.type = "fill"
    <3>1. fills \in Seq(Seq(Byte)) /\ FlattenSeq(fills) = BytesOf(x, x.len)
      BY <1>2, <1>3, <2>1, PiecesJoined
    <3> HIDE DEF fills
    <3> QED BY <2>1, <3>1
  <2>2. CASE x.type # "fill"
    <3> HIDE DEF body
    <3>1. pieces = <<body>>
      BY <2>2 DEF body
    <3>2. <<body>> \in Seq(Seq(Byte))
      BY <1>6
    <3>3. FlattenSeq(<<body>>) = body
      BY <1>6, FlattenFew
    <3> QED BY <3>1, <3>2, <3>3
  <2> QED BY <2>1, <2>2
<1> HIDE DEF pieces, body
<1>8. Written(all) = body
  <2>1. Len(pieces) \in Nat
    BY <1>7, LenProperties
  <2>2. Taken(all) = Len(pieces) /\ Len(pieces) \in 0 .. Len(pieces)
    BY <2>1
  <2>3. SubSeq(pieces, 1, Len(pieces)) = pieces
    BY <1>7, <2>2, FirstParts
  <2> HIDE DEF all, Taken
  <2> QED BY <1>7, <2>2, <2>3
<1>9. file' = WriteAt(file, pos, body) /\ pos' = pos + x.len + IF padded THEN Padding(x) ELSE 0
  <2> HIDE DEF Written, all, padded, x
  <2> QED BY <1>4, <1>5, <1>6, <1>8
<1>10. x.len + (IF padded THEN Padding(x) ELSE 0) = n
  <2>1. Padding(x) = n - x.len
    BY <1>2, <1>3, BodyFacts
  <2> DEFINE p == Padding(x)
  <2> HIDE DEF n, p
  <2>2. p = n - x.len
    BY <2>1 DEF p
  <2>3. padded \/ p = 0
    BY <1>2, <1>3, <2>2 DEF p
  <2> QED BY <1>2, <2>2, <2>3 DEF p
<1>11. pos' = pos + n
  <2> DEFINE p == IF padded THEN Padding(x) ELSE 0
  <2>1. x.len + p = n /\ pos' = pos + x.len + p
    BY <1>9, <1>10
  <2>2. p \in Int
    <3>1. Padding(x) \in Nat
      BY <1>2, <1>3, BodyFacts
    <3> QED BY <3>1
  <2> HIDE DEF p, n, x
  <2> QED BY <1>1, <1>2, <2>1, <2>2
<1> QED BY <1>5, <1>9, <1>11 DEF body

LEMMA ExtentPlain ==
  ASSUME WholeBlocks, PInv, WriteExtent, ~sparse, ret' = 0, faults' = <<>>
  PROVE  PlainSoFar'
<1> DEFINE x == s.list[bb]
           b == x.block * BlockSize
           e == EndBlock(x) * BlockSize
           n == NBlocks(x) * BlockSize
           body == BytesOf(x, x.len)
<1>1. /\ s \in Cookies /\ pc = "extent" /\ pc' = "gap" /\ bb \in 1 .. Len(s.list) /\ ret = 0
      /\ bb' = bb + 1 /\ last_block' = EndBlock(x) /\ UNCHANGED <<s, sparse, crc>>
      /\ WriteNormal(x)
  <2>1. s \in Cookies /\ pc = "extent" /\ bb \in 1 .. Len(s.list) + 1 /\ bb =< Len(s.list) /\ ret = 0
    BY DEF PInv, IInv, Walk, TypeOK, WriteExtent
  <2>2. Len(s.list) \in Nat
    BY <2>1, CookieFacts
  <2> QED BY <2>1, <2>2 DEF WriteExtent
<1>2. file' = WriteAt(file, pos, body) /\ faults = <<>> /\ pos' = pos + n
  BY <1>1, ExtentWritten
<1>3. At = b /\ At' = e
  BY <1>1 DEF At
<1>4. Leaves(file, s, b) /\ pos = b
  BY <1>1, <1>2, <1>3 DEF PInv, SoFar, PlainSoFar
<1>5. x \in Nodes /\ b \in Nat /\ e \in Nat /\ x.len \in Nat /\ b + x.len =< e
  BY <1>1, ExtentFacts
<1>6. e = b + n /\ n \in Nat
  BY <1>5, NodeFacts
<1>7. body \in Seq(Byte) /\ Len(body) = x.len /\ \A k \in 1 .. x.len : body[k] = ByteOf(x, k - 1)
  <2>1. x.len \in Int
    BY <1>5
  <2>2. body \in Seq(Byte)
    BY <1>5, <2>1, ByteFacts
  <2>3. Len(body) = x.len
    BY <1>5, <2>1, ByteFacts
  <2>4. \A k \in 1 .. x.len : body[k] = ByteOf(x, k - 1)
    BY <1>5, <2>1, ByteFacts
  <2> QED BY <2>2, <2>3, <2>4
<1>8. \A k \in 1 .. e - b : ByteAt(s.list, b + k) = IF k =< x.len THEN ByteOf(x, k - 1) ELSE Hole
  BY <1>1, ExtentImage
<1> HIDE DEF x, b, e, n, body
<1>9. \A k \in 1 .. Len(body) : ByteAt(s.list, b + k) = body[k]
  <2> SUFFICES ASSUME NEW k \in 1 .. Len(body) PROVE ByteAt(s.list, b + k) = body[k]
    OBVIOUS
  <2>1. k \in 1 .. x.len /\ k \in 1 .. e - b /\ k =< x.len
    BY <1>5, <1>7
  <2> QED BY <1>7, <1>8, <2>1
<1>10. Leaves(WriteAt(file, b, body), s, b + x.len)
  BY <1>4, <1>5, <1>7, <1>9, LeavesWritten
<1>11. \A k \in 1 .. e : b + x.len < k => ByteAt(s.list, k) = Hole
  <2> SUFFICES ASSUME NEW k \in 1 .. e, b + x.len < k PROVE ByteAt(s.list, k) = Hole
    OBVIOUS
  <2>1. k - b \in 1 .. e - b /\ ~(k - b =< x.len) /\ b + (k - b) = k
    BY <1>5
  <2> QED BY <1>8, <2>1
<1>12. Leaves(WriteAt(file, b, body), s, e)
  <2>1. b + x.len \in Nat
    BY <1>5
  <2> QED BY <1>5, <1>10, <1>11, <2>1, LeavesMore
<1>13. pos' = e /\ file' = WriteAt(file, b, body)
  BY <1>2, <1>4, <1>6
<1> QED BY <1>1, <1>3, <1>12, <1>13 DEF PlainSoFar

LEMMA EndPlain ==
  ASSUME WholeBlocks, PInv, SkipEnd, ~sparse, ret' = 0, faults' = <<>>
  PROVE  PlainSoFar'
<1> DEFINE l == last_block * BlockSize
           i == Len(s.list) + 1
<1>1. /\ pc' = "close" /\ pc = "gap" /\ bb = i /\ ret = 0
      /\ last_block = LastBlock(s.list, i)
      /\ l \in Nat /\ l =< s.len /\ s.len \in Nat /\ Pad = s.len - l
      /\ UNCHANGED <<s, sparse, crc, bb, last_block, crc32, ret>>
  BY PadFacts DEF PInv
<1>2. s \in Cookies /\ Len(s.list) \in Nat /\ i \in 1 .. i /\ ~(i =< Len(s.list)) /\ pos \in Nat
  BY CookieFacts DEF PInv, IInv, Walk, TypeOK
<1>3. At = l /\ At' = s.len
  BY <1>1 DEF At
<1>4. file' = file /\ pos' = pos + Pad /\ faults = <<>>
  <2>1. CASE Pad > 0
    <3>1. Skip(Pad)
      BY <2>1 DEF SkipEnd
    <3>2. Pad \in Nat
      BY <1>1
    <3> QED BY <1>1, <3>1, <3>2, SkipPlain
  <2>2. CASE ~(Pad > 0)
    <3>1. UNCHANGED <<file, pos, faults>>
      BY <2>2 DEF SkipEnd
    <3>2. Pad = 0
      BY <1>1, <2>2
    <3> QED BY <1>2, <3>1, <3>2
  <2> QED BY <2>1, <2>2
<1>5. Leaves(file, s, l) /\ pos = l
  BY <1>1, <1>3, <1>4 DEF PInv, SoFar, PlainSoFar
<1>6. \A k \in 1 .. s.len : l < k => ByteAt(s.list, k) = Hole
  <2> SUFFICES ASSUME NEW k \in 1 .. s.len, l < k PROVE ByteAt(s.list, k) = Hole
    OBVIOUS
  <2>1. k \in Nat
    OBVIOUS
  <2>2. LastBlock(s.list, i) * BlockSize < k
    BY <1>1
  <2> QED BY <1>2, <2>1, <2>2, GapBytes
<1>7. Leaves(file, s, s.len)
  BY <1>1, <1>5, <1>6, LeavesMore
<1>8. pos' = s.len
  <2> HIDE DEF l
  <2> QED BY <1>1, <1>2, <1>4, <1>5
<1> QED BY <1>1, <1>3, <1>4, <1>7, <1>8 DEF PlainSoFar

LEMMA ClosePlain ==
  ASSUME PInv, Close, ~sparse, ret' = 0, faults' = <<>>
  PROVE  PlainSoFar'
<1>1. /\ pc = "close" /\ pc' = "closed" /\ ret = 0
      /\ UNCHANGED <<s, sparse, crc, bb, last_block, crc32, ret>>
  BY DEF Close
<1>2. s \in Cookies /\ s.len \in Nat
  BY CookieFacts DEF PInv, IInv, Walk
<1>3. At = s.len /\ At' = s.len
  BY <1>1 DEF At
<1>4. PICK n \in 0 .. 1 : /\ Calls(n, 1) /\ pos' = pos
                          /\ file' = IF n = 1 THEN Truncate(file, s.len) ELSE file
  BY DEF Close
<1>5. n = 1 /\ faults = <<>>
  BY <1>1, <1>4, NoFault DEF PInv
<1>6. Leaves(file, s, s.len) /\ pos = s.len
  BY <1>1, <1>3, <1>5 DEF PInv, SoFar, PlainSoFar
<1>7. Leaves(Truncate(file, s.len), s, s.len) /\ Len(Truncate(file, s.len)) = s.len
  BY <1>2, <1>6, LeavesCut
<1> QED BY <1>1, <1>3, <1>4, <1>5, <1>6, <1>7 DEF PlainSoFar

-----------------------------------------------------------------------------
(* The invariant.                                                          *)

LEMMA SoFarStep ==
  ASSUME WholeBlocks, PInv, [Next]_vars
  PROVE  PInv'
<1>1. IInv'
  BY WalkStep DEF PInv
<1>2. pc' # "aborted"
  <2>1. pc # "aborted"
    BY DEF PInv, SoFar
  <2>2. CASE Open
    BY <2>2 DEF Open
  <2>3. CASE SkipGap
    BY <2>3 DEF SkipGap
  <2>4. CASE WriteExtent
    <3>1. pc' \in {"gap", "close"}
      BY <2>4 DEF WriteExtent
    <3> QED BY <3>1
  <2>5. CASE SkipEnd
    BY <2>5, PadFacts DEF PInv
  <2>6. CASE Close
    BY <2>6 DEF Close
  <2>7. CASE UNCHANGED vars
    BY <2>1, <2>7 DEF vars
  <2> QED BY <2>2, <2>3, <2>4, <2>5, <2>6, <2>7 DEF Next
<1>3. ASSUME pc' # "open", ret' = 0, faults' = <<>>
      PROVE  (sparse => SparseSoFar' /\ sparse') /\ (~sparse => PlainSoFar' /\ ~sparse')
  <2>1. CASE Open
    <3>1. sparse' = sparse
      BY <2>1 DEF Open
    <3> QED BY <1>3, <2>1, <3>1, OpenSparse, OpenPlain
  <2>2. CASE SkipGap
    <3>1. sparse' = sparse
      BY <2>2 DEF SkipGap
    <3> QED BY <1>3, <2>2, <3>1, GapSparse, GapPlain
  <2>3. CASE WriteExtent
    <3>1. sparse' = sparse
      BY <2>3 DEF WriteExtent
    <3> QED BY <1>3, <2>3, <3>1, ExtentSparse, ExtentPlain
  <2>4. CASE SkipEnd
    <3>1. sparse' = sparse
      BY <2>4 DEF SkipEnd
    <3> QED BY <1>3, <2>4, <3>1, EndSparse, EndPlain
  <2>5. CASE Close
    <3>1. sparse' = sparse
      BY <2>5 DEF Close
    <3> QED BY <1>3, <2>5, <3>1, CloseSparse, ClosePlain
  <2>6. CASE UNCHANGED vars
    <3>1. UNCHANGED <<s, sparse, crc, pc, bb, last_block, file, pos, crc32, ret, faults>>
      BY <2>6 DEF vars
    <3>2. IF sparse THEN SparseSoFar ELSE PlainSoFar
      BY <1>3, <3>1 DEF PInv, SoFar
    <3>3. At' = At /\ ChunksAt' = ChunksAt /\ Header' = Header
      BY <3>1 DEF At, ChunksAt, Header, CountChunks
    <3>4. sparse => SparseSoFar'
      BY <3>1, <3>2, <3>3 DEF SparseSoFar
    <3>5. ~sparse => PlainSoFar'
      BY <3>1, <3>2, <3>3 DEF PlainSoFar
    <3> QED BY <3>1, <3>4, <3>5
  <2> QED BY <2>1, <2>2, <2>3, <2>4, <2>5, <2>6 DEF Next
<1>4. SoFar'
  BY <1>2, <1>3 DEF SoFar
<1> QED BY <1>1, <1>4 DEF PInv

LEMMA SoFarInit ==
  ASSUME Init
  PROVE  PInv
<1>1. pc = "open"
  BY DEF Init
<1> QED BY <1>1, WalkInit DEF PInv, SoFar

\* What a successful write leaves, when nothing failed.
LEMMA SoFarEnd ==
  ASSUME PInv, Succeeded, faults = <<>>
  PROVE  /\ sparse => /\ Holds(file, Header, ChunksAt, Image(s)) /\ Expanded = Image(s)
                      /\ crc /\ Summed(file) => crc32 = Image(s)
         /\ ~sparse => Expanded = Image(s)
<1>1. /\ pc = "closed" /\ ret = 0 /\ IF sparse THEN SparseSoFar ELSE PlainSoFar
  BY DEF PInv, SoFar, Succeeded
<1>2. At = s.len /\ Prefix(s, At) = Image(s)
  BY <1>1 DEF At, Prefix, Image
<1>3. s \in Cookies /\ s.len \in Nat
  BY CookieFacts DEF PInv, IInv, Walk
<1>4. CASE sparse
  <2>1. Holds(file, Header, ChunksAt, Image(s)) /\ (crc /\ Summed(file) => crc32 = Image(s))
    BY <1>1, <1>2, <1>4 DEF SparseSoFar
  <2>2. Expanded = Image(s)
    BY <1>4, <2>1 DEF Holds, ExpandAll, Expanded
  <2> QED BY <1>4, <2>1, <2>2
<1>5. CASE ~sparse
  <2>1. Leaves(file, s, s.len) /\ Len(file) = s.len
    BY <1>1, <1>2, <1>5 DEF PlainSoFar
  <2>2. file \in Seq(Byte) /\ \A k \in 1 .. s.len : file[k] = ByteAt(s.list, k)
    BY <2>1 DEF Leaves
  <2>3. /\ Prefix(s, s.len) \in Seq(Byte) /\ Len(Prefix(s, s.len)) = s.len
        /\ \A k \in 1 .. s.len : Prefix(s, s.len)[k] = ByteAt(s.list, k)
    BY <1>3, PrefixFacts
  <2>4. file = Prefix(s, s.len)
    BY <2>1, <2>2, <2>3, SeqEqual
  <2>5. Expanded = file
    BY <1>5 DEF Expanded
  <2> QED BY <1>2, <1>5, <2>4, <2>5
<1> QED BY <1>4, <1>5

-----------------------------------------------------------------------------
(* The length that sparse_file_len reckons with.                           *)

\* Every cookie is as long as the image it is a part of, as those are that
\* resparse measures.
WholeImages == \A c \in Cookies : c.len = Blocks * BlockSize

Lens(c) == [i \in 1 .. Len(c.list) |-> StoredLen(c.list, i)]

\* What the first n extents take.
LenBefore(c, n) == Total(SubSeq(Lens(c), 1, n))

EndLen(c) == IF LastBlock(c.list, Len(c.list) + 1) * BlockSize < c.len THEN ChunkHeaderLen ELSE 0

\* What has been written of a sparse file, behind its header.
LenAt ==
  CASE pc = "gap"    -> LenBefore(s, bb - 1)
    [] pc = "extent" -> LenBefore(s, bb - 1) + IF Gap(s.list, bb) THEN ChunkHeaderLen ELSE 0
    [] pc = "close"  -> LenBefore(s, Len(s.list)) + EndLen(s)
    [] OTHER         -> LenBefore(s, Len(s.list)) + EndLen(s)
                          + IF crc THEN ChunkHeaderLen + WordLen ELSE 0

Sized ==
  sparse /\ pc # "open" /\ ret = 0 /\ faults = <<>> => SizeOf(file) = HeaderLen + LenAt

QInv == PInv /\ Sized

LEMMA LensFacts ==
  ASSUME NEW c \in Cookies
  PROVE  /\ Lens(c) \in Seq(Nat) /\ Len(Lens(c)) = Len(c.list)
         /\ \A i \in 1 .. Len(c.list) : Lens(c)[i] = StoredLen(c.list, i)
<1> DEFINE n == Len(c.list)
<1>1. n \in Nat /\ BlockSize \in Nat /\ ChunkHeaderLen \in Nat /\ WordLen \in Nat
  BY CookieFacts, SizesAssumption, FormatAssumption
<1>2. ASSUME NEW i \in 1 .. n PROVE StoredLen(c.list, i) \in Nat
  <2> DEFINE x == c.list[i]
             k == NBlocks(x)
  <2>1. k \in Nat
    BY CookieFacts, NodeFacts
  <2> HIDE DEF k
  <2>2. BlockSize * k \in Nat
    BY <1>1, <2>1
  <2>3. ChunkLen(x) \in Nat
    BY <1>1, <2>2 DEF ChunkLen, k
  <2> QED BY <1>1, <2>3 DEF StoredLen
<1>3. Lens(c) \in [1 .. n -> Nat] /\ \A i \in 1 .. n : Lens(c)[i] = StoredLen(c.list, i)
  BY <1>2 DEF Lens
<1> HIDE DEF n
<1> QED BY <1>1, <1>3, SeqDef, LenProperties DEF n

LEMMA LenBeforeFacts ==
  ASSUME NEW c \in Cookies
  PROVE  /\ LenBefore(c, 0) = 0
         /\ \A n \in 1 .. Len(c.list) :
              /\ LenBefore(c, n) = LenBefore(c, n - 1) + StoredLen(c.list, n)
              /\ LenBefore(c, n) \in Nat /\ LenBefore(c, n - 1) \in Nat
         /\ LenBefore(c, Len(c.list)) \in Nat
         /\ LenBefore(c, Len(c.list)) = ChunksLen(c.list)
<1> DEFINE h == Lens(c)
           m == Len(c.list)
<1>1. m \in Nat /\ h \in Seq(Nat) /\ Len(h) = m /\ \A i \in 1 .. m : h[i] = StoredLen(c.list, i)
  BY CookieFacts, LensFacts
<1>2. Total(h) = ChunksLen(c.list)
  BY DEF Lens, ChunksLen
<1> HIDE DEF h, m
<1>3. LenBefore(c, 0) = 0
  <2>1. 0 \in 0 .. Len(h)
    BY <1>1
  <2>2. Len(SubSeq(h, 1, 0)) = 0
    BY <1>1, <2>1, FirstParts
  <2> QED BY <2>2, TotalEmpty DEF LenBefore, h
<1>4. ASSUME NEW n \in 1 .. m
      PROVE  /\ LenBefore(c, n) = LenBefore(c, n - 1) + StoredLen(c.list, n)
             /\ LenBefore(c, n) \in Nat /\ LenBefore(c, n - 1) \in Nat
  <2> DEFINE a == SubSeq(h, 1, n - 1)
             b == SubSeq(h, 1, n)
  <2>1. n \in Nat /\ n \in 0 .. Len(h) /\ n - 1 \in 0 .. Len(h) /\ n - 1 \in Nat
    BY <1>1
  <2>2. a \in Seq(Nat) /\ Len(a) = n - 1 /\ \A i \in 1 .. n - 1 : a[i] = h[i]
    BY <1>1, <2>1, FirstParts
  <2>3. b \in Seq(Nat) /\ Len(b) = n /\ \A i \in 1 .. n : b[i] = h[i]
    BY <1>1, <2>1, FirstParts
  <2> HIDE DEF a, b
  <2>4. Len(b) = Len(a) + 1 /\ (\A i \in 1 .. Len(a) : b[i] = a[i]) /\ b[Len(b)] = h[n]
    <3>1. Len(b) = Len(a) + 1
      BY <2>1, <2>2, <2>3
    <3>2. \A i \in 1 .. n - 1 : i \in 1 .. n
      BY <2>1
    <3>3. \A i \in 1 .. Len(a) : b[i] = a[i]
      BY <2>2, <2>3, <3>2
    <3>4. n \in 1 .. n
      BY <2>1
    <3> QED BY <2>3, <3>1, <3>3, <3>4
  <2>5. Total(b) = Total(a) + b[Len(b)] /\ Total(a) \in Nat /\ Total(b) \in Nat
    BY <2>2, <2>3, <2>4, TotalNext
  <2>6. LenBefore(c, n) = Total(b) /\ LenBefore(c, n - 1) = Total(a)
    BY DEF LenBefore, a, b, h
  <2> QED BY <1>1, <2>4, <2>5, <2>6
<1>5. SubSeq(h, 1, m) = h
  <2>1. m \in 0 .. Len(h)
    BY <1>1
  <2> QED BY <1>1, <2>1, FirstParts
<1>6. LenBefore(c, m) = Total(h)
  BY <1>5 DEF LenBefore, h
<1>7. LenBefore(c, m) \in Nat
  <2>1. CASE m = 0
    BY <1>3, <2>1
  <2>2. CASE m # 0
    <3>1. m \in 1 .. m
      BY <1>1, <2>2
    <3> QED BY <1>4, <3>1
  <2> QED BY <2>1, <2>2
<1> QED BY <1>2, <1>3, <1>4, <1>6, <1>7 DEF m

LEMMA SizeOfHeader ==
  ASSUME NEW h
  PROVE  SizeOf(<<h>>) = HeaderLen
<1> DEFINE k == [i \in 1 .. Len(<<h>>) |->
                   IF i = 1 THEN HeaderLen ELSE ChunkHeaderLen + Len(<<h>>[i].body)]
           e == <<>>
<1>1. HeaderLen \in Nat
  BY FormatAssumption
<1>2. k = <<HeaderLen>>
  OBVIOUS
<1>3. e \in Seq(Nat) /\ Len(e) = 0 /\ <<HeaderLen>> \in Seq(Nat) /\ Len(<<HeaderLen>>) = Len(e) + 1
      /\ \A i \in 1 .. Len(e) : <<HeaderLen>>[i] = e[i]
  BY <1>1
<1>4. Total(<<HeaderLen>>) = Total(e) + <<HeaderLen>>[Len(<<HeaderLen>>)]
  BY <1>3, TotalNext
<1>5. Total(e) = 0
  BY <1>3, TotalEmpty
<1>6. SizeOf(<<h>>) = Total(k)
  BY DEF SizeOf
<1> QED BY <1>1, <1>2, <1>4, <1>5, <1>6

\* A chunk more.
LEMMA SizeOfMore ==
  ASSUME NEW f, NEW h, NEW n \in Nat, NEW image, NEW r \in Chunks, Holds(f, h, n, image)
  PROVE  SizeOf(Append(f, r)) = SizeOf(f) + (ChunkHeaderLen + Len(r.body)) /\ SizeOf(f) \in Nat
<1> DEFINE R == {h} \cup Chunks
           g == Append(f, r)
           k == [i \in 1 .. Len(f) |-> IF i = 1 THEN HeaderLen ELSE ChunkHeaderLen + Len(f[i].body)]
           l == [i \in 1 .. Len(g) |-> IF i = 1 THEN HeaderLen ELSE ChunkHeaderLen + Len(g[i].body)]
<1>1. f \in Seq(R) /\ Len(f) = n + 1 /\ (\A i \in 2 .. n + 1 : f[i] \in Chunks) /\ r \in R
  BY DEF Holds
<1>2. Len(g) = n + 2 /\ g[n + 2] = r /\ \A i \in 1 .. n + 1 : g[i] = f[i]
  <2> HIDE DEF R
  <2>1. Len(g) = Len(f) + 1 /\ g[Len(f) + 1] = r /\ \A i \in 1 .. Len(f) : g[i] = f[i]
    BY <1>1, AppendProperties
  <2>2. Len(f) + 1 = n + 2
    BY <1>1
  <2> HIDE DEF g
  <2> QED BY <1>1, <2>1, <2>2
<1>3. \A q \in Chunks : Len(q.body) \in Nat
  BY LenProperties DEF Chunks
<1>4. SizeOf(f) = Total(k) /\ SizeOf(g) = Total(l)
  BY DEF SizeOf
<1>5. HeaderLen \in Nat /\ ChunkHeaderLen \in Nat
  BY FormatAssumption
<1> HIDE DEF g
<1>6. \A i \in 1 .. n + 1 : k[i] \in Nat
  <2> SUFFICES ASSUME NEW i \in 1 .. n + 1 PROVE k[i] \in Nat
    OBVIOUS
  <2>1. k[i] = IF i = 1 THEN HeaderLen ELSE ChunkHeaderLen + Len(f[i].body)
    BY <1>1
  <2>2. i # 1 => i \in 2 .. n + 1
    OBVIOUS
  <2>3. i # 1 => Len(f[i].body) \in Nat
    BY <1>1, <1>3, <2>2
  <2> QED BY <1>5, <2>1, <2>3
<1>7. \A i \in 1 .. n + 1 : l[i] = k[i]
  <2> SUFFICES ASSUME NEW i \in 1 .. n + 1 PROVE l[i] = k[i]
    OBVIOUS
  <2>1. i \in 1 .. n + 2 /\ g[i] = f[i]
    BY <1>2
  <2> QED BY <1>1, <1>2, <2>1
<1>8. l[n + 2] = ChunkHeaderLen + Len(r.body)
  <2>1. n + 2 \in 1 .. n + 2 /\ n + 2 # 1
    OBVIOUS
  <2> QED BY <1>2, <2>1
<1>9. Len(r.body) \in Nat /\ l[n + 2] \in Nat
  BY <1>3, <1>5, <1>8
<1>10. k \in Seq(Nat) /\ Len(k) = n + 1
  <2>1. k \in [1 .. n + 1 -> Nat]
    BY <1>1, <1>6
  <2> HIDE DEF k
  <2> QED BY <2>1, SeqDef, LenProperties
<1>11. l \in Seq(Nat) /\ Len(l) = n + 2
  <2>1. \A i \in 1 .. n + 2 : l[i] \in Nat
    <3>1. \A i \in 1 .. n + 2 : i = n + 2 \/ i \in 1 .. n + 1
      OBVIOUS
    <3> HIDE DEF k, l
    <3> QED BY <1>6, <1>7, <1>9, <3>1
  <2>2. l \in [1 .. n + 2 -> Nat]
    BY <1>2, <2>1
  <2> HIDE DEF l
  <2> QED BY <2>2, SeqDef, LenProperties
<1> HIDE DEF k, l
<1>12. Len(l) = Len(k) + 1 /\ \A i \in 1 .. Len(k) : l[i] = k[i]
  BY <1>7, <1>10, <1>11
<1>13. Total(l) = Total(k) + l[Len(l)] /\ Total(k) \in Nat
  BY <1>10, <1>11, <1>12, TotalNext
<1> QED BY <1>4, <1>8, <1>11, <1>13 DEF g

LEMMA ChunksAtNat ==
  ASSUME WholeBlocks, PInv, pc \in {"gap", "extent", "close"}
  PROVE  ChunksAt \in Nat
<1>1. s \in Cookies /\ bb \in 1 .. Len(s.list) + 1 /\ (pc = "extent" => bb =< Len(s.list))
  BY DEF PInv, IInv, Walk, TypeOK
<1>2. Len(s.list) \in Nat /\ bb - 1 \in Nat
  BY <1>1, CookieFacts
<1>3. ChunksBefore(s, Len(s.list), Len(s.list)) \in Nat /\ CountChunks \in Nat
  BY <1>1, CountedAll
<1>4. CASE bb \in 1 .. Len(s.list)
  <2>1. ChunksBefore(s, bb - 1, bb - 1) \in Nat /\ ChunksBefore(s, bb - 1, bb) \in Nat
    BY <1>1, <1>2, <1>4, CountFacts
  <2> QED BY <1>3, <2>1 DEF ChunksAt
<1>5. CASE bb \notin 1 .. Len(s.list)
  <2>1. bb - 1 = Len(s.list) /\ pc # "extent"
    BY <1>1, <1>2, <1>5
  <2> QED BY <1>3, <2>1 DEF ChunksAt
<1> QED BY <1>4, <1>5

\* A step that writes no chunk, and one that does.
LEMMA SizedSame ==
  ASSUME QInv, sparse, pc # "open", ret = 0, faults = <<>>, file' = file, LenAt' = LenAt
  PROVE  SizeOf(file') = HeaderLen + LenAt'
BY DEF QInv, Sized

LEMMA SizedMore ==
  ASSUME WholeBlocks, QInv, sparse, pc \in {"gap", "extent", "close"}, ret = 0, faults = <<>>,
         NEW r \in Chunks, file' = Append(file, r),
         LenAt \in Nat, LenAt' = LenAt + (ChunkHeaderLen + Len(r.body))
  PROVE  SizeOf(file') = HeaderLen + LenAt'
<1>1. SizeOf(file) = HeaderLen + LenAt
  BY DEF QInv, Sized
<1>2. Holds(file, Header, ChunksAt, Prefix(s, At)) /\ ChunksAt \in Nat
  <2>1. Holds(file, Header, ChunksAt, Prefix(s, At))
    BY DEF QInv, PInv, SoFar, SparseSoFar
  <2> QED BY <2>1, ChunksAtNat DEF QInv
<1>3. SizeOf(Append(file, r)) = SizeOf(file) + (ChunkHeaderLen + Len(r.body))
  BY <1>2, SizeOfMore
<1>4. HeaderLen \in Nat /\ ChunkHeaderLen + Len(r.body) \in Nat
  BY FormatAssumption, LenProperties DEF Chunks
<1> DEFINE d == ChunkHeaderLen + Len(r.body)
<1> HIDE DEF d
<1>5. SizeOf(file') = HeaderLen + LenAt + d /\ LenAt' = LenAt + d /\ d \in Nat
  BY <1>1, <1>3, <1>4 DEF d
<1> QED BY <1>4, <1>5

LEMMA OpenSized ==
  ASSUME PInv, Open, sparse, ret' = 0
  PROVE  SizeOf(file') = HeaderLen + LenAt'
<1>1. s \in Cookies /\ bb = 1 /\ UNCHANGED <<s, bb>>
  BY DEF PInv, IInv, Walk, Open
<1>2. pc' = "gap" /\ file' = <<Header>>
  <2>1. PICK n \in 0 .. 1 :
          /\ file' = IF sparse /\ n = 1 THEN <<Header>> ELSE file
          /\ ret' = IF n = 1 THEN 0 ELSE -1
          /\ pc' = IF n = 1 THEN "gap" ELSE "closed"
    BY DEF Open, Header
  <2> QED BY <2>1
<1>3. LenAt' = LenBefore(s, bb - 1)'
  BY <1>2 DEF LenAt
<1>4. LenBefore(s, bb - 1)' = LenBefore(s, 0)
  BY <1>1
<1>5. LenBefore(s, 0) = 0
  BY <1>1, LenBeforeFacts
<1>6. SizeOf(<<Header>>) = HeaderLen /\ HeaderLen \in Nat
  BY SizeOfHeader, FormatAssumption
<1> QED BY <1>2, <1>3, <1>4, <1>5, <1>6

LEMMA GapSized ==
  ASSUME WholeBlocks, QInv, SkipGap, sparse, ret' = 0, faults' = <<>>
  PROVE  SizeOf(file') = HeaderLen + LenAt'
<1> DEFINE i == bb
           l == last_block
           b == s.list[i].block
<1>1. /\ s \in Cookies /\ pc = "gap" /\ i =< Len(s.list) /\ pc' = "extent" /\ ret = 0
      /\ l = LastBlock(s.list, i) /\ i \in 1 .. Len(s.list) + 1 /\ l \in Nat
      /\ UNCHANGED <<s, bb>>
  BY DEF QInv, PInv, IInv, Walk, TypeOK, SkipGap
<1>2. i \in 1 .. Len(s.list) /\ Len(s.list) \in Nat
  BY <1>1, CookieFacts
<1>3. b \in Nat
  BY <1>1, <1>2, CookieFacts, NodeFacts
<1>4. LenAt = LenBefore(s, i - 1) /\ LenAt' = LenAt + IF Gap(s.list, i) THEN ChunkHeaderLen ELSE 0
  BY <1>1 DEF LenAt
<1>5. LenAt \in Nat
  BY <1>1, <1>2, <1>4, LenBeforeFacts
<1>6. CASE b > l
  <2> DEFINE r == Whole("dont_care", b - l, <<>>)
  <2>1. Skip(GapBlocks * BlockSize) /\ GapBlocks = b - l /\ b - l \in Nat
    BY <1>1, <1>3, <1>6 DEF SkipGap, GapBlocks
  <2>2. file' = Append(file, r) /\ faults = <<>>
    BY <1>1, <2>1, SkipSparse DEF QInv
  <2>3. r \in Chunks /\ r.body = <<>>
    BY <2>1, HoleFacts
  <2> HIDE DEF r
  <2>4. Gap(s.list, i)
    BY <1>1, <1>6 DEF Gap
  <2>5. LenAt' = LenAt + (ChunkHeaderLen + Len(r.body))
    <3>1. Len(r.body) = 0 /\ ChunkHeaderLen \in Nat
      BY <2>3, FormatAssumption
    <3> QED BY <1>4, <1>5, <2>4, <3>1
  <2> QED BY <1>1, <1>5, <2>2, <2>3, <2>5, SizedMore
<1>7. CASE ~(b > l)
  <2>1. UNCHANGED <<file, faults>>
    BY <1>7 DEF SkipGap
  <2>2. ~Gap(s.list, i)
    BY <1>1, <1>7 DEF Gap
  <2>3. LenAt' = LenAt
    BY <1>4, <1>5, <2>2
  <2> QED BY <1>1, <2>1, <2>3, SizedSame
<1> QED BY <1>6, <1>7

LEMMA ExtentSized ==
  ASSUME WholeBlocks, QInv, WriteExtent, sparse, ret' = 0, faults' = <<>>
  PROVE  SizeOf(file') = HeaderLen + LenAt'
<1> DEFINE x == s.list[bb]
<1>1. /\ s \in Cookies /\ pc = "extent" /\ pc' = "gap" /\ bb \in 1 .. Len(s.list) /\ ret = 0
      /\ bb' = bb + 1 /\ s' = s /\ WriteSparse(x)
  <2>1. s \in Cookies /\ pc = "extent" /\ bb \in 1 .. Len(s.list) + 1 /\ bb =< Len(s.list) /\ ret = 0
    BY DEF QInv, PInv, IInv, Walk, TypeOK, WriteExtent
  <2>2. Len(s.list) \in Nat
    BY <2>1, CookieFacts
  <2> QED BY <2>1, <2>2 DEF WriteExtent
<1>2. PICK r \in Chunks :
        file' = Append(file, r) /\ faults = <<>> /\ ChunkHeaderLen + Len(r.body) = ChunkLen(x)
  BY <1>1, ExtentChunk DEF QInv
<1>3. LenAt = LenBefore(s, bb - 1) + IF Gap(s.list, bb) THEN ChunkHeaderLen ELSE 0
  BY <1>1 DEF LenAt
<1>4. LenAt' = LenBefore(s, bb)
  <2>1. (bb + 1) - 1 = bb
    BY <1>1
  <2> QED BY <1>1, <2>1 DEF LenAt
<1>5. LenBefore(s, bb) = LenBefore(s, bb - 1) + StoredLen(s.list, bb) /\ LenBefore(s, bb - 1) \in Nat
  BY <1>1, LenBeforeFacts
<1>6. StoredLen(s.list, bb) = ChunkLen(x) + IF Gap(s.list, bb) THEN ChunkHeaderLen ELSE 0
  BY DEF StoredLen
<1>7. Len(r.body) \in Nat /\ ChunkHeaderLen \in Nat
  BY FormatAssumption, LenProperties DEF Chunks
<1> HIDE DEF x
<1> DEFINE g == IF Gap(s.list, bb) THEN ChunkHeaderLen ELSE 0
           d == ChunkHeaderLen + Len(r.body)
           n == LenBefore(s, bb - 1)
<1>8. g \in Nat /\ d \in Nat /\ n \in Nat /\ LenAt = n + g /\ LenAt' = n + (d + g)
  <2>1. g \in Nat
    BY <1>7
  <2>2. d \in Nat
    BY <1>7
  <2>3. n \in Nat
    BY <1>5
  <2>4. LenAt = n + g
    BY <1>3
  <2>5. StoredLen(s.list, bb) = d + g
    BY <1>2, <1>6
  <2>6. LenAt' = n + (d + g)
    <3> HIDE DEF g, d, n
    <3>1. LenAt' = n + StoredLen(s.list, bb)
      BY <1>4, <1>5 DEF n
    <3> QED BY <2>5, <3>1
  <2> HIDE DEF g, d, n
  <2> QED BY <2>1, <2>2, <2>3, <2>4, <2>6
<1> HIDE DEF g, d, n
<1>9. LenAt \in Nat /\ LenAt' = LenAt + d
  BY <1>8
<1> QED BY <1>1, <1>2, <1>9, SizedMore DEF d

LEMMA EndSized ==
  ASSUME WholeBlocks, QInv, SkipEnd, sparse, ret' = 0, faults' = <<>>
  PROVE  SizeOf(file') = HeaderLen + LenAt'
<1> DEFINE l == last_block * BlockSize
           i == Len(s.list) + 1
<1>1. /\ pc' = "close" /\ pc = "gap" /\ bb = i /\ ret = 0
      /\ last_block = LastBlock(s.list, i)
      /\ l \in Nat /\ l =< s.len /\ s.len \in Nat /\ Pad = s.len - l
      /\ s' = s
  BY PadFacts DEF QInv, PInv
<1>2. s \in Cookies /\ Len(s.list) \in Nat /\ i - 1 = Len(s.list) /\ ~(bb =< Len(s.list))
  <2>1. s \in Cookies
    BY DEF QInv, PInv, IInv, Walk
  <2>2. Len(s.list) \in Nat
    BY <2>1, CookieFacts
  <2> QED BY <1>1, <2>1, <2>2
<1>3. LenAt = LenBefore(s, Len(s.list)) /\ LenAt \in Nat
  <2>1. LenAt = LenBefore(s, bb - 1)
    BY <1>1 DEF LenAt
  <2> QED BY <1>1, <1>2, <2>1, LenBeforeFacts
<1>4. LenAt' = LenAt + IF l < s.len THEN ChunkHeaderLen ELSE 0
  <2>1. LenAt' = LenBefore(s, Len(s.list)) + EndLen(s)
    BY <1>1 DEF LenAt
  <2>2. EndLen(s) = IF l < s.len THEN ChunkHeaderLen ELSE 0
    BY <1>1 DEF EndLen
  <2> QED BY <1>3, <2>1, <2>2
<1>5. CASE l < s.len
  <2>1. PICK n \in Nat : Pad = n * BlockSize
    BY PadFacts DEF QInv, PInv
  <2> DEFINE r == Whole("dont_care", n, <<>>)
  <2>2. Skip(n * BlockSize)
    <3>1. Pad > 0
      BY <1>1, <1>5
    <3> QED BY <2>1, <3>1 DEF SkipEnd
  <2>3. file' = Append(file, r) /\ faults = <<>>
    BY <1>1, <2>2, SkipSparse DEF QInv
  <2>4. r \in Chunks /\ r.body = <<>>
    BY HoleFacts
  <2> HIDE DEF r, l
  <2>5. LenAt' = LenAt + (ChunkHeaderLen + Len(r.body))
    <3>1. Len(r.body) = 0 /\ ChunkHeaderLen \in Nat
      BY <2>4, FormatAssumption
    <3> QED BY <1>3, <1>4, <1>5, <3>1
  <2> QED BY <1>1, <1>3, <2>3, <2>4, <2>5, SizedMore
<1>6. CASE ~(l < s.len)
  <2>1. UNCHANGED <<file, faults>>
    <3>1. ~(Pad > 0)
      BY <1>1, <1>6
    <3> QED BY <3>1 DEF SkipEnd
  <2>2. LenAt' = LenAt
    BY <1>3, <1>4, <1>6
  <2> QED BY <1>1, <2>1, <2>2, SizedSame
<1> QED BY <1>5, <1>6

LEMMA CloseSized ==
  ASSUME WholeBlocks, QInv, Close, sparse, ret' = 0, faults' = <<>>
  PROVE  SizeOf(file') = HeaderLen + LenAt'
<1>1. pc = "close" /\ pc' = "closed" /\ ret = 0 /\ UNCHANGED <<s, crc>>
  BY DEF Close
<1>2. s \in Cookies /\ crc \in BOOLEAN
  BY DEF QInv, PInv, IInv, Walk, TypeOK
<1>3. ChunkHeaderLen \in Nat /\ WordLen \in Nat
  BY FormatAssumption
<1>4. LenAt \in Nat /\ LenAt' = LenAt + IF crc THEN ChunkHeaderLen + WordLen ELSE 0
  <2> DEFINE n == LenBefore(s, Len(s.list))
             e == EndLen(s)
  <2>1. LenAt = n + e /\ LenAt' = n + e + IF crc THEN ChunkHeaderLen + WordLen ELSE 0
    BY <1>1 DEF LenAt
  <2>2. n \in Nat
    BY <1>2, LenBeforeFacts
  <2>3. e \in Nat
    BY <1>3 DEF EndLen
  <2> HIDE DEF n, e
  <2> QED BY <1>3, <2>1, <2>2, <2>3
<1>5. CASE crc
  <2>1. PICK w \in Seq(Byte) :
          Len(w) = WordLen /\ file' = Append(file, Whole("crc32", 0, w)) /\ faults = <<>>
    BY <1>5, CloseChunk DEF QInv
  <2> DEFINE r == Whole("crc32", 0, w)
  <2>2. r \in Chunks /\ r.body = w
    BY WholeFacts
  <2>3. file' = Append(file, r)
    BY <2>1
  <2> HIDE DEF r
  <2>4. LenAt' = LenAt + (ChunkHeaderLen + Len(r.body))
    BY <1>4, <1>5, <2>1, <2>2
  <2> QED BY <1>1, <1>4, <2>1, <2>2, <2>3, <2>4, SizedMore
<1>6. CASE ~crc
  <2>1. UNCHANGED <<file, faults>>
    BY <1>6 DEF Close
  <2>2. LenAt' = LenAt
    BY <1>4, <1>6
  <2> QED BY <1>1, <2>1, <2>2, SizedSame
<1> QED BY <1>2, <1>5, <1>6

LEMMA SizedStep ==
  ASSUME WholeBlocks, QInv, [Next]_vars
  PROVE  QInv'
<1>1. PInv'
  BY SoFarStep DEF QInv
<1>2. ASSUME sparse', pc' # "open", ret' = 0, faults' = <<>>
      PROVE  SizeOf(file') = HeaderLen + LenAt'
  <2>1. sparse
    BY <1>2 DEF Next, vars, Open, SkipGap, WriteExtent, SkipEnd, Close
  <2>2. CASE Open
    BY <1>2, <2>1, <2>2, OpenSized DEF QInv
  <2>3. CASE SkipGap
    BY <1>2, <2>1, <2>3, GapSized
  <2>4. CASE WriteExtent
    BY <1>2, <2>1, <2>4, ExtentSized
  <2>5. CASE SkipEnd
    BY <1>2, <2>1, <2>5, EndSized
  <2>6. CASE Close
    BY <1>2, <2>1, <2>6, CloseSized
  <2>7. CASE UNCHANGED vars
    <3>1. UNCHANGED <<s, sparse, crc, pc, bb, ret, faults, file>>
      BY <2>7 DEF vars
    <3>2. LenAt' = LenAt
      BY <3>1 DEF LenAt
    <3> QED BY <1>2, <2>1, <3>1, <3>2, SizedSame
  <2> QED BY <2>2, <2>3, <2>4, <2>5, <2>6, <2>7 DEF Next
<1>3. Sized'
  BY <1>2 DEF Sized
<1> QED BY <1>1, <1>3 DEF QInv

LEMMA SizedInit ==
  ASSUME Init
  PROVE  QInv
<1>1. pc = "open"
  BY DEF Init
<1> QED BY <1>1, SoFarInit DEF QInv, Sized

-----------------------------------------------------------------------------
(* The theorems.                                                           *)

\* If nothing failed while the file was opened and its extents were written, or
\* what failed was reported, the file stands for the image of the cookie.
THEOREM ImageWritten == WholeBlocks => (Spec => []Faithful)
<1> SUFFICES ASSUME WholeBlocks PROVE Spec => []Faithful
  OBVIOUS
<1>1. Init => PInv
  BY SoFarInit
<1>2. PInv /\ [Next]_vars => PInv'
  BY SoFarStep
<1>3. PInv => Faithful
  <2> SUFFICES ASSUME PInv, Succeeded, ToSet(faults) \subseteq {"open", "extent"}
               PROVE  Expanded = Image(s)
    BY DEF Faithful
  <2>1. ToSet(faults) = {} /\ faults \in Seq({"open", "gap", "extent", "close"})
    BY DEF PInv, IInv, Walk, Succeeded
  <2>2. faults = <<>>
    <3>1. ASSUME faults # <<>> PROVE FALSE
      <4>1. 1 \in 1 .. Len(faults) /\ DOMAIN faults = 1 .. Len(faults)
        BY <2>1, <3>1, EmptySeq, LenProperties
      <4>2. faults[1] \in ToSet(faults)
        BY <4>1 DEF ToSet
      <4> QED BY <2>1, <4>2
    <3> QED BY <3>1
  <2> QED BY <2>2, SoFarEnd
<1> QED BY <1>1, <1>2, <1>3, PTL DEF Spec

\* What the header says of the chunks is what is written behind it.
THEOREM HeaderTrue == WholeBlocks => (Spec => []WellFormed)
<1> SUFFICES ASSUME WholeBlocks PROVE Spec => []WellFormed
  OBVIOUS
<1>1. Init => PInv
  BY SoFarInit
<1>2. PInv /\ [Next]_vars => PInv'
  BY SoFarStep
<1>3. PInv => WellFormed
  <2> SUFFICES ASSUME PInv, Succeeded, sparse, faults = <<>>
               PROVE  /\ file[1].total_chunks = Len(file) - 1
                      /\ file[1].total_blks * BlockSize = Len(Expanded)
                      /\ \A i \in 2 .. Len(file) : file[i].total_sz = ChunkHeaderLen + Len(file[i].body)
    BY DEF WellFormed
  <2>1. Holds(file, Header, ChunksAt, Image(s)) /\ Expanded = Image(s)
    BY SoFarEnd
  <2>2. s \in Cookies /\ s.len \in Nat /\ pc = "closed" /\ crc \in BOOLEAN
    BY CookieFacts DEF PInv, IInv, Walk, TypeOK, Succeeded
  <2>3. CountChunks \in Nat
    BY <2>2, CountedAll
  <2>4. ChunksAt = CountChunks + IF crc THEN 1 ELSE 0
    BY <2>2 DEF ChunksAt
  <2>5. ChunksAt \in Nat
    BY <2>2, <2>3, <2>4
  <2>6. file[1] = Header /\ Len(file) = ChunksAt + 1 /\ \A i \in 2 .. ChunksAt + 1 : file[i] \in Chunks
    BY <2>1 DEF Holds
  <2>7. file[1].total_chunks = ChunksAt /\ file[1].total_blks = s.len \div BlockSize
    BY <2>4, <2>6 DEF Header
  <2>8. (s.len \div BlockSize) * BlockSize = s.len
    <3>1. s.len % BlockSize = 0 /\ BlockSize \in Nat \ {0}
      BY <2>2, SizesAssumption DEF WholeBlocks
    <3> DEFINE q == s.len \div BlockSize
    <3>2. q \in Nat /\ s.len = BlockSize * q
      BY <2>2, <3>1, DivExact
    <3> HIDE DEF q
    <3>3. q * BlockSize = s.len
      BY <3>1, <3>2
    <3> QED BY <3>3 DEF q
  <2>9. Len(Expanded) = s.len
    <3>1. Image(s) = Prefix(s, s.len)
      BY DEF Image, Prefix
    <3> QED BY <2>1, <2>2, <3>1, PrefixFacts
  <2>10. Len(file) - 1 = ChunksAt
    BY <2>5, <2>6
  <2>11. \A r \in Chunks : r.total_sz = ChunkHeaderLen + Len(r.body)
    BY DEF Chunks
  <2> QED BY <2>6, <2>7, <2>8, <2>9, <2>10, <2>11
<1> QED BY <1>1, <1>2, <1>3, PTL DEF Spec

\* The assertion on the rest of the image is never violated.
THEOREM NeverAborts == WholeBlocks => (Spec => []NoAbort)
<1> SUFFICES ASSUME WholeBlocks PROVE Spec => []NoAbort
  OBVIOUS
<1>1. Init => PInv
  BY SoFarInit
<1>2. PInv /\ [Next]_vars => PInv'
  BY SoFarStep
<1>3. PInv => NoAbort
  BY DEF PInv, SoFar, NoAbort
<1> QED BY <1>1, <1>2, <1>3, PTL DEF Spec

\* The checksum of a file without gaps and long fills is that of its data.
THEOREM DataSummed == WholeBlocks => (Spec => []CrcOfData)
<1> SUFFICES ASSUME WholeBlocks PROVE Spec => []CrcOfData
  OBVIOUS
<1>1. Init => PInv
  BY SoFarInit
<1>2. PInv /\ [Next]_vars => PInv'
  BY SoFarStep
<1>3. PInv => CrcOfData
  <2> SUFFICES ASSUME PInv, Succeeded, sparse, crc, faults = <<>>, Summed(file)
               PROVE  crc32 = Expanded
    BY DEF CrcOfData, Summed
  <2> QED BY SoFarEnd
<1> QED BY <1>1, <1>2, <1>3, PTL DEF Spec

\* The length that sparse_file_len computes, which resparse cuts files by, is the
\* length of the file that is written.
THEOREM LengthTrue == WholeBlocks /\ WholeImages => (Spec => []LenAgrees)
<1> SUFFICES ASSUME WholeBlocks, WholeImages PROVE Spec => []LenAgrees
  OBVIOUS
<1>1. Init => QInv
  BY SizedInit
<1>2. QInv /\ [Next]_vars => QInv'
  BY SizedStep
<1>3. QInv => LenAgrees
  <2> SUFFICES ASSUME QInv, Succeeded, sparse, faults = <<>>
               PROVE  SizeOf(file) = FileLen(s.list, crc)
    BY DEF LenAgrees
  <2> DEFINE n == LenBefore(s, Len(s.list))
             e == EndLen(s)
             c == IF crc THEN ChunkHeaderLen + WordLen ELSE 0
  <2>1. pc = "closed" /\ ret = 0 /\ s \in Cookies /\ crc \in BOOLEAN
    BY DEF Succeeded, QInv, PInv, IInv, Walk, TypeOK
  <2>2. SizeOf(file) = HeaderLen + LenAt
    BY <2>1 DEF QInv, Sized
  <2>3. LenAt = n + e + c
    BY <2>1 DEF LenAt
  <2>4. n \in Nat /\ n = ChunksLen(s.list)
    BY <2>1, LenBeforeFacts
  <2>5. HeaderLen \in Nat /\ ChunkHeaderLen \in Nat /\ WordLen \in Nat
    BY FormatAssumption
  <2>6. e = IF EndGap(s.list) THEN ChunkHeaderLen ELSE 0
    <3> DEFINE l == LastBlock(s.list, Len(s.list) + 1)
    <3>1. l \in Nat
      <4>1. Len(s.list) + 1 \in 1 .. Len(s.list) + 1
        BY <2>1, CookieFacts
      <4> QED BY <2>1, <4>1, LastFacts
    <3>2. Blocks \in Nat /\ BlockSize \in Nat \ {0} /\ s.len = Blocks * BlockSize
      BY <2>1, SizesAssumption DEF WholeImages
    <3>3. e = IF l * BlockSize < s.len THEN ChunkHeaderLen ELSE 0
      BY DEF EndLen
    <3>4. EndGap(s.list) <=> l < Blocks
      BY DEF EndGap
    <3> HIDE DEF l
    <3>5. l * BlockSize < Blocks * BlockSize <=> l < Blocks
      <4>1. l * BlockSize = BlockSize * l /\ Blocks * BlockSize = BlockSize * Blocks
        BY <3>1, <3>2
      <4>2. BlockSize * l < BlockSize * Blocks => l < Blocks
        BY <3>1, <3>2, MulLess
      <4>3. BlockSize * (l + 1) = BlockSize * l + BlockSize /\ BlockSize * l \in Nat
        BY <3>1, <3>2
      <4>4. l + 1 =< Blocks => BlockSize * (l + 1) =< BlockSize * Blocks
        BY <3>1, <3>2, MulLess
      <4>5. BlockSize * Blocks \in Nat
        BY <3>2
      <4> QED BY <3>1, <3>2, <4>1, <4>2, <4>3, <4>4, <4>5
    <3> QED BY <3>2, <3>3, <3>4, <3>5
  <2>7. FileLen(s.list, crc) = HeaderLen + n + e + c
    BY <2>4, <2>6 DEF FileLen
  <2>8. e \in Nat /\ c \in Nat
    BY <2>5 DEF EndLen
  <2> HIDE DEF n, e, c
  <2> QED BY <2>2, <2>3, <2>4, <2>5, <2>7, <2>8
<1> QED BY <1>1, <1>2, <1>3, PTL DEF Spec
=============================================================================
