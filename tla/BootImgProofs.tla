--------------------------- MODULE BootImgProofs ---------------------------
(***************************************************************************)
(* Proofs about BootImg: whatever the arguments, page sizes and devices    *)
(* are, an image holds the parts it was given, and an update leaves alone  *)
(* what lies in front of the parts it was given.                           *)
(***************************************************************************)
EXTENDS BootImg, SequenceTheorems, TLAPS

Parts == Seq(Cell) \cup {NULL}

Images == [size : Nat, kernel : Parts, ramdisk : Parts, second : Parts, header : Headers]

Types ==
  /\ device \in BOOLEAN
  /\ file \in Parts
  /\ file \notin {NULL, <<>>} => file[1] \in First
  /\ device => file # NULL /\ Len(file) \in Devices
  /\ img \in Images
  /\ tail \in [at : Nat, cells : Seq(Cell)]
  /\ pc \in {"exited", "config", "images", "header", "ramdisk", "second", "truncate", "extract"}
  /\ status \in {"ok", "refused", "crashed", "killed", "running"}
  /\ (pc = "exited") <=> (status # "running")

Running == pc \notin {"exited", "extract"}

Writing == pc \in {"header", "ramdisk", "second", "truncate"}

\* The command that runs, and what it has left alone so far.
Commanded ==
  /\ Running =>
       /\ file # NULL
       /\ args \in Arguments
       /\ args.command = "create" => args.kernel # NULL /\ args.ramdisk # NULL /\ (~device => given = NULL)
       /\ device => img.size = Len(file)
  /\ pc \in {"config", "images", "header"} /\ (args.command = "update" \/ device) => file = before
  /\ ~Writing \/ pc = "header" => tail = NoTail

\* The header that update_header begins with, and what it makes of it.
Old == IF args.command = "create" THEN NoImage.header ELSE HeaderOf(file)

Asked(h) == [h EXCEPT !.page_size = Given(args.pagesize, @), !.info = Given(args.info, @)]

Prepared ==
  /\ pc \in {"config", "images"} =>
       /\ img.header = IF pc = "config" THEN Old ELSE Asked(Old)
       /\ args.command = "update" => HeaderOf(file) # NULL /\ ValidHeader(HeaderOf(file), Len(file))
  /\ pc = "extract" =>
       /\ args.command = "extract" /\ file # NULL /\ HeaderOf(file) # NULL
       /\ img.header = HeaderOf(file) /\ ValidHeader(img.header, Len(file))
       /\ out = [NoOut EXCEPT !.config = out.config]

\* The parts that update_images has loaded: from the first that it replaces on,
\* all of them.
PartsLoaded ==
  Writing =>
    /\ img.header.page_size > 0 /\ img.size >= TotalSize(img.header)
    /\ img.kernel # NULL => img.ramdisk # NULL /\ Len(img.kernel) = img.header.kernel_size
    /\ img.ramdisk # NULL =>
         /\ Len(img.ramdisk) = img.header.ramdisk_size
         /\ img.header.second_size # 0 => img.second # NULL
    /\ img.second # NULL => Len(img.second) = img.header.second_size

\* Where a part ends with its padding: with the image, or a page later.
EndsAt(end) ==
  end =< TotalSize(img.header) \/ end = TotalSize(img.header) + img.header.page_size

\* However little of it is written, what stdio holds leaves a header in cell 1.
TailFits ==
  Writing /\ pc # "header" =>
    /\ LET head == <<"header", img.header>>
       IN \/ tail.at = 0 /\ tail.cells # <<>> /\ tail.cells[1] = head
          \/ tail.at > 0 /\ file # <<>> /\ file[1] = head
    /\ \/ pc = "ramdisk" /\ img.kernel # NULL
       \/ pc = "second" /\ img.ramdisk # NULL /\ img.header.second_size # 0
       \/ EndsAt(tail.at + Len(tail.cells))

\* Does the command that runs have something to promise?
Owed == (args.command = "create" \/ given # NULL) /\ ~Promise.repaged

\* The header announces what is promised.
Announced ==
  LET h == img.header
      P == Promise
  IN Writing /\ Owed =>
       /\ h.page_size = P.page /\ h.info = P.info
       /\ {P.kernel, P.ramdisk, P.second} \subseteq Seq(Cell)
       /\ h.kernel_size = Len(P.kernel) /\ h.ramdisk_size = Len(P.ramdisk)
       /\ h.second_size = Len(P.second)
       /\ img.kernel \in {NULL, P.kernel} /\ img.ramdisk \in {NULL, P.ramdisk}
       /\ img.second \in {NULL, P.second}

InPlace(d, at, cells) ==
  \A k \in 1 .. Len(cells) : at + k =< Len(d) /\ d[at + k] = cells[k]

\* The parts that are in their place, with what stdio still holds: those that
\* have been written, and those that are kept.
Written ==
  LET h == img.header
  IN Writing /\ Owed =>
       /\ pc # "header" \/ img.kernel = NULL => InPlace(Flushed, h.page_size, Promise.kernel)
       /\ pc \in {"second", "truncate"} \/ img.ramdisk = NULL =>
            InPlace(Flushed, RamdiskAt(h), Promise.ramdisk)
       /\ pc = "truncate" \/ img.second = NULL => InPlace(Flushed, SecondAt(h), Promise.second)

\* What was promised before is kept until the command writes.
Kept ==
  given # NULL /\ ~given.repaged => Holds(IF Running THEN before ELSE file, given)

BInv ==
  /\ Types /\ Commanded /\ Prepared /\ PartsLoaded /\ TailFits
  /\ Announced /\ Written /\ Kept
  /\ Extracted /\ SizeAsAsked
-----------------------------------------------------------------------------
LEMMA PagesFacts ==
  ASSUME NEW len \in Nat, NEW page \in Nat, page > 0
  PROVE  /\ Pages(len, page) \in Nat /\ Pages(len, page) * page \in Nat
         /\ len =< Pages(len, page) * page
<1> DEFINE n == len + page - 1
           q == n \div page
           r == n % page
<1>1. n \in Nat /\ q \in Nat /\ r \in Nat /\ r < page /\ n = page * q + r
  OBVIOUS
<1>2. page * q = q * page /\ q * page \in Nat
  BY <1>1
<1>3. Pages(len, page) = q
  BY DEF Pages
<1> DEFINE m == q * page
<1>4. m \in Nat /\ n = m + r
  BY <1>1, <1>2
<1>5. n = len + page - 1
  OBVIOUS
<1> HIDE DEF n, r, m, q
<1>6. len =< m
  BY <1>1, <1>4, <1>5
<1> QED BY <1>1, <1>3, <1>4, <1>6 DEF m

\* A part with its padding ends with its last page, or a page later.
LEMMA PaddedEnd ==
  ASSUME NEW len \in Nat, NEW page \in Nat, page > 0
  PROVE  /\ page - (len % page) \in Nat \ {0}
         /\ LET end == len + (page - (len % page))
            IN end \in {Pages(len, page) * page, Pages(len, page) * page + page}
<1> DEFINE q == len \div page
           r == len % page
<1>1. q \in Nat /\ r \in Nat /\ r < page /\ len = page * q + r
  OBVIOUS
<1>2. page * q = q * page /\ q * page \in Nat
  BY <1>1
<1>3. (q + 1) * page = q * page + page
  BY <1>1
<1>4. CASE r = 0
  <2>1. (len + page - 1) \div page = q
    <3>1. len + page - 1 = page * q + (page - 1) /\ 0 =< page - 1 /\ page - 1 < page
      BY <1>1, <1>4
    <3> HIDE DEF q, r
    <3> QED BY <1>1, <3>1
  <2> QED BY <1>1, <1>2, <1>4, <2>1 DEF Pages
<1>5. CASE r # 0
  <2>1. (len + page - 1) \div page = q + 1
    <3>1. /\ len + page - 1 = page * (q + 1) + (r - 1) /\ 0 =< r - 1 /\ r - 1 < page
          /\ q + 1 \in Nat
      BY <1>1, <1>2, <1>3, <1>5
    <3> HIDE DEF q, r
    <3> QED BY <1>1, <3>1
  <2> QED BY <1>1, <1>2, <1>3, <1>5, <2>1 DEF Pages
<1> QED BY <1>4, <1>5

\* The parts of an image lie behind one another.
LEMMA Offsets ==
  ASSUME NEW h \in Headers, h.page_size > 0
  PROVE  /\ {RamdiskAt(h), SecondAt(h), TotalSize(h)} \subseteq Nat
         /\ h.page_size + h.kernel_size =< RamdiskAt(h)
         /\ RamdiskAt(h) + h.ramdisk_size =< SecondAt(h)
         /\ SecondAt(h) + h.second_size =< TotalSize(h)
         /\ RamdiskAt(h) + Pages(h.ramdisk_size, h.page_size) * h.page_size = SecondAt(h)
         /\ SecondAt(h) + Pages(h.second_size, h.page_size) * h.page_size = TotalSize(h)
         /\ h.second_size = 0 => SecondAt(h) = TotalSize(h)
<1> DEFINE p == h.page_size
           k == Pages(h.kernel_size, p)
<1>1. p \in Nat /\ p > 0 /\ {h.kernel_size, h.ramdisk_size, h.second_size} \subseteq Nat
  BY DEF Headers
<1>2. k \in Nat /\ k * p \in Nat /\ h.kernel_size =< k * p
  BY <1>1, PagesFacts
<1>3. (1 + k) * p = p + k * p
  BY <1>1, <1>2
<1>4. RamdiskAt(h) = p + k * p
  BY <1>3 DEF RamdiskAt
<1> DEFINE m == Pages(h.ramdisk_size, p) * p
           o == Pages(h.second_size, p) * p
           n == k * p
<1>5. m \in Nat /\ h.ramdisk_size =< m /\ o \in Nat /\ h.second_size =< o
  BY <1>1, PagesFacts
<1>6. SecondAt(h) = RamdiskAt(h) + m /\ TotalSize(h) = SecondAt(h) + o
  BY DEF SecondAt, TotalSize
<1>7. h.second_size = 0 => o = 0
  <2> SUFFICES ASSUME h.second_size = 0 PROVE o = 0
    OBVIOUS
  <2>1. Pages(0, p) = (p - 1) \div p
    BY <1>1 DEF Pages
  <2>2. (p - 1) \div p = 0
    BY <1>1
  <2> QED BY <1>1, <2>1, <2>2
<1> HIDE DEF p, k, m, o, n
<1>8. n \in Nat /\ h.kernel_size =< n /\ RamdiskAt(h) = p + n
  BY <1>2, <1>4 DEF n
<1> QED BY <1>1, <1>5, <1>6, <1>7, <1>8 DEF p, m, o

-----------------------------------------------------------------------------
LEMMA CellFacts ==
  /\ First \subseteq Cell /\ Zero \in Cell
  /\ \A h \in Headers : <<"header", h>> \in First
  /\ NULL \notin Seq(Cell) /\ NULL \notin Headers
BY NullIsNoData DEF First, Cell

LEMMA WriteAtFacts ==
  ASSUME NEW d \in Seq(Cell), NEW at \in Nat, NEW cells \in Seq(Cell)
  PROVE  /\ WriteAt(d, at, cells) \in Seq(Cell)
         /\ Len(WriteAt(d, at, cells)) =
              IF ~device /\ cells # <<>> /\ at + Len(cells) > Len(d) THEN at + Len(cells) ELSE Len(d)
         /\ \A k \in 1 .. Len(WriteAt(d, at, cells)) :
              WriteAt(d, at, cells)[k] = IF at < k /\ k =< at + Len(cells) THEN cells[k - at]
                                         ELSE IF k =< Len(d) THEN d[k] ELSE Zero
<1> DEFINE n == IF ~device /\ cells # <<>> /\ at + Len(cells) > Len(d) THEN at + Len(cells) ELSE Len(d)
           F(k) == IF at < k /\ k =< at + Len(cells) THEN cells[k - at]
                   ELSE IF k =< Len(d) THEN d[k] ELSE Zero
<1>1. n \in Nat
  OBVIOUS
<1>2. \A k \in 1 .. n : F(k) \in Cell
  <2> SUFFICES ASSUME NEW k \in 1 .. n PROVE F(k) \in Cell
    OBVIOUS
  <2>1. at < k /\ k =< at + Len(cells) => k - at \in 1 .. Len(cells)
    OBVIOUS
  <2>2. k =< Len(d) => k \in 1 .. Len(d)
    OBVIOUS
  <2> QED BY <2>1, <2>2, CellFacts, ElementOfSeq
<1>3. WriteAt(d, at, cells) = [k \in 1 .. n |-> F(k)]
  BY DEF WriteAt
<1> HIDE DEF n, F
<1>4. WriteAt(d, at, cells) \in Seq(Cell) /\ Len(WriteAt(d, at, cells)) = n
  BY <1>1, <1>2, <1>3
<1>5. \A k \in 1 .. n : WriteAt(d, at, cells)[k] = F(k)
  BY <1>3
<1> QED BY <1>4, <1>5 DEF n, F

LEMMA TruncateFacts ==
  ASSUME NEW d \in Seq(Cell), NEW n \in Nat
  PROVE  /\ Truncate(d, n) \in Seq(Cell)
         /\ Len(Truncate(d, n)) = IF device THEN Len(d) ELSE n
         /\ \A k \in 1 .. Len(Truncate(d, n)) :
              Truncate(d, n)[k] = IF k =< Len(d) THEN d[k] ELSE Zero
<1>1. CASE device
  BY <1>1 DEF Truncate
<1>2. CASE ~device
  <2> DEFINE F(k) == IF k =< Len(d) THEN d[k] ELSE Zero
  <2>1. \A k \in 1 .. n : F(k) \in Cell
    BY CellFacts, ElementOfSeq
  <2>2. Truncate(d, n) = [k \in 1 .. n |-> F(k)]
    BY <1>2 DEF Truncate
  <2>3. \A k \in 1 .. n : Truncate(d, n)[k] = F(k)
    BY <2>2
  <2> HIDE DEF F
  <2>4. Truncate(d, n) \in Seq(Cell) /\ Len(Truncate(d, n)) = n
    BY <2>1, <2>2
  <2> QED BY <1>2, <2>3, <2>4 DEF F
<1> QED BY <1>1, <1>2

LEMMA WriteNothing ==
  ASSUME NEW d \in Seq(Cell), NEW at \in Nat
  PROVE  WriteAt(d, at, <<>>) = d
<1> DEFINE w == WriteAt(d, at, <<>>)
<1>1. <<>> \in Seq(Cell) /\ Len(<<>>) = 0
  OBVIOUS
<1> DEFINE e == <<>>
<1> HIDE DEF e
<1>2. /\ WriteAt(d, at, e) \in Seq(Cell)
      /\ Len(WriteAt(d, at, e)) =
           IF ~device /\ e # <<>> /\ at + Len(e) > Len(d) THEN at + Len(e) ELSE Len(d)
      /\ \A k \in 1 .. Len(WriteAt(d, at, e)) :
           WriteAt(d, at, e)[k] = IF at < k /\ k =< at + Len(e) THEN e[k - at]
                                  ELSE IF k =< Len(d) THEN d[k] ELSE Zero
  <2>1. e \in Seq(Cell)
    BY <1>1 DEF e
  <2> QED BY <2>1, WriteAtFacts
<1>3. w = WriteAt(d, at, e) /\ e = <<>> /\ Len(e) = 0
  BY DEF e
<1> HIDE DEF w
<1>4. w \in Seq(Cell) /\ Len(w) = Len(d)
  BY <1>2, <1>3
<1>5. \A k \in 1 .. Len(w) : w[k] = d[k]
  BY <1>2, <1>3, <1>4
<1>6. w = d
  BY <1>4, <1>5, SeqEqual
<1> QED BY <1>6 DEF w

\* ... and in a file that is as long as the image, the three of them inside it.
LEMMA PartsInside ==
  ASSUME NEW h \in Headers, h.page_size > 0, NEW n \in Nat, TotalSize(h) =< n
  PROVE  /\ h.page_size + h.kernel_size =< n
         /\ RamdiskAt(h) + h.ramdisk_size =< n
         /\ SecondAt(h) + h.second_size =< n
<1> DEFINE r == RamdiskAt(h)
           q == SecondAt(h)
           t == TotalSize(h)
           a == h.kernel_size
           b == h.ramdisk_size
           c == h.second_size
           p == h.page_size
<1>1. /\ {r, q, t, a, b, c, p} \subseteq Nat
      /\ p + a =< r /\ r + b =< q /\ q + c =< t /\ t =< n
  BY Offsets DEF Headers
<1> HIDE DEF r, q, t, a, b, c, p
<1>2. p + a =< n /\ r + b =< n /\ q + c =< n
  BY <1>1
<1> QED BY <1>2 DEF r, q, a, b, c, p

\* What lies before or behind the cells that are written stays in its place ...
LEMMA InPlaceKept ==
  ASSUME NEW d \in Seq(Cell), NEW at \in Nat, NEW cells \in Seq(Cell),
         NEW a \in Nat, NEW c \in Seq(Cell), InPlace(d, a, c),
         a + Len(c) =< at \/ at + Len(cells) =< a
  PROVE  InPlace(WriteAt(d, at, cells), a, c)
<1> DEFINE w == WriteAt(d, at, cells)
<1>1. /\ Len(w) \in Nat /\ Len(d) =< Len(w)
      /\ \A k \in 1 .. Len(w) : (k =< at \/ at + Len(cells) < k) /\ k =< Len(d) => w[k] = d[k]
  <2>1. /\ w \in Seq(Cell)
        /\ Len(w) = IF ~device /\ cells # <<>> /\ at + Len(cells) > Len(d)
                    THEN at + Len(cells) ELSE Len(d)
        /\ \A k \in 1 .. Len(w) : w[k] = IF at < k /\ k =< at + Len(cells) THEN cells[k - at]
                                         ELSE IF k =< Len(d) THEN d[k] ELSE Zero
    BY WriteAtFacts
  <2>2. Len(d) \in Nat /\ Len(cells) \in Nat
    OBVIOUS
  <2> HIDE DEF w
  <2>3. Len(w) \in Nat
    BY <2>1
  <2>4. Len(d) =< Len(w)
    BY <2>1, <2>2, <2>3
  <2>5. ASSUME NEW k \in 1 .. Len(w), k =< at \/ at + Len(cells) < k, k =< Len(d)
        PROVE  w[k] = d[k]
    <3>1. ~(at < k /\ k =< at + Len(cells))
      BY <2>2, <2>3, <2>5
    <3> QED BY <2>1, <2>5, <3>1
  <2> QED BY <2>3, <2>4, <2>5
<1>2. \A k \in 1 .. Len(c) : a + k =< Len(d) /\ d[a + k] = c[k]
  BY DEF InPlace
<1> HIDE DEF w
<1>3. \A k \in 1 .. Len(c) :
        /\ a + k \in 1 .. Len(w) /\ a + k =< Len(d)
        /\ a + k =< at \/ at + Len(cells) < a + k
  BY <1>1, <1>2
<1>4. ASSUME NEW k \in 1 .. Len(c) PROVE a + k =< Len(w) /\ w[a + k] = c[k]
  <2> DEFINE x == a + k
  <2>1. /\ x \in 1 .. Len(w) /\ x =< Len(d) /\ (x =< at \/ at + Len(cells) < x)
        /\ d[x] = c[k] /\ x =< Len(w)
    BY <1>1, <1>2, <1>3
  <2> HIDE DEF x
  <2>2. w[x] = d[x]
    BY <1>1, <2>1
  <2> QED BY <2>1, <2>2 DEF x
<1>5. InPlace(w, a, c)
  BY <1>4 DEF InPlace
<1> QED BY <1>5 DEF w

\* ... and what is in the cells that are written gets to its place.
LEMMA InPlaceWritten ==
  ASSUME NEW d \in Seq(Cell), NEW at \in Nat, NEW cells \in Seq(Cell),
         NEW b \in Nat, NEW c \in Seq(Cell), InPlace(cells, b, c),
         device => at + b + Len(c) =< Len(d)
  PROVE  InPlace(WriteAt(d, at, cells), at + b, c)
<1> DEFINE w == WriteAt(d, at, cells)
<1>1. /\ Len(w) = IF ~device /\ cells # <<>> /\ at + Len(cells) > Len(d) THEN at + Len(cells) ELSE Len(d)
      /\ \A k \in 1 .. Len(w) : at < k /\ k =< at + Len(cells) => w[k] = cells[k - at]
  BY WriteAtFacts
<1>2. \A k \in 1 .. Len(c) : b + k =< Len(cells) /\ cells[b + k] = c[k]
  BY DEF InPlace
<1>3. (cells = <<>> => Len(cells) = 0) /\ Len(cells) \in Nat /\ Len(c) \in Nat /\ Len(d) \in Nat
  OBVIOUS
<1> HIDE DEF w
<1>4. ASSUME NEW k \in 1 .. Len(c)
      PROVE  at + b + k =< Len(w) /\ w[at + b + k] = c[k]
  <2>1. b + k =< Len(cells) /\ cells # <<>> /\ k =< Len(c)
    BY <1>2, <1>3
  <2>2. at + b + k =< Len(w)
    <3>1. CASE device
      BY <1>1, <1>3, <2>1, <3>1
    <3>2. CASE ~device
      BY <1>1, <1>3, <2>1, <3>2
    <3> QED BY <3>1, <3>2
  <2>3. Len(w) \in Nat
    BY <1>1, <1>3
  <2>4. /\ at + b + k \in 1 .. Len(w) /\ at < at + b + k /\ at + b + k =< at + Len(cells)
        /\ (at + b + k) - at = b + k
    BY <2>1, <2>2, <2>3, <1>3
  <2>5. w[at + b + k] = cells[b + k]
    BY <1>1, <2>4
  <2> QED BY <1>2, <2>2, <2>5
<1>5. InPlace(w, at + b, c)
  BY <1>4 DEF InPlace
<1> QED BY <1>5 DEF w

LEMMA FoundInPlace ==
  ASSUME NEW d \in Seq(Cell), NEW a \in Nat, NEW c \in Seq(Cell),
         InPlace(d, a, c), a + Len(c) =< Len(d)
  PROVE  SubSeq(d, a + 1, a + Len(c)) = c
<1> DEFINE s == SubSeq(d, a + 1, a + Len(c))
<1>1. s \in Seq(Cell) /\ Len(s) = Len(c) /\ \A k \in 1 .. Len(c) : s[k] = d[a + k]
  OBVIOUS
<1>2. \A k \in 1 .. Len(c) : s[k] = c[k]
  BY <1>1 DEF InPlace
<1> HIDE DEF s
<1>3. s = c
  BY <1>1, <1>2, SeqEqual
<1> QED BY <1>3 DEF s

LEMMA PlaceOfPart ==
  ASSUME NEW d \in Seq(Cell), NEW a \in Nat, NEW n \in Nat, a + n =< Len(d)
  PROVE  LET c == SubSeq(d, a + 1, a + n)
         IN c \in Seq(Cell) /\ Len(c) = n /\ InPlace(d, a, c)
BY DEF InPlace

-----------------------------------------------------------------------------
LEMMA HeaderFacts ==
  ASSUME NEW d \in Seq(Cell), d # <<>> => d[1] \in First, HeaderOf(d) # NULL
  PROVE  /\ d # <<>> /\ d[1] = <<"header", HeaderOf(d)>>
         /\ HeaderOf(d) \in Headers
BY DEF HeaderOf, First

LEMMA HeaderFound ==
  ASSUME NEW d \in Seq(Cell), NEW h \in Headers, d # <<>>, d[1] = <<"header", h>>
  PROVE  HeaderOf(d) = h /\ HeaderOf(d) # NULL
BY CellFacts DEF HeaderOf

LEMMA ValidFacts ==
  ASSUME NEW h \in Headers, NEW n \in Nat, ValidHeader(h, n)
  PROVE  /\ h.page_size \in Nat /\ h.page_size > 0 /\ TotalSize(h) =< n
         /\ h.kernel_size > 0 /\ h.ramdisk_size > 0
BY DEF ValidHeader, Headers

LEMMA ContentFacts ==
  ASSUME NEW a \in Arguments, NEW part \in {a.kernel, a.ramdisk, a.second}, part # NULL
  PROVE  Content(part) \in Seq(Cell) /\ Len(Content(part)) = part.len /\ part.len \in Nat
<1>1. part.len \in Nat
  BY BootAssumption
<1>2. \A k \in 1 .. part.len : <<part.name, k>> \in Cell
  <2>1. part.name \in {p.name : p \in UNION {{b.kernel, b.ramdisk, b.second} \ {NULL} : b \in Arguments}}
    OBVIOUS
  <2> QED BY <1>1, <2>1 DEF Cell
<1> QED BY <1>1, <1>2 DEF Content

LEMMA ZerosFacts ==
  ASSUME NEW n \in Nat
  PROVE  Zeros(n) \in Seq(Cell) /\ Len(Zeros(n)) = n
BY CellFacts DEF Zeros

LEMMA PaddedFacts ==
  ASSUME NEW part \in Seq(Cell), NEW page \in Nat, page > 0
  PROVE  /\ PaddedPart(part, page) \in Seq(Cell) /\ PaddedPart(part, page) # <<>>
         /\ Len(PaddedPart(part, page)) \in {Pages(Len(part), page) * page, Pages(Len(part), page) * page + page}
         /\ InPlace(PaddedPart(part, page), 0, part)
<1> DEFINE pad == page - (Len(part) % page)
           z == Zeros(pad)
<1>1. pad \in Nat \ {0}
      /\ Len(part) + pad \in {Pages(Len(part), page) * page, Pages(Len(part), page) * page + page}
  BY PaddedEnd
<1>2. z \in Seq(Cell) /\ Len(z) = pad
  BY <1>1, ZerosFacts
<1>3. PaddedPart(part, page) = part \o z
  BY DEF PaddedPart
<1> HIDE DEF pad, z
<1>4. /\ part \o z \in Seq(Cell) /\ Len(part \o z) = Len(part) + pad
      /\ \A k \in 1 .. Len(part) : k =< Len(part \o z) /\ (part \o z)[k] = part[k]
  BY <1>1, <1>2
<1>5. part \o z # <<>>
  BY <1>1, <1>4
<1> QED BY <1>1, <1>3, <1>4, <1>5 DEF InPlace

Head1(h) == <<<<"header", h>>>> \o Zeros(h.page_size - 1)

LEMMA HeadFacts ==
  ASSUME NEW h \in Headers, h.page_size > 0
  PROVE  /\ Head1(h) \in Seq(Cell) /\ Len(Head1(h)) = h.page_size
         /\ Head1(h) # <<>> /\ Head1(h)[1] = <<"header", h>>
<1> DEFINE n == h.page_size - 1
           z == Zeros(n)
           c == <<"header", h>>
<1>1. n \in Nat /\ h.page_size = n + 1
  BY DEF Headers
<1>2. z \in Seq(Cell) /\ Len(z) = n
  BY <1>1, ZerosFacts
<1>3. c \in Cell
  BY CellFacts
<1>4. Head1(h) = <<c>> \o z
  BY DEF Head1
<1> HIDE DEF n, z, c
<1>5. <<c>> \o z \in Seq(Cell) /\ Len(<<c>> \o z) = n + 1 /\ (<<c>> \o z)[1] = c
  BY <1>1, <1>2, <1>3
<1>6. <<c>> \o z # <<>>
  BY <1>1, <1>5
<1> QED BY <1>1, <1>4, <1>5, <1>6 DEF c

LEMMA BehindHead ==
  ASSUME NEW u \in Seq(Cell), NEW v \in Seq(Cell), NEW c \in Seq(Cell), u # <<>>, InPlace(v, 0, c)
  PROVE  /\ u \o v \in Seq(Cell) /\ Len(u \o v) = Len(u) + Len(v) /\ u \o v # <<>>
         /\ (u \o v)[1] = u[1] /\ InPlace(u \o v, Len(u), c)
<1>1. Len(u) \in Nat /\ Len(v) \in Nat /\ Len(c) \in Nat /\ Len(u) > 0
  OBVIOUS
<1>2. /\ u \o v \in Seq(Cell) /\ Len(u \o v) = Len(u) + Len(v)
      /\ \A k \in 1 .. Len(u) : (u \o v)[k] = u[k]
      /\ \A k \in 1 .. Len(v) : (u \o v)[Len(u) + k] = v[k]
  OBVIOUS
<1> DEFINE w == u \o v
<1> HIDE DEF w
<1>3. \A k \in 1 .. Len(c) : k \in 1 .. Len(v) /\ v[k] = c[k]
  BY <1>1 DEF InPlace
<1>4. InPlace(w, Len(u), c)
  BY <1>1, <1>2, <1>3 DEF InPlace, w
<1> QED BY <1>1, <1>2, <1>4 DEF w

\* An image that holds parts has them in their places ...
LEMMA HoldsFacts ==
  ASSUME NEW d \in Seq(Cell), NEW g, NEW h, Holds(d, g), h = HeaderOf(d), h \in Headers,
         ValidHeader(h, Len(d))
  PROVE  /\ h.page_size = g.page /\ h.info = g.info
         /\ {g.kernel, g.ramdisk, g.second} \subseteq Seq(Cell)
         /\ Len(g.kernel) = h.kernel_size /\ Len(g.ramdisk) = h.ramdisk_size
         /\ Len(g.second) = h.second_size
         /\ InPlace(d, h.page_size, g.kernel) /\ InPlace(d, RamdiskAt(h), g.ramdisk)
         /\ InPlace(d, SecondAt(h), g.second)
         /\ g.kernel = SubSeq(d, h.page_size + 1, h.page_size + h.kernel_size)
         /\ g.ramdisk = SubSeq(d, RamdiskAt(h) + 1, RamdiskAt(h) + h.ramdisk_size)
         /\ g.second = SubSeq(d, SecondAt(h) + 1, SecondAt(h) + h.second_size)
<1>1. /\ h.page_size \in Nat /\ h.page_size > 0 /\ TotalSize(h) =< Len(d)
      /\ {h.kernel_size, h.ramdisk_size, h.second_size} \subseteq Nat
  BY ValidFacts DEF Headers
<1>2. /\ {RamdiskAt(h), SecondAt(h), TotalSize(h)} \subseteq Nat
      /\ h.page_size + h.kernel_size =< RamdiskAt(h)
      /\ RamdiskAt(h) + h.ramdisk_size =< SecondAt(h)
      /\ SecondAt(h) + h.second_size =< TotalSize(h)
  BY <1>1, Offsets
<1>3. /\ h.page_size + h.kernel_size =< Len(d) /\ RamdiskAt(h) + h.ramdisk_size =< Len(d)
      /\ SecondAt(h) + h.second_size =< Len(d)
  BY <1>1, <1>2, SMTT(40)
<1>4. /\ h.page_size = g.page /\ h.info = g.info
      /\ SubSeq(d, h.page_size + 1, h.page_size + h.kernel_size) = g.kernel
      /\ SubSeq(d, RamdiskAt(h) + 1, RamdiskAt(h) + h.ramdisk_size) = g.ramdisk
      /\ SubSeq(d, SecondAt(h) + 1, SecondAt(h) + h.second_size) = g.second
  BY <1>3 DEF Holds
<1>5. g.kernel \in Seq(Cell) /\ Len(g.kernel) = h.kernel_size /\ InPlace(d, h.page_size, g.kernel)
  <2>1. h.page_size \in Nat /\ h.kernel_size \in Nat /\ h.page_size + h.kernel_size =< Len(d)
    BY <1>1, <1>2, <1>3
  <2> DEFINE c == SubSeq(d, h.page_size + 1, h.page_size + h.kernel_size)
  <2>2. c \in Seq(Cell) /\ Len(c) = h.kernel_size /\ InPlace(d, h.page_size, c)
    BY <2>1, PlaceOfPart
  <2>3. g.kernel = c
    BY <1>4
  <2> HIDE DEF c
  <2> QED BY <2>2, <2>3
<1>6. g.ramdisk \in Seq(Cell) /\ Len(g.ramdisk) = h.ramdisk_size /\ InPlace(d, RamdiskAt(h), g.ramdisk)
  <2>1. RamdiskAt(h) \in Nat /\ h.ramdisk_size \in Nat /\ RamdiskAt(h) + h.ramdisk_size =< Len(d)
    BY <1>1, <1>2, <1>3
  <2> DEFINE c == SubSeq(d, RamdiskAt(h) + 1, RamdiskAt(h) + h.ramdisk_size)
  <2>2. c \in Seq(Cell) /\ Len(c) = h.ramdisk_size /\ InPlace(d, RamdiskAt(h), c)
    BY <2>1, PlaceOfPart
  <2>3. g.ramdisk = c
    BY <1>4
  <2> HIDE DEF c
  <2> QED BY <2>2, <2>3
<1>7. g.second \in Seq(Cell) /\ Len(g.second) = h.second_size /\ InPlace(d, SecondAt(h), g.second)
  <2>1. SecondAt(h) \in Nat /\ h.second_size \in Nat /\ SecondAt(h) + h.second_size =< Len(d)
    BY <1>1, <1>2, <1>3
  <2> DEFINE c == SubSeq(d, SecondAt(h) + 1, SecondAt(h) + h.second_size)
  <2>2. c \in Seq(Cell) /\ Len(c) = h.second_size /\ InPlace(d, SecondAt(h), c)
    BY <2>1, PlaceOfPart
  <2>3. g.second = c
    BY <1>4
  <2> HIDE DEF c
  <2> QED BY <2>2, <2>3
<1> QED BY <1>4, <1>5, <1>6, <1>7

\* ... and the other way round.
LEMMA HoldsIf ==
  ASSUME NEW d \in Seq(Cell), NEW g, NEW h \in Headers, HeaderOf(d) = h, h.page_size > 0,
         SecondAt(h) + h.second_size =< Len(d),
         h.page_size = g.page, h.info = g.info,
         {g.kernel, g.ramdisk, g.second} \subseteq Seq(Cell),
         Len(g.kernel) = h.kernel_size, Len(g.ramdisk) = h.ramdisk_size,
         Len(g.second) = h.second_size,
         InPlace(d, h.page_size, g.kernel), InPlace(d, RamdiskAt(h), g.ramdisk),
         InPlace(d, SecondAt(h), g.second)
  PROVE  Holds(d, g)
<1>1. /\ h.page_size \in Nat /\ {RamdiskAt(h), SecondAt(h), TotalSize(h)} \subseteq Nat
      /\ h.page_size + h.kernel_size =< RamdiskAt(h)
      /\ RamdiskAt(h) + h.ramdisk_size =< SecondAt(h)
      /\ SecondAt(h) + h.second_size =< TotalSize(h)
      /\ {h.kernel_size, h.ramdisk_size, h.second_size} \subseteq Nat
  BY Offsets DEF Headers
<1>2. /\ h.page_size + h.kernel_size =< Len(d) /\ RamdiskAt(h) + h.ramdisk_size =< Len(d)
      /\ SecondAt(h) + h.second_size =< Len(d)
  <2>1. Len(d) \in Nat
    OBVIOUS
  <2>2. RamdiskAt(h) + h.ramdisk_size =< Len(d)
    BY <1>1, <2>1, SMTT(40)
  <2> QED BY <1>1, <2>1, <2>2, SMTT(40)
<1>3. /\ SubSeq(d, h.page_size + 1, h.page_size + h.kernel_size) = g.kernel
      /\ SubSeq(d, RamdiskAt(h) + 1, RamdiskAt(h) + h.ramdisk_size) = g.ramdisk
      /\ SubSeq(d, SecondAt(h) + 1, SecondAt(h) + h.second_size) = g.second
  <2>1. SubSeq(d, h.page_size + 1, h.page_size + h.kernel_size) = g.kernel
    <3>1. /\ h.page_size \in Nat /\ g.kernel \in Seq(Cell) /\ InPlace(d, h.page_size, g.kernel)
          /\ h.page_size + Len(g.kernel) =< Len(d)
      BY <1>1, <1>2
    <3>2. SubSeq(d, h.page_size + 1, h.page_size + Len(g.kernel)) = g.kernel
      BY <3>1, FoundInPlace
    <3> QED BY <3>2
  <2>2. SubSeq(d, RamdiskAt(h) + 1, RamdiskAt(h) + h.ramdisk_size) = g.ramdisk
    <3>1. /\ RamdiskAt(h) \in Nat /\ g.ramdisk \in Seq(Cell) /\ InPlace(d, RamdiskAt(h), g.ramdisk)
          /\ RamdiskAt(h) + Len(g.ramdisk) =< Len(d)
      BY <1>1, <1>2
    <3>2. SubSeq(d, RamdiskAt(h) + 1, RamdiskAt(h) + Len(g.ramdisk)) = g.ramdisk
      BY <3>1, FoundInPlace
    <3> QED BY <3>2
  <2>3. SubSeq(d, SecondAt(h) + 1, SecondAt(h) + h.second_size) = g.second
    <3>1. /\ SecondAt(h) \in Nat /\ g.second \in Seq(Cell) /\ InPlace(d, SecondAt(h), g.second)
          /\ SecondAt(h) + Len(g.second) =< Len(d)
      BY <1>1, <1>2
    <3>2. SubSeq(d, SecondAt(h) + 1, SecondAt(h) + Len(g.second)) = g.second
      BY <3>1, FoundInPlace
    <3> QED BY <3>2
  <2> QED BY <2>1, <2>2, <2>3
<1>4. h # NULL
  BY CellFacts
<1> QED BY <1>2, <1>3, <1>4 DEF Holds

-----------------------------------------------------------------------------
LEMMA InitBInv == Init => BInv
<1> SUFFICES ASSUME Init PROVE BInv
  OBVIOUS
<1>1. NoImage \in Images /\ NoTail \in [at : Nat, cells : Seq(Cell)]
  BY BootAssumption DEF NoImage, Images, Parts, Headers, NoTail
<1>2. ASSUME NEW n \in Nat \ {0}
      PROVE  Garbage(n) \in Seq(Cell) /\ Garbage(n)[1] \in First /\ Len(Garbage(n)) = n
  <2>1. \A k \in 1 .. n : <<"garbage", k>> \in First
    BY DEF First
  <2> QED BY <2>1, CellFacts DEF Garbage
<1>3. file \in Parts /\ (file \notin {NULL, <<>>} => file[1] \in First)
      /\ (device => file # NULL /\ Len(file) \in Devices) /\ device \in BOOLEAN
  <2>1. \A n \in Devices : n \in Nat \ {0}
    BY BootAssumption
  <2>2. CASE device = FALSE /\ file \in {NULL, Garbage(1)}
    <3>1. Garbage(1) \in Seq(Cell) /\ Garbage(1)[1] \in First
      BY <1>2
    <3> QED BY <2>2, <3>1 DEF Parts
  <2>3. CASE device = TRUE /\ file \in {Garbage(n) : n \in Devices}
    <3>1. PICK n \in Devices : file = Garbage(n)
      BY <2>3
    <3>2. file \in Seq(Cell) /\ file[1] \in First /\ Len(file) = n
      BY <1>2, <2>1, <3>1
    <3>3. file # NULL
      BY <3>2, CellFacts
    <3> QED BY <2>3, <3>2, <3>3 DEF Parts
  <2> QED BY <2>2, <2>3 DEF Init
<1>4. Types
  BY <1>1, <1>3 DEF Init, Types
<1>5. Commanded /\ Prepared /\ PartsLoaded /\ TailFits /\ Announced /\ Written /\ Kept
  BY DEF Init, Commanded, Running, Writing, Prepared, PartsLoaded, TailFits, Announced, Written, Kept
<1>6. Extracted /\ SizeAsAsked
  BY DEF Init, NoArgs, Extracted, Settled, SizeAsAsked
<1> QED BY <1>4, <1>5, <1>6 DEF BInv

\* A command that is given up before it writes leaves what was promised.
LEMMA GivenUp ==
  ASSUME BInv, pc \in {"config", "images"}, End("refused"), img' \in Images,
         UNCHANGED <<file, device, args, tail, out, commands, before, given>>
  PROVE  BInv'
<1>1. Types'
  BY DEF BInv, Types, End
<1>2. (args.command = "update" => file = before) /\ (given # NULL => file = before)
  <2>1. args.command \in {"create", "update"}
    BY BootAssumption DEF BInv, Commanded, Running
  <2>2. (args.command = "update" \/ device => file = before) /\ (args.command = "create" /\ ~device => given = NULL)
    BY DEF BInv, Commanded, Running
  <2> QED BY <2>1, <2>2
<1>3. pc' = "exited" /\ status' = "refused"
  BY DEF End
<1>4. Commanded' /\ Prepared' /\ PartsLoaded' /\ TailFits' /\ Announced' /\ Written'
  BY <1>3 DEF BInv, Commanded, Running, Writing, Prepared, PartsLoaded, TailFits, Announced, Written
<1>5. Kept'
  BY <1>2, <1>3 DEF BInv, Kept, Running, Holds
<1>6. Extracted' /\ SizeAsAsked'
  BY <1>3 DEF Extracted, SizeAsAsked
<1> QED BY <1>1, <1>4, <1>5, <1>6 DEF BInv

LEMMA CreateKeeps == ASSUME BInv, NEW a \in Arguments, Create(a) PROVE BInv'
<1>1. /\ pc = "exited" /\ a.command = "create" /\ a.kernel # NULL /\ a.ramdisk # NULL
      /\ args' = a /\ before' = file
      /\ img' = [NoImage EXCEPT !.size = IF device THEN Len(file) ELSE 0]
      /\ UNCHANGED <<device, tail, out>>
  BY DEF Create
<1>2. \/ /\ pc' = "config" /\ status' = "running"
         /\ file' = IF device THEN file ELSE <<>>
         /\ given' = IF device THEN given ELSE NULL
      \/ pc' = "exited" /\ status' = "refused" /\ UNCHANGED <<file, given>>
  BY DEF Create, End
<1>3. <<>> \in Seq(Cell) /\ <<>> # NULL
  <2>1. <<>> \in Seq(Cell)
    OBVIOUS
  <2>2. NULL \notin Seq(Cell)
    BY CellFacts
  <2> QED BY <2>1, <2>2
<1>4. img' \in Images /\ img'.header = NoImage.header /\ (device => img'.size = Len(file))
  <2>1. NoImage \in Images
    BY BootAssumption DEF NoImage, Images, Parts, Headers
  <2>2. device => Len(file) \in Nat
    BY BootAssumption DEF BInv, Types
  <2> QED BY <1>1, <2>1, <2>2 DEF Images
<1>5. Types'
  BY <1>1, <1>2, <1>3, <1>4 DEF BInv, Types, Parts
<1>6. Commanded'
  BY <1>1, <1>2, <1>3, <1>4 DEF BInv, Types, Commanded, Running, Writing
<1>7. Prepared'
  BY <1>1, <1>2, <1>4 DEF Prepared, Old
<1>8. PartsLoaded' /\ TailFits' /\ Announced' /\ Written'
  BY <1>2 DEF Writing, PartsLoaded, TailFits, Announced, Written
<1>9. Kept'
  BY <1>1, <1>2 DEF BInv, Kept, Running, Holds
<1>10. Extracted' /\ SizeAsAsked'
  BY <1>1, <1>2 DEF Extracted, SizeAsAsked
<1> QED BY <1>5, <1>6, <1>7, <1>8, <1>9, <1>10 DEF BInv

LEMMA UpdateKeeps == ASSUME BInv, NEW a \in Arguments, Update(a) PROVE BInv'
<1>1. /\ pc = "exited" /\ a.command = "update" /\ file # NULL
      /\ args' = a /\ before' = file /\ file' = file
      /\ UNCHANGED <<device, tail, out, given>>
  BY DEF Update, Opened
<1>2. \/ /\ HeaderOf(file) # NULL /\ ValidHeader(HeaderOf(file), Len(file))
         /\ img' = [NoImage EXCEPT !.size = Len(file), !.header = HeaderOf(file)]
         /\ pc' = "config" /\ status' = "running"
      \/ pc' = "exited" /\ status' = "refused" /\ UNCHANGED img
  BY DEF Update, Opened, End
<1>3. file \in Seq(Cell) /\ (file # <<>> => file[1] \in First)
  BY <1>1 DEF BInv, Types, Parts
<1>4. img' \in Images
  <2>1. CASE UNCHANGED img
    BY <2>1 DEF BInv, Types
  <2>2. CASE /\ HeaderOf(file) # NULL
             /\ img' = [NoImage EXCEPT !.size = Len(file), !.header = HeaderOf(file)]
    <3>1. HeaderOf(file) \in Headers /\ Len(file) \in Nat
      BY <1>3, <2>2, HeaderFacts
    <3> QED BY <2>2, <3>1 DEF NoImage, Images, Parts
  <2> QED BY <1>2, <2>1, <2>2
<1>5. Types'
  BY <1>1, <1>2, <1>4 DEF BInv, Types
<1>6. Commanded'
  <2>1. pc' = "config" => img'.size = Len(file)
    BY <1>2 DEF NoImage
  <2> QED BY <1>1, <1>2, <2>1 DEF BInv, Commanded, Running, Writing
<1>7. Prepared'
  <2>1. pc' = "config" => img'.header = HeaderOf(file) /\ HeaderOf(file) # NULL /\ ValidHeader(HeaderOf(file), Len(file))
    BY <1>2 DEF NoImage
  <2>2. HeaderOf(file)' = HeaderOf(file) /\ args'.command = "update"
    BY <1>1
  <2> QED BY <1>1, <1>2, <2>1, <2>2 DEF Prepared, Old
<1>8. PartsLoaded' /\ TailFits' /\ Announced' /\ Written'
  BY <1>2 DEF Writing, PartsLoaded, TailFits, Announced, Written
<1>9. Kept'
  BY <1>1, <1>2 DEF BInv, Kept, Running, Holds
<1>10. Extracted' /\ SizeAsAsked'
  BY <1>1, <1>2 DEF Extracted, SizeAsAsked
<1> QED BY <1>5, <1>6, <1>7, <1>8, <1>9, <1>10 DEF BInv

LEMMA UpdateHeaderKeeps == ASSUME BInv, UpdateHeader PROVE BInv'
<1>1. pc = "config" /\ UNCHANGED <<file, device, args, tail, out, commands, before, given>>
  BY DEF UpdateHeader
<1>2. CASE End("refused") /\ UNCHANGED img
  BY <1>1, <1>2, GivenUp DEF BInv, Types
<1>3. CASE /\ ~(args.bootsize # NULL /\ device /\ args.bootsize # img.size)
           /\ img' = [img EXCEPT !.size = Given(args.bootsize, @),
                                !.header.page_size = Given(args.pagesize, @),
                                !.header.info = Given(args.info, @)]
           /\ pc' = "images" /\ UNCHANGED status
  <2>1. args \in Arguments /\ file # NULL
    BY <1>1 DEF BInv, Commanded, Running
  <2>2. img \in Images /\ img.header \in Headers /\ img.size \in Nat
    BY DEF BInv, Types, Images
  <2>3. /\ Given(args.bootsize, img.size) \in Nat
        /\ Given(args.pagesize, img.header.page_size) \in Nat
        /\ Given(args.info, img.header.info) \in {a.info : a \in Arguments} \cup {NULL}
    BY <2>1, <2>2, BootAssumption DEF Given, Headers
  <2>4. img' \in Images /\ img'.header = Asked(img.header) /\ img'.size = Given(args.bootsize, img.size)
    BY <1>3, <2>2, <2>3 DEF Images, Headers, Asked
  <2>5. Types'
    BY <1>1, <1>3, <2>4 DEF BInv, Types
  <2>6. Commanded'
    <3>1. device => img'.size = img.size
      BY <1>3, <2>4 DEF Given
    <3> QED BY <1>1, <1>3, <2>1, <3>1 DEF BInv, Commanded, Running, Writing
  <2>7. Prepared'
    <3>1. img.header = Old /\ Old' = Old
      BY <1>1 DEF BInv, Prepared, Old
    <3>2. Asked(Old)' = Asked(Old)
      BY <1>1, <3>1 DEF Asked, Given
    <3> QED BY <1>1, <1>3, <2>4, <3>1, <3>2 DEF BInv, Prepared
  <2>8. PartsLoaded' /\ TailFits' /\ Announced' /\ Written'
    BY <1>3 DEF Writing, PartsLoaded, TailFits, Announced, Written
  <2>9. Kept'
    BY <1>1, <1>3 DEF BInv, Kept, Running, Holds
  <2>10. Extracted' /\ SizeAsAsked'
    BY <1>3 DEF Extracted, Settled, SizeAsAsked
  <2> QED BY <2>5, <2>6, <2>7, <2>8, <2>9, <2>10 DEF BInv
<1> QED BY <1>2, <1>3 DEF UpdateHeader

-----------------------------------------------------------------------------
\* What update_images gives to the parts of an image with the header h.
KernelOf == IF args.kernel = NULL THEN NULL ELSE Content(args.kernel)

RamdiskOf(h) ==
  IF args.ramdisk # NULL THEN Content(args.ramdisk)
  ELSE IF args.kernel # NULL THEN ReadAt(RamdiskAt(h), h.ramdisk_size) ELSE NULL

SecondOf(h) ==
  IF args.second # NULL THEN Content(args.second)
  ELSE IF (args.kernel # NULL \/ args.ramdisk # NULL) /\ h.second_size # 0
  THEN ReadAt(SecondAt(h), h.second_size) ELSE NULL

LEMMA LoadedFacts ==
  ASSUME NEW h, h = img.header, img \in Images, args \in Arguments, file \in Seq(Cell),
         h.page_size # 0, CanCopy
  PROVE  /\ h \in Headers /\ h.page_size > 0
         /\ {KernelOf, RamdiskOf(h), SecondOf(h)} \subseteq Parts
         /\ args.kernel = NULL <=> KernelOf = NULL
         /\ args.ramdisk = NULL /\ args.kernel = NULL <=> RamdiskOf(h) = NULL
         /\ SecondOf(h) = NULL <=>
              args.second = NULL /\ (h.second_size = 0 \/ (args.kernel = NULL /\ args.ramdisk = NULL))
         /\ Loaded = [img EXCEPT !.kernel = KernelOf, !.ramdisk = RamdiskOf(h), !.second = SecondOf(h),
                                 !.header = Sized(h, KernelOf, RamdiskOf(h), SecondOf(h))]
         /\ RamdiskOf(h) # NULL /\ args.ramdisk = NULL => Len(RamdiskOf(h)) = h.ramdisk_size
         /\ SecondOf(h) # NULL /\ args.second = NULL => Len(SecondOf(h)) = h.second_size
<1>1. h \in Headers /\ h.page_size \in Nat /\ h.page_size > 0 /\ h.ramdisk_size \in Nat /\ h.second_size \in Nat
  BY DEF Images, Headers
<1>2. RamdiskAt(h) \in Nat /\ SecondAt(h) \in Nat
  BY <1>1, Offsets
<1>3. NULL \notin Seq(Cell)
  BY CellFacts
<1>4. /\ args.kernel # NULL => Content(args.kernel) \in Seq(Cell)
      /\ args.ramdisk # NULL => Content(args.ramdisk) \in Seq(Cell)
      /\ args.second # NULL => Content(args.second) \in Seq(Cell)
  BY ContentFacts
<1>5. args.kernel # NULL /\ args.ramdisk = NULL =>
        ReadAt(RamdiskAt(h), h.ramdisk_size) \in Seq(Cell)
        /\ Len(ReadAt(RamdiskAt(h), h.ramdisk_size)) = h.ramdisk_size
  <2> SUFFICES ASSUME args.kernel # NULL, args.ramdisk = NULL
               PROVE  /\ ReadAt(RamdiskAt(h), h.ramdisk_size) \in Seq(Cell)
                      /\ Len(ReadAt(RamdiskAt(h), h.ramdisk_size)) = h.ramdisk_size
    OBVIOUS
  <2>1. RamdiskAt(h) + h.ramdisk_size =< Len(file)
    BY DEF CanCopy, Readable
  <2>2. SubSeq(file, RamdiskAt(h) + 1, RamdiskAt(h) + h.ramdisk_size) \in Seq(Cell)
        /\ Len(SubSeq(file, RamdiskAt(h) + 1, RamdiskAt(h) + h.ramdisk_size)) = h.ramdisk_size
    BY <1>1, <1>2, <2>1, PlaceOfPart, SMTT(40)
  <2> QED BY <2>2 DEF ReadAt
<1>6. args.second = NULL /\ (args.kernel # NULL \/ args.ramdisk # NULL) /\ h.second_size # 0 =>
        ReadAt(SecondAt(h), h.second_size) \in Seq(Cell)
        /\ Len(ReadAt(SecondAt(h), h.second_size)) = h.second_size
  <2> SUFFICES ASSUME args.second = NULL, args.kernel # NULL \/ args.ramdisk # NULL, h.second_size # 0
               PROVE  /\ ReadAt(SecondAt(h), h.second_size) \in Seq(Cell)
                      /\ Len(ReadAt(SecondAt(h), h.second_size)) = h.second_size
    OBVIOUS
  <2>1. SecondAt(h) + h.second_size =< Len(file)
    BY DEF CanCopy, Readable
  <2>2. SubSeq(file, SecondAt(h) + 1, SecondAt(h) + h.second_size) \in Seq(Cell)
        /\ Len(SubSeq(file, SecondAt(h) + 1, SecondAt(h) + h.second_size)) = h.second_size
    BY <1>1, <1>2, <2>1, PlaceOfPart, SMTT(40)
  <2> QED BY <2>2 DEF ReadAt
<1>7. /\ {KernelOf, RamdiskOf(h), SecondOf(h)} \subseteq Parts
      /\ args.kernel = NULL <=> KernelOf = NULL
      /\ args.ramdisk = NULL /\ args.kernel = NULL <=> RamdiskOf(h) = NULL
      /\ SecondOf(h) = NULL <=>
           args.second = NULL /\ (h.second_size = 0 \/ (args.kernel = NULL /\ args.ramdisk = NULL))
  BY <1>3, <1>4, <1>5, <1>6 DEF KernelOf, RamdiskOf, SecondOf, Parts
<1>8. Loaded = [img EXCEPT !.kernel = KernelOf, !.ramdisk = RamdiskOf(h), !.second = SecondOf(h),
                           !.header = Sized(h, KernelOf, RamdiskOf(h), SecondOf(h))]
  <2> DEFINE k == IF args.kernel = NULL THEN NULL ELSE Content(args.kernel)
             r == IF args.ramdisk = NULL /\ k # NULL THEN ReadAt(RamdiskAt(h), h.ramdisk_size)
                  ELSE IF args.ramdisk = NULL THEN NULL ELSE Content(args.ramdisk)
             s == IF args.second = NULL /\ r # NULL /\ h.second_size # 0
                  THEN ReadAt(SecondAt(h), h.second_size)
                  ELSE IF args.second = NULL THEN NULL ELSE Content(args.second)
  <2>1. Loaded = [img EXCEPT !.kernel = k, !.ramdisk = r, !.second = s, !.header = Sized(@, k, r, s)]
    BY DEF Loaded
  <2>2. k = KernelOf
    BY DEF KernelOf
  <2>3. r = RamdiskOf(h)
    BY <1>3, <1>4 DEF RamdiskOf
  <2>4. s = SecondOf(h)
    BY <1>7, <2>3 DEF SecondOf
  <2> HIDE DEF k, r, s
  <2> QED BY <2>1, <2>2, <2>3, <2>4
<1> QED BY <1>1, <1>5, <1>6, <1>7, <1>8 DEF RamdiskOf, SecondOf

LEMMA SizedFacts ==
  ASSUME NEW h \in Headers, NEW k \in Parts, NEW r \in Parts, NEW s \in Parts
  PROVE  /\ Sized(h, k, r, s).page_size = h.page_size /\ Sized(h, k, r, s).info = h.info
         /\ Sized(h, k, r, s).kernel_size = IF k = NULL THEN h.kernel_size ELSE Len(k)
         /\ Sized(h, k, r, s).ramdisk_size = IF r = NULL THEN h.ramdisk_size ELSE Len(r)
         /\ Sized(h, k, r, s).second_size = IF s = NULL THEN h.second_size ELSE Len(s)
BY DEF Sized, Headers

LEMMA SizedType ==
  ASSUME NEW h \in Headers, NEW k \in Parts, NEW r \in Parts, NEW s \in Parts
  PROVE  Sized(h, k, r, s) \in Headers
<1>1. /\ k # NULL => Len(k) \in Nat
      /\ r # NULL => Len(r) \in Nat
      /\ s # NULL => Len(s) \in Nat
  BY DEF Parts
<1> QED BY <1>1 DEF Sized, Headers

\* What a command announces, and which parts lie already where they should: a
\* statement about the header H, the parts k, r and s, and the promise P.
Promising(H, k, r, s, P) ==
  /\ H.page_size = P.page /\ H.info = P.info
  /\ {P.kernel, P.ramdisk, P.second} \subseteq Seq(Cell)
  /\ H.kernel_size = Len(P.kernel) /\ H.ramdisk_size = Len(P.ramdisk)
  /\ H.second_size = Len(P.second)
  /\ k \in {NULL, P.kernel} /\ r \in {NULL, P.ramdisk} /\ s \in {NULL, P.second}
  /\ k = NULL => InPlace(file, H.page_size, P.kernel)
  /\ r = NULL => InPlace(file, RamdiskAt(H), P.ramdisk)
  /\ s = NULL => InPlace(file, SecondAt(H), P.second)

LEMMA NothingInPlace ==
  ASSUME NEW d, NEW a, NEW c \in Seq(Cell), Len(c) = 0
  PROVE  InPlace(d, a, c)
BY DEF InPlace

LEMMA CreatePromises ==
  ASSUME NEW h, h = img.header, h = Asked(NoImage.header), img \in Images, args \in Arguments,
         file \in Seq(Cell), h.page_size # 0, CanCopy,
         args.command = "create", args.kernel # NULL, args.ramdisk # NULL
  PROVE  Promising(Sized(h, KernelOf, RamdiskOf(h), SecondOf(h)),
                   KernelOf, RamdiskOf(h), SecondOf(h), Promise)
<1> DEFINE k == KernelOf
           r == RamdiskOf(h)
           s == SecondOf(h)
           H == Sized(h, k, r, s)
           P == Promise
<1>1. /\ h \in Headers /\ {k, r, s} \subseteq Parts /\ k # NULL /\ r # NULL
      /\ s = NULL <=> args.second = NULL /\ (h.second_size = 0 \/ (args.kernel = NULL /\ args.ramdisk = NULL))
  BY LoadedFacts
<1>2. h.page_size = Given(args.pagesize, DefaultPage) /\ h.info = Given(args.info, NULL) /\ h.second_size = 0
  BY DEF Asked, NoImage
<1>3. /\ H.page_size = h.page_size /\ H.info = h.info
      /\ H.kernel_size = Len(k) /\ H.ramdisk_size = Len(r)
      /\ H.second_size = IF s = NULL THEN h.second_size ELSE Len(s)
  <2> HIDE DEF k, r, s
  <2>1. h \in Headers /\ k \in Parts /\ r \in Parts /\ s \in Parts
    BY <1>1
  <2> QED BY <1>1, <2>1, SizedFacts
<1>4. /\ P.kernel = Content(args.kernel) /\ P.ramdisk = Content(args.ramdisk)
      /\ P.second = IF args.second = NULL THEN <<>> ELSE Content(args.second)
      /\ P.info = Given(args.info, NULL) /\ P.page = Given(args.pagesize, DefaultPage)
  BY DEF Promise
<1>5. k = P.kernel /\ r = P.ramdisk /\ k \in Seq(Cell) /\ r \in Seq(Cell)
  BY <1>1, <1>4 DEF KernelOf, RamdiskOf, Parts
<1>6. P.second \in Seq(Cell) /\ H.second_size = Len(P.second) /\ s \in {NULL, P.second}
      /\ (s = NULL => Len(P.second) = 0)
  <2>1. CASE args.second = NULL
    <3>1. s = NULL /\ P.second = <<>>
      BY <1>1, <1>2, <1>4, <2>1
    <3> QED BY <1>2, <1>3, <3>1
  <2>2. CASE args.second # NULL
    <3>1. s # NULL /\ s = P.second /\ s \in Seq(Cell)
      BY <1>1, <1>4, <2>2 DEF SecondOf, Parts
    <3> QED BY <1>3, <3>1
  <2> QED BY <2>1, <2>2
<1>7. s = NULL => InPlace(file, SecondAt(H), P.second)
  BY <1>6, NothingInPlace
<1> HIDE DEF k, r, s, H, P
<1>8. Promising(H, k, r, s, P)
  BY <1>1, <1>2, <1>3, <1>4, <1>5, <1>6, <1>7 DEF Promising
<1> QED BY <1>8 DEF k, r, s, H, P

LEMMA UpdatePromises ==
  ASSUME NEW h, h = img.header, NEW o, o = HeaderOf(file), o \in Headers, ValidHeader(o, Len(file)),
         h = Asked(o), img \in Images, args \in Arguments, file \in Seq(Cell), h.page_size # 0, CanCopy,
         args.command = "update", Holds(file, given), ~Promise.repaged
  PROVE  Promising(Sized(h, KernelOf, RamdiskOf(h), SecondOf(h)),
                   KernelOf, RamdiskOf(h), SecondOf(h), Promise)
<1> DEFINE k == KernelOf
           r == RamdiskOf(h)
           s == SecondOf(h)
           H == Sized(h, k, r, s)
           P == Promise
           G == given
<1>1. /\ h \in Headers /\ {k, r, s} \subseteq Parts
      /\ args.kernel = NULL <=> k = NULL
      /\ args.ramdisk = NULL /\ args.kernel = NULL <=> r = NULL
      /\ s = NULL <=> args.second = NULL /\ (h.second_size = 0 \/ (args.kernel = NULL /\ args.ramdisk = NULL))
  BY LoadedFacts
<1>2. /\ h.page_size = Given(args.pagesize, o.page_size) /\ h.info = Given(args.info, o.info)
      /\ h.kernel_size = o.kernel_size /\ h.ramdisk_size = o.ramdisk_size
      /\ h.second_size = o.second_size
  BY DEF Asked, Headers
<1>3. /\ H.page_size = h.page_size /\ H.info = h.info
      /\ H.kernel_size = IF k = NULL THEN h.kernel_size ELSE Len(k)
      /\ H.ramdisk_size = IF r = NULL THEN h.ramdisk_size ELSE Len(r)
      /\ H.second_size = IF s = NULL THEN h.second_size ELSE Len(s)
  <2> HIDE DEF k, r, s
  <2>1. h \in Headers /\ k \in Parts /\ r \in Parts /\ s \in Parts
    BY <1>1
  <2> QED BY <1>1, <2>1, SizedFacts
<1>4. /\ P.kernel = IF args.kernel = NULL THEN G.kernel ELSE Content(args.kernel)
      /\ P.ramdisk = IF args.ramdisk = NULL THEN G.ramdisk ELSE Content(args.ramdisk)
      /\ P.second = IF args.second = NULL THEN G.second ELSE Content(args.second)
      /\ P.info = Given(args.info, G.info) /\ P.page = Given(args.pagesize, G.page)
      /\ args.pagesize \in {NULL, G.page}
           \/ ~(args.kernel = NULL \/ args.ramdisk = NULL \/ (args.second = NULL /\ G.second # <<>>))
  BY DEF Promise
<1>5. /\ o.page_size = G.page /\ o.info = G.info
      /\ {G.kernel, G.ramdisk, G.second} \subseteq Seq(Cell)
      /\ Len(G.kernel) = o.kernel_size /\ Len(G.ramdisk) = o.ramdisk_size
      /\ Len(G.second) = o.second_size
      /\ InPlace(file, o.page_size, G.kernel) /\ InPlace(file, RamdiskAt(o), G.ramdisk)
      /\ InPlace(file, SecondAt(o), G.second)
      /\ G.ramdisk = SubSeq(file, RamdiskAt(o) + 1, RamdiskAt(o) + o.ramdisk_size)
      /\ G.second = SubSeq(file, SecondAt(o) + 1, SecondAt(o) + o.second_size)
  BY HoldsFacts
<1>6. /\ args.kernel # NULL => Content(args.kernel) \in Seq(Cell)
      /\ args.ramdisk # NULL => Content(args.ramdisk) \in Seq(Cell)
      /\ args.second # NULL => Content(args.second) \in Seq(Cell)
  BY ContentFacts
<1>7. args.pagesize \in {NULL, G.page} => h.page_size = o.page_size
  BY <1>2, <1>5 DEF Given
<1>8. h.page_size = o.page_size => RamdiskAt(h) = RamdiskAt(o) /\ SecondAt(h) = SecondAt(o)
  BY <1>2 DEF RamdiskAt, SecondAt
<1>9. k = NULL => h.page_size = o.page_size /\ P.kernel = G.kernel
  BY <1>1, <1>4, <1>7
<1>10. k # NULL => k = P.kernel /\ k \in Seq(Cell)
  BY <1>1, <1>4, <1>6 DEF KernelOf
<1>11. r # NULL => r = P.ramdisk /\ r \in Seq(Cell)
  <2>1. CASE args.ramdisk # NULL
    BY <1>4, <1>6, <2>1 DEF RamdiskOf
  <2>2. CASE args.ramdisk = NULL /\ args.kernel # NULL
    <3>1. r = ReadAt(RamdiskAt(h), h.ramdisk_size)
      BY <2>2 DEF RamdiskOf
    <3>2. RamdiskAt(h) = RamdiskAt(o) /\ h.ramdisk_size = o.ramdisk_size /\ P.ramdisk = G.ramdisk
      BY <1>2, <1>4, <1>7, <1>8, <2>2
    <3> QED BY <1>5, <3>1, <3>2 DEF ReadAt
  <2> QED BY <1>1, <2>1, <2>2
<1>12. r = NULL => k = NULL /\ h.page_size = o.page_size /\ P.ramdisk = G.ramdisk
  BY <1>1, <1>4, <1>9
<1>13. s # NULL => s = P.second /\ s \in Seq(Cell)
  <2>1. CASE args.second # NULL
    BY <1>4, <1>6, <2>1 DEF SecondOf
  <2>2. CASE args.second = NULL /\ (args.kernel # NULL \/ args.ramdisk # NULL) /\ h.second_size # 0
    <3>1. s = ReadAt(SecondAt(h), h.second_size)
      BY <2>2 DEF SecondOf
    <3>2. G.second # <<>>
      BY <1>2, <1>5, <2>2
    <3>3. SecondAt(h) = SecondAt(o) /\ h.second_size = o.second_size /\ P.second = G.second
      BY <1>2, <1>4, <1>7, <1>8, <2>2, <3>2
    <3> QED BY <1>5, <3>1, <3>3 DEF ReadAt
  <2> QED BY <1>1, <2>1, <2>2
<1>14. s = NULL => /\ P.second = G.second /\ h.second_size = o.second_size
                   /\ h.second_size = 0 \/ (k = NULL /\ r = NULL)
  BY <1>1, <1>2, <1>4
<1>15. /\ {P.kernel, P.ramdisk, P.second} \subseteq Seq(Cell)
       /\ H.kernel_size = Len(P.kernel) /\ H.ramdisk_size = Len(P.ramdisk)
       /\ H.second_size = Len(P.second)
       /\ k \in {NULL, P.kernel} /\ r \in {NULL, P.ramdisk} /\ s \in {NULL, P.second}
  BY <1>2, <1>3, <1>5, <1>9, <1>10, <1>11, <1>12, <1>13, <1>14
<1>16. k = NULL => InPlace(file, H.page_size, P.kernel)
  BY <1>3, <1>5, <1>9
<1>17. r = NULL => InPlace(file, RamdiskAt(H), P.ramdisk)
  <2> SUFFICES ASSUME r = NULL PROVE InPlace(file, RamdiskAt(H), P.ramdisk)
    OBVIOUS
  <2>1. H.page_size = o.page_size /\ H.kernel_size = o.kernel_size
    BY <1>2, <1>3, <1>12
  <2>2. RamdiskAt(H) = RamdiskAt(o)
    BY <2>1 DEF RamdiskAt
  <2> QED BY <1>5, <1>12, <2>2
<1>18. s = NULL => InPlace(file, SecondAt(H), P.second)
  <2> SUFFICES ASSUME s = NULL PROVE InPlace(file, SecondAt(H), P.second)
    OBVIOUS
  <2>1. CASE h.second_size = 0
    BY <1>2, <1>5, <1>14, <2>1, NothingInPlace
  <2>2. CASE k = NULL /\ r = NULL
    <3>1. H.page_size = o.page_size /\ H.kernel_size = o.kernel_size /\ H.ramdisk_size = o.ramdisk_size
      BY <1>2, <1>3, <1>12, <2>2
    <3>2. SecondAt(H) = SecondAt(o)
      BY <3>1 DEF SecondAt, RamdiskAt
    <3> QED BY <1>5, <1>14, <3>2
  <2> QED BY <1>14, <2>1, <2>2
<1>19. H.page_size = P.page /\ H.info = P.info
  BY <1>2, <1>3, <1>4, <1>5
<1> HIDE DEF k, r, s, H, P, G
<1>20. Promising(H, k, r, s, P)
  BY <1>15, <1>16, <1>17, <1>18, <1>19 DEF Promising
<1> QED BY <1>20 DEF k, r, s, H, P

LEMMA UpdateImagesKeeps == ASSUME BInv, UpdateImages PROVE BInv'
<1> DEFINE h == img.header
           k == KernelOf
           r == RamdiskOf(h)
           s == SecondOf(h)
           H == Sized(h, k, r, s)
           size == IF img.size = 0 THEN TotalSize(Loaded.header) ELSE img.size
<1>1. pc = "images" /\ UNCHANGED <<file, device, args, tail, out, commands, before, given>>
  BY DEF UpdateImages
<1>2. img \in Images /\ args \in Arguments /\ file \in Seq(Cell) /\ args.command \in {"create", "update"}
  BY <1>1, BootAssumption DEF BInv, Types, Commanded, Running, Parts
<1>3. CASE End("refused") /\ UNCHANGED img
  BY <1>1, <1>2, <1>3, GivenUp
<1>4. CASE /\ h.page_size # 0 /\ CanCopy
           /\ img' = [Loaded EXCEPT !.size = size]
           /\ IF TooBig(Loaded.header, size) THEN End("refused") ELSE pc' = "header" /\ UNCHANGED status
  <2>1. /\ h \in Headers /\ h.page_size > 0 /\ {k, r, s} \subseteq Parts
        /\ args.kernel = NULL <=> k = NULL
        /\ args.ramdisk = NULL /\ args.kernel = NULL <=> r = NULL
        /\ s = NULL <=> args.second = NULL /\ (h.second_size = 0 \/ (args.kernel = NULL /\ args.ramdisk = NULL))
        /\ Loaded = [img EXCEPT !.kernel = k, !.ramdisk = r, !.second = s, !.header = H]
    BY <1>2, <1>4, LoadedFacts
  <2>2. H \in Headers
    <3> HIDE DEF k, r, s, h
    <3>1. h \in Headers /\ k \in Parts /\ r \in Parts /\ s \in Parts
      BY <2>1
    <3> QED BY <3>1, SizedType
  <2>3. /\ H.page_size = h.page_size /\ H.info = h.info
        /\ H.kernel_size = IF k = NULL THEN h.kernel_size ELSE Len(k)
        /\ H.ramdisk_size = IF r = NULL THEN h.ramdisk_size ELSE Len(r)
        /\ H.second_size = IF s = NULL THEN h.second_size ELSE Len(s)
    <3> HIDE DEF k, r, s, h
    <3>1. h \in Headers /\ k \in Parts /\ r \in Parts /\ s \in Parts
      BY <2>1
    <3> QED BY <3>1, SizedFacts
  <2>4. TotalSize(H) \in Nat
    <3>1. H.page_size > 0
      BY <2>1, <2>3
    <3> HIDE DEF H
    <3> QED BY <2>2, <3>1, Offsets
  <2>5. Loaded.header = H /\ size \in Nat /\ size = IF img.size = 0 THEN TotalSize(H) ELSE img.size
    <3>1. Loaded.header = H
      BY <1>2, <2>1 DEF Images
    <3>2. img.size \in Nat
      BY <1>2 DEF Images
    <3> HIDE DEF H
    <3> QED BY <2>4, <3>1, <3>2
  <2>6. /\ img' = [size |-> size, kernel |-> k, ramdisk |-> r, second |-> s, header |-> H]
        /\ img' \in Images
    <3> HIDE DEF k, r, s, H, h, size
    <3>1. img' = [[img EXCEPT !.kernel = k, !.ramdisk = r, !.second = s, !.header = H] EXCEPT !.size = size]
      BY <1>4, <2>1
    <3>2. img' = [size |-> size, kernel |-> k, ramdisk |-> r, second |-> s, header |-> H]
      BY <1>2, <3>1 DEF Images
    <3> QED BY <2>1, <2>2, <2>5, <3>2 DEF Images
  <2>7. CASE End("refused")
    BY <1>1, <2>6, <2>7, GivenUp
  <2>8. CASE ~TooBig(H, size) /\ pc' = "header" /\ UNCHANGED status
    <3>1. Types'
      BY <1>1, <2>6, <2>8 DEF BInv, Types
    <3>2. size >= TotalSize(H)
      <4> HIDE DEF H, size
      <4> QED BY <2>4, <2>5, <2>8 DEF TooBig
    <3>3. img'.size = size /\ img'.kernel = k /\ img'.ramdisk = r /\ img'.second = s /\ img'.header = H
      BY <2>6
    <3>4. Commanded'
      <4>1. device => img'.size = img.size
        <5>1. device => img.size = Len(file) /\ Len(file) # 0
          BY <1>1, BootAssumption DEF BInv, Types, Commanded, Running
        <5> HIDE DEF H, size
        <5> QED BY <2>5, <3>3, <5>1
      <4> HIDE DEF H, size
      <4> QED BY <1>1, <2>8, <4>1 DEF BInv, Commanded, Running, Writing
    <3> HIDE DEF k, r, s, H, h, size
    <3>5. Prepared'
      BY <2>8 DEF Prepared
    <3>6. PartsLoaded'
      <4>1. k # NULL => r # NULL
        BY <2>1
      <4>2. r # NULL /\ H.second_size # 0 => s # NULL
        BY <2>1, <2>3
      <4>3. H.page_size > 0
        BY <2>1, <2>3
      <4> QED BY <2>3, <3>2, <3>3, <4>1, <4>2, <4>3 DEF PartsLoaded
    <3>7. TailFits'
      BY <2>8 DEF TailFits
    <3>8. Promise' = Promise /\ (Owed' => Owed)
      BY <1>1 DEF Promise, Owed
    <3>9. Owed => Promising(H, k, r, s, Promise)
      <4> SUFFICES ASSUME Owed PROVE Promising(H, k, r, s, Promise)
        OBVIOUS
      <4>1. h = Asked(Old)
        BY <1>1 DEF BInv, Prepared, h
      <4>2. CASE args.command = "create"
        <5>1. args.kernel # NULL /\ args.ramdisk # NULL
          BY <1>1, <4>2 DEF BInv, Commanded, Running
        <5>2. h = Asked(NoImage.header) /\ h = img.header
          BY <4>1, <4>2 DEF Old, h
        <5> QED BY <1>2, <1>4, <4>2, <5>1, <5>2, CreatePromises DEF H, k, r, s
      <4>3. CASE args.command = "update"
        <5>1. /\ file = before /\ HeaderOf(file) # NULL /\ ValidHeader(HeaderOf(file), Len(file))
              /\ file # <<>> => file[1] \in First
          BY <1>1, <1>2, <4>3, CellFacts DEF BInv, Types, Commanded, Prepared
        <5>2. HeaderOf(file) \in Headers
          BY <1>2, <5>1, HeaderFacts
        <5>3. given # NULL /\ ~given.repaged /\ ~Promise.repaged
          BY <4>3 DEF Owed, Promise
        <5>4. Holds(file, given)
          BY <1>1, <5>1, <5>3 DEF BInv, Kept, Running
        <5>5. h = Asked(HeaderOf(file)) /\ h = img.header
          BY <4>1, <4>3 DEF Old, h
        <5> QED BY <1>2, <1>4, <4>3, <5>1, <5>2, <5>3, <5>4, <5>5, UpdatePromises DEF H, k, r, s
      <4> QED BY <1>2, <4>2, <4>3
    <3>10. Announced'
      BY <3>3, <3>8, <3>9 DEF Announced, Promising
    <3>11. Flushed' = file
      <4>1. tail = NoTail
        BY <1>1 DEF BInv, Commanded, Writing
      <4>2. Flushed' = WriteAt(file, 0, <<>>)
        BY <1>1, <4>1 DEF Flushed, WriteAt, NoTail
      <4> QED BY <1>2, <4>2, WriteNothing
    <3>12. Written'
      BY <2>8, <3>3, <3>8, <3>9, <3>11 DEF Written, Promising
    <3>13. Kept'
      BY <1>1, <2>8 DEF BInv, Kept, Running, Holds
    <3>14. Extracted' /\ SizeAsAsked'
      BY <2>8 DEF Extracted, Settled, SizeAsAsked
    <3> QED BY <3>1, <3>4, <3>5, <3>6, <3>7, <3>10, <3>12, <3>13, <3>14 DEF BInv
  <2> QED BY <1>4, <2>5, <2>7, <2>8
<1> QED BY <1>3, <1>4 DEF UpdateImages

-----------------------------------------------------------------------------
LEMMA FlushedFacts ==
  ASSUME BInv, file # NULL
  PROVE  /\ file \in Seq(Cell) /\ Flushed \in Seq(Cell)
         /\ device => Len(Flushed) = Len(file)
         /\ Flushed # <<>> => Flushed[1] \in First
         /\ Writing /\ pc # "header" => Flushed # <<>> /\ Flushed[1] = <<"header", img.header>>
         /\ ~Writing \/ pc = "header" => Flushed = file
<1>1. /\ file \in Seq(Cell) /\ (file # <<>> => file[1] \in First)
      /\ tail.at \in Nat /\ tail.cells \in Seq(Cell) /\ img.header \in Headers
      /\ device \in BOOLEAN /\ (device => Len(file) > 0)
  BY BootAssumption DEF BInv, Types, Parts, Images
<1>2. /\ Flushed \in Seq(Cell)
      /\ Len(Flushed) = IF ~device /\ tail.cells # <<>> /\ tail.at + Len(tail.cells) > Len(file)
                        THEN tail.at + Len(tail.cells) ELSE Len(file)
      /\ \A k \in 1 .. Len(Flushed) :
           Flushed[k] = IF tail.at < k /\ k =< tail.at + Len(tail.cells) THEN tail.cells[k - tail.at]
                        ELSE IF k =< Len(file) THEN file[k] ELSE Zero
  BY <1>1, WriteAtFacts DEF Flushed
<1>3. ~Writing \/ pc = "header" => Flushed = file
  BY <1>1, WriteNothing DEF BInv, Commanded, Flushed, NoTail
<1>4. ASSUME Writing, pc # "header" PROVE Flushed # <<>> /\ Flushed[1] = <<"header", img.header>>
  <2> DEFINE head == <<"header", img.header>>
             F == Flushed
             e == Len(tail.cells)
  <2>1. \/ tail.at = 0 /\ tail.cells # <<>> /\ tail.cells[1] = head
        \/ tail.at > 0 /\ file # <<>> /\ file[1] = head
    BY <1>4 DEF BInv, TailFits
  <2>2. (tail.cells # <<>> => e > 0) /\ e \in Nat /\ (file # <<>> => Len(file) > 0) /\ Len(file) \in Nat
    BY <1>1
  <2>3. F \in Seq(Cell) /\ Len(F) > 0
    BY <1>1, <1>2, <2>1, <2>2
  <2>4. F # <<>> /\ 1 \in 1 .. Len(F)
    BY <2>3
  <2>5. F[1] = IF tail.at < 1 /\ 1 =< tail.at + e THEN tail.cells[1 - tail.at]
               ELSE IF 1 =< Len(file) THEN file[1] ELSE Zero
    BY <1>2, <2>4
  <2> HIDE DEF head, F, e
  <2>6. F[1] = head
    <3>1. CASE tail.at = 0 /\ tail.cells # <<>> /\ tail.cells[1] = head
      <4>1. tail.at < 1 /\ 1 =< tail.at + e /\ 1 - tail.at = 1
        BY <2>2, <3>1
      <4> QED BY <2>5, <3>1, <4>1
    <3>2. CASE tail.at > 0 /\ file # <<>> /\ file[1] = head
      <4>1. ~(tail.at < 1) /\ 1 =< Len(file)
        BY <1>1, <2>2, <3>2
      <4> QED BY <2>5, <3>2, <4>1
    <3> QED BY <2>1, <3>1, <3>2
  <2> QED BY <2>4, <2>6 DEF F, head
<1>5. Flushed # <<>> => Flushed[1] \in First
  BY <1>1, <1>3, <1>4, CellFacts
<1> QED BY <1>1, <1>2, <1>3, <1>4, <1>5

\* What the steps of write_bootimg have in common.
LEMMA WriteStep ==
  ASSUME BInv, Writing, pc' \in {"ramdisk", "second", "truncate"},
         UNCHANGED <<device, args, img, status, out, commands, before, given>>,
         file' \in {file, Flushed}, tail' \in [at : Nat, cells : Seq(Cell)],
         TailFits', Written'
  PROVE  BInv'
<1>1. file # NULL /\ args \in Arguments /\ Running
  BY DEF BInv, Commanded, Running, Writing
<1>2. /\ file' \in Seq(Cell) /\ (device => Len(file') = Len(file))
      /\ file' # <<>> => file'[1] \in First
  BY <1>1, FlushedFacts DEF BInv, Types
<1>3. file' # NULL
  BY <1>2, CellFacts
<1>4. Types'
  BY <1>2, <1>3 DEF BInv, Types, Parts, Writing
<1>5. Commanded'
  BY <1>1, <1>2, <1>3 DEF BInv, Commanded, Running, Writing
<1>6. Prepared'
  BY DEF Prepared
<1>7. PartsLoaded'
  BY DEF BInv, PartsLoaded, Writing
<1>8. Announced'
  <2>1. Promise' = Promise /\ (Owed' => Owed)
    BY DEF Promise, Owed
  <2> QED BY <2>1 DEF BInv, Announced
<1>9. Kept'
  BY <1>1 DEF BInv, Kept, Running, Holds
<1>10. Extracted' /\ SizeAsAsked'
  BY DEF Extracted, Settled, SizeAsAsked
<1> QED BY <1>4, <1>5, <1>6, <1>7, <1>8, <1>9, <1>10 DEF BInv

LEMMA WritingFacts ==
  ASSUME BInv, Writing
  PROVE  LET h == img.header
         IN /\ file # NULL /\ file \in Seq(Cell) /\ img.size \in Nat /\ device \in BOOLEAN
            /\ h \in Headers /\ h.page_size \in Nat /\ h.page_size > 0
            /\ {RamdiskAt(h), SecondAt(h), TotalSize(h)} \subseteq Nat
            /\ {h.kernel_size, h.ramdisk_size, h.second_size} \subseteq Nat
            /\ h.page_size + h.kernel_size =< RamdiskAt(h)
            /\ RamdiskAt(h) + h.ramdisk_size =< SecondAt(h)
            /\ SecondAt(h) + h.second_size =< TotalSize(h)
            /\ h.page_size =< TotalSize(h) /\ h.page_size + h.kernel_size =< TotalSize(h)
            /\ RamdiskAt(h) + h.ramdisk_size =< TotalSize(h)
            /\ TotalSize(h) =< img.size /\ (device => img.size = Len(file))
            /\ img.kernel # NULL => img.kernel \in Seq(Cell)
            /\ img.ramdisk # NULL => img.ramdisk \in Seq(Cell)
            /\ img.second # NULL => img.second \in Seq(Cell)
<1>1. /\ img \in Images /\ img.header \in Headers /\ img.header.page_size > 0
      /\ img.size >= TotalSize(img.header) /\ img.size \in Nat /\ device \in BOOLEAN
  BY DEF BInv, Types, PartsLoaded, Images
<1>2. file # NULL /\ file \in Seq(Cell) /\ (device => img.size = Len(file))
  BY DEF BInv, Types, Commanded, Running, Writing, Parts
<1>3. img.header.page_size \in Nat /\ {img.header.kernel_size, img.header.ramdisk_size, img.header.second_size} \subseteq Nat
  BY <1>1 DEF Headers
<1>4. /\ img.kernel # NULL => img.kernel \in Seq(Cell)
      /\ img.ramdisk # NULL => img.ramdisk \in Seq(Cell)
      /\ img.second # NULL => img.second \in Seq(Cell)
  BY <1>1 DEF Images, Parts
<1>5. /\ {RamdiskAt(img.header), SecondAt(img.header), TotalSize(img.header)} \subseteq Nat
      /\ img.header.page_size + img.header.kernel_size =< RamdiskAt(img.header)
      /\ RamdiskAt(img.header) + img.header.ramdisk_size =< SecondAt(img.header)
      /\ SecondAt(img.header) + img.header.second_size =< TotalSize(img.header)
  BY <1>1, Offsets
<1>6. TotalSize(img.header) =< img.size
  BY <1>1, <1>5
<1>7. /\ img.header.page_size =< TotalSize(img.header)
      /\ img.header.page_size + img.header.kernel_size =< TotalSize(img.header)
      /\ RamdiskAt(img.header) + img.header.ramdisk_size =< TotalSize(img.header)
  BY <1>3, <1>5
<1> QED BY <1>1, <1>2, <1>3, <1>4, <1>5, <1>6, <1>7

\* With the promise, where the parts are and what is known of them.
LEMMA PromisedFacts ==
  ASSUME BInv, Writing, Owed
  PROVE  LET h == img.header
             P == Promise
         IN /\ P.kernel \in Seq(Cell) /\ P.ramdisk \in Seq(Cell) /\ P.second \in Seq(Cell)
            /\ Len(P.kernel) = h.kernel_size /\ Len(P.ramdisk) = h.ramdisk_size
            /\ Len(P.second) = h.second_size
            /\ img.kernel # NULL => img.kernel = P.kernel
            /\ img.ramdisk # NULL => img.ramdisk = P.ramdisk
            /\ img.second # NULL => img.second = P.second
BY DEF BInv, Announced

LEMMA WriteHeaderKeeps == ASSUME BInv, WriteHeader PROVE BInv'
<1> DEFINE h == img.header
           head == Head1(h)
           pad == PaddedPart(img.kernel, h.page_size)
           cells == IF img.kernel = NULL THEN head ELSE head \o pad
           P == Promise
<1>1. /\ pc = "header" /\ Writing /\ pc' = "ramdisk" /\ file' = Flushed
      /\ tail' = [at |-> 0, cells |-> cells]
      /\ UNCHANGED <<device, args, img, status, out, commands, before, given>>
  BY DEF WriteHeader, Put, Head1, Writing
<1>2. /\ file # NULL /\ file \in Seq(Cell) /\ img.size \in Nat /\ device \in BOOLEAN
      /\ h \in Headers /\ h.page_size \in Nat /\ h.page_size > 0
      /\ {RamdiskAt(h), SecondAt(h), TotalSize(h)} \subseteq Nat
      /\ {h.kernel_size, h.ramdisk_size, h.second_size} \subseteq Nat
      /\ h.page_size + h.kernel_size =< RamdiskAt(h)
      /\ RamdiskAt(h) + h.ramdisk_size =< SecondAt(h)
      /\ SecondAt(h) + h.second_size =< TotalSize(h)
      /\ h.page_size =< TotalSize(h) /\ h.page_size + h.kernel_size =< TotalSize(h)
      /\ RamdiskAt(h) + h.ramdisk_size =< TotalSize(h)
      /\ TotalSize(h) =< img.size /\ (device => img.size = Len(file))
      /\ img.kernel # NULL => img.kernel \in Seq(Cell)
  BY <1>1, WritingFacts
<1>3. Flushed = file
  BY <1>1, <1>2, FlushedFacts
<1>4. /\ head \in Seq(Cell) /\ Len(head) = h.page_size /\ head # <<>> /\ head[1] = <<"header", h>>
  BY <1>2, HeadFacts
<1>5. img.kernel # NULL => pad \in Seq(Cell) /\ InPlace(pad, 0, img.kernel)
  BY <1>2, PaddedFacts
<1>6. /\ cells \in Seq(Cell) /\ cells # <<>> /\ cells[1] = <<"header", h>>
      /\ img.kernel # NULL => InPlace(cells, h.page_size, img.kernel)
      /\ img.kernel = NULL => Len(cells) = h.page_size
  <2>1. CASE img.kernel = NULL
    BY <1>4, <2>1
  <2>2. CASE img.kernel # NULL
    <3> HIDE DEF head, pad
    <3>1. /\ head \o pad \in Seq(Cell) /\ head \o pad # <<>> /\ (head \o pad)[1] = head[1]
          /\ InPlace(head \o pad, Len(head), img.kernel)
      BY <1>2, <1>4, <1>5, <2>2, BehindHead
    <3> QED BY <1>4, <2>2, <3>1
  <2> QED BY <2>1, <2>2
<1> HIDE DEF cells
<1>7. TailFits'
  <2>1. tail'.at = 0 /\ tail'.cells = cells /\ img' = img
    BY <1>1
  <2>2. img.kernel = NULL => 0 + Len(cells) =< TotalSize(h)
    <3> HIDE DEF h
    <3> QED BY <1>2, <1>6
  <2>3. EndsAt(tail.at + Len(tail.cells))' <=> EndsAt(0 + Len(cells))
    BY <2>1 DEF EndsAt
  <2> QED BY <1>1, <1>6, <2>1, <2>2, <2>3 DEF TailFits, EndsAt
<1>8. Written'
  <2>1. P' = P /\ (Owed' => Owed)
    BY <1>1 DEF Promise, Owed
  <2>2. Flushed' = WriteAt(file, 0, cells)
    BY <1>1, <1>3 DEF Flushed, WriteAt
  <2> SUFFICES ASSUME Owed
               PROVE  /\ InPlace(Flushed', h.page_size, P.kernel)
                      /\ img.ramdisk = NULL => InPlace(Flushed', RamdiskAt(h), P.ramdisk)
                      /\ img.second = NULL => InPlace(Flushed', SecondAt(h), P.second)
    BY <1>1, <2>1 DEF Written
  <2>3. /\ P.kernel \in Seq(Cell) /\ P.ramdisk \in Seq(Cell) /\ P.second \in Seq(Cell)
        /\ Len(P.kernel) = h.kernel_size /\ Len(P.ramdisk) = h.ramdisk_size
        /\ Len(P.second) = h.second_size
        /\ img.kernel # NULL => img.kernel = P.kernel
    BY <1>1, PromisedFacts
  <2>4. /\ img.kernel = NULL => InPlace(file, h.page_size, P.kernel)
        /\ img.ramdisk = NULL => InPlace(file, RamdiskAt(h), P.ramdisk)
        /\ img.second = NULL => InPlace(file, SecondAt(h), P.second)
    BY <1>1, <1>3 DEF BInv, Written
  <2>5. /\ img.ramdisk = NULL => img.kernel = NULL
        /\ img.second = NULL => img.ramdisk = NULL \/ h.second_size = 0
    BY <1>1 DEF BInv, PartsLoaded
  <2> HIDE DEF h, P
  <2>6. InPlace(WriteAt(file, 0, cells), h.page_size, P.kernel)
    <3>1. CASE img.kernel = NULL
      <4>1. 0 + Len(cells) =< h.page_size /\ InPlace(file, h.page_size, P.kernel)
        BY <1>2, <1>6, <2>4, <3>1
      <4> QED BY <1>2, <1>6, <2>3, <4>1, InPlaceKept
    <3>2. CASE img.kernel # NULL
      <4>1. InPlace(cells, h.page_size, P.kernel)
        BY <1>6, <2>3, <3>2
      <4>2. device => 0 + h.page_size + Len(P.kernel) =< Len(file)
        <5>1. device => h.page_size + h.kernel_size =< Len(file)
          BY <1>2, SMTT(40)
        <5> QED BY <1>2, <2>3, <5>1
      <4>3. InPlace(WriteAt(file, 0, cells), 0 + h.page_size, P.kernel)
        BY <1>2, <1>6, <2>3, <4>1, <4>2, InPlaceWritten
      <4> QED BY <1>2, <4>3
    <3> QED BY <3>1, <3>2
  <2>7. img.ramdisk = NULL => InPlace(WriteAt(file, 0, cells), RamdiskAt(h), P.ramdisk)
    <3> SUFFICES ASSUME img.ramdisk = NULL PROVE InPlace(WriteAt(file, 0, cells), RamdiskAt(h), P.ramdisk)
      OBVIOUS
    <3>1. 0 + Len(cells) =< RamdiskAt(h) /\ InPlace(file, RamdiskAt(h), P.ramdisk) /\ RamdiskAt(h) \in Nat
      BY <1>2, <1>6, <2>4, <2>5
    <3> QED BY <1>2, <1>6, <2>3, <3>1, InPlaceKept
  <2>8. img.second = NULL => InPlace(WriteAt(file, 0, cells), SecondAt(h), P.second)
    <3> SUFFICES ASSUME img.second = NULL PROVE InPlace(WriteAt(file, 0, cells), SecondAt(h), P.second)
      OBVIOUS
    <3>1. CASE h.second_size = 0
      BY <2>3, <3>1, NothingInPlace
    <3>2. CASE img.ramdisk = NULL
      <4>1. 0 + Len(cells) =< SecondAt(h) /\ InPlace(file, SecondAt(h), P.second) /\ SecondAt(h) \in Nat
        BY <1>2, <1>6, <2>4, <2>5, <3>2
      <4> QED BY <1>2, <1>6, <2>3, <4>1, InPlaceKept
    <3> QED BY <2>5, <3>1, <3>2
  <2> QED BY <2>2, <2>6, <2>7, <2>8
<1>9. tail' \in [at : Nat, cells : Seq(Cell)]
  BY <1>1, <1>6
<1> QED BY <1>1, <1>7, <1>8, <1>9, WriteStep

LEMMA WriteRamdiskKeeps == ASSUME BInv, WriteRamdisk PROVE BInv'
<1> DEFINE h == img.header
           pad == PaddedPart(img.ramdisk, h.page_size)
           at == RamdiskAt(h)
           P == Promise
           F == Flushed
<1>1. /\ pc = "ramdisk" /\ Writing /\ pc' = "second"
      /\ UNCHANGED <<device, args, img, status, out, commands, before, given>>
  BY DEF WriteRamdisk, Put, Writing
<1>2. /\ file # NULL /\ file \in Seq(Cell) /\ img.size \in Nat /\ device \in BOOLEAN
      /\ h \in Headers /\ h.page_size \in Nat /\ h.page_size > 0
      /\ {at, SecondAt(h), TotalSize(h)} \subseteq Nat
      /\ {h.kernel_size, h.ramdisk_size, h.second_size} \subseteq Nat
      /\ h.page_size + h.kernel_size =< at
      /\ at + h.ramdisk_size =< SecondAt(h)
      /\ SecondAt(h) + h.second_size =< TotalSize(h)
      /\ h.page_size =< TotalSize(h) /\ h.page_size + h.kernel_size =< TotalSize(h)
      /\ RamdiskAt(h) + h.ramdisk_size =< TotalSize(h)
      /\ TotalSize(h) =< img.size /\ (device => img.size = Len(file))
      /\ img.ramdisk # NULL => img.ramdisk \in Seq(Cell)
  BY <1>1, WritingFacts
<1>3. /\ F \in Seq(Cell) /\ (device => Len(F) = Len(file))
      /\ F # <<>> /\ F[1] = <<"header", h>>
  BY <1>1, <1>2, FlushedFacts
<1>4. /\ img.ramdisk = NULL => img.kernel = NULL
      /\ img.second = NULL => img.ramdisk = NULL \/ h.second_size = 0
      /\ img.ramdisk # NULL => Len(img.ramdisk) = h.ramdisk_size
  BY <1>1 DEF BInv, PartsLoaded
<1>5. P' = P /\ (Owed' => Owed)
  BY <1>1 DEF Promise, Owed
<1>6. Owed => /\ InPlace(F, h.page_size, P.kernel)
              /\ img.ramdisk = NULL => InPlace(F, at, P.ramdisk)
              /\ img.second = NULL => InPlace(F, SecondAt(h), P.second)
  BY <1>1 DEF BInv, Written
<1>7. CASE img.ramdisk = NULL
  <2>1. UNCHANGED <<file, tail>>
    BY <1>7 DEF WriteRamdisk
  <2>2. tail' \in [at : Nat, cells : Seq(Cell)]
    BY <2>1 DEF BInv, Types
  <2>3. TailFits'
    BY <1>1, <1>4, <1>7, <2>1 DEF BInv, TailFits, EndsAt
  <2>4. Written'
    <3>1. Flushed' = F
      BY <1>1, <2>1 DEF Flushed, WriteAt
    <3> QED BY <1>1, <1>5, <1>6, <1>7, <3>1 DEF Written
  <2> QED BY <1>1, <2>1, <2>2, <2>3, <2>4, WriteStep
<1>8. CASE img.ramdisk # NULL
  <2>1. file' = F /\ tail' = [at |-> at, cells |-> pad]
    BY <1>8 DEF WriteRamdisk, Put
  <2>2. /\ pad \in Seq(Cell) /\ pad # <<>> /\ InPlace(pad, 0, img.ramdisk)
        /\ Len(pad) \in {Pages(h.ramdisk_size, h.page_size) * h.page_size,
                         Pages(h.ramdisk_size, h.page_size) * h.page_size + h.page_size}
    BY <1>2, <1>4, <1>8, PaddedFacts
  <2>3. tail' \in [at : Nat, cells : Seq(Cell)]
    BY <1>2, <2>1, <2>2
  <2>4. TailFits'
    <3>1. tail'.at = at /\ tail'.cells = pad /\ img' = img
      BY <1>1, <2>1
    <3>2. h.second_size = 0 => EndsAt(at + Len(pad))
      <4> DEFINE p == Pages(h.ramdisk_size, h.page_size) * h.page_size
      <4>1. at + p = SecondAt(h) /\ (h.second_size = 0 => SecondAt(h) = TotalSize(h))
        BY <1>2, Offsets
      <4>2. p \in Nat
        BY <1>2, PagesFacts
      <4> HIDE DEF p, at, pad, h
      <4>3. Len(pad) = p \/ Len(pad) = p + h.page_size
        BY <2>2 DEF p
      <4>4. h.second_size = 0 => at + Len(pad) = TotalSize(h) \/ at + Len(pad) = TotalSize(h) + h.page_size
        BY <1>2, <4>1, <4>2, <4>3
      <4> QED BY <1>2, <4>4 DEF EndsAt, h
    <3>3. EndsAt(tail.at + Len(tail.cells))' <=> EndsAt(at + Len(pad))
      BY <3>1 DEF EndsAt
    <3>4. at > 0
      BY <1>2
    <3>5. file' # <<>> /\ file'[1] = <<"header", h>>
      BY <1>3, <2>1
    <3> HIDE DEF at, pad, F
    <3> QED BY <1>1, <1>8, <3>1, <3>2, <3>3, <3>4, <3>5 DEF TailFits
  <2>5. Written'
    <3>1. Flushed' = WriteAt(F, at, pad)
      <4>1. Flushed' = WriteAt(file', tail'.at, tail'.cells)
        BY <1>1 DEF Flushed, WriteAt
      <4> HIDE DEF F, at, pad
      <4> QED BY <2>1, <4>1
    <3> SUFFICES ASSUME Owed
                 PROVE  /\ InPlace(Flushed', h.page_size, P.kernel)
                        /\ InPlace(Flushed', at, P.ramdisk)
                        /\ img.second = NULL => InPlace(Flushed', SecondAt(h), P.second)
      BY <1>1, <1>5 DEF Written
    <3>2. /\ P.kernel \in Seq(Cell) /\ P.ramdisk \in Seq(Cell) /\ P.second \in Seq(Cell)
          /\ Len(P.kernel) = h.kernel_size /\ Len(P.ramdisk) = h.ramdisk_size
          /\ Len(P.second) = h.second_size /\ img.ramdisk = P.ramdisk
      BY <1>1, <1>8, PromisedFacts
    <3> HIDE DEF h, P, F, at, pad
    <3>3. InPlace(WriteAt(F, at, pad), h.page_size, P.kernel)
      <4>1. /\ InPlace(F, h.page_size, P.kernel) /\ h.page_size + Len(P.kernel) =< at
            /\ at \in Nat
        BY <1>2, <1>6, <3>2
      <4> QED BY <1>2, <1>3, <2>2, <3>2, <4>1, InPlaceKept
    <3>4. InPlace(WriteAt(F, at, pad), at, P.ramdisk)
      <4>1. InPlace(pad, 0, P.ramdisk)
        BY <2>2, <3>2
      <4>2. at \in Nat /\ (device => at + 0 + Len(P.ramdisk) =< Len(F))
        <5>1. device => at + h.ramdisk_size =< Len(F)
          BY <1>2, <1>3 DEF at
        <5> QED BY <1>2, <3>2, <5>1
      <4>3. InPlace(WriteAt(F, at, pad), at + 0, P.ramdisk)
        BY <1>3, <2>2, <3>2, <4>1, <4>2, InPlaceWritten
      <4> QED BY <4>2, <4>3
    <3>5. img.second = NULL => InPlace(WriteAt(F, at, pad), SecondAt(h), P.second)
      BY <1>4, <1>8, <3>2, NothingInPlace
    <3> QED BY <3>1, <3>3, <3>4, <3>5
  <2> QED BY <1>1, <2>1, <2>3, <2>4, <2>5, WriteStep
<1> QED BY <1>7, <1>8

LEMMA WriteSecondKeeps == ASSUME BInv, WriteSecond PROVE BInv'
<1> DEFINE h == img.header
           pad == PaddedPart(img.second, h.page_size)
           at == SecondAt(h)
           P == Promise
           F == Flushed
<1>1. pc = "second" /\ Writing /\ UNCHANGED <<device, args, img, out, commands, before>>
  BY DEF WriteSecond, Put, Writing
<1>2. /\ file # NULL /\ file \in Seq(Cell) /\ img.size \in Nat /\ device \in BOOLEAN
      /\ h \in Headers /\ h.page_size \in Nat /\ h.page_size > 0
      /\ {RamdiskAt(h), at, TotalSize(h)} \subseteq Nat
      /\ {h.kernel_size, h.ramdisk_size, h.second_size} \subseteq Nat
      /\ h.page_size + h.kernel_size =< RamdiskAt(h)
      /\ RamdiskAt(h) + h.ramdisk_size =< at
      /\ at + h.second_size =< TotalSize(h)
      /\ TotalSize(h) =< img.size /\ (device => img.size = Len(file))
      /\ img.second # NULL => img.second \in Seq(Cell)
  BY <1>1, WritingFacts
<1>3. /\ F \in Seq(Cell) /\ (device => Len(F) = Len(file))
      /\ F # <<>> /\ F[1] = <<"header", h>>
  BY <1>1, <1>2, FlushedFacts
<1>4. img.second # NULL => Len(img.second) = h.second_size
  BY <1>1 DEF BInv, PartsLoaded
<1>5. Owed => /\ InPlace(F, h.page_size, P.kernel)
              /\ InPlace(F, RamdiskAt(h), P.ramdisk)
  BY <1>1 DEF BInv, Written
<1>6. Owed => /\ P.kernel \in Seq(Cell) /\ P.ramdisk \in Seq(Cell) /\ P.second \in Seq(Cell)
              /\ Len(P.kernel) = h.kernel_size /\ Len(P.ramdisk) = h.ramdisk_size
              /\ Len(P.second) = h.second_size
              /\ img.second # NULL => img.second = P.second
  BY <1>1, PromisedFacts
<1>7. CASE h.second_size = 0 /\ pc' = "truncate" /\ UNCHANGED <<file, status, tail, given>>
  <2>1. P' = P /\ (Owed' => Owed)
    BY <1>1, <1>7 DEF Promise, Owed
  <2>2. tail' \in [at : Nat, cells : Seq(Cell)]
    BY <1>7 DEF BInv, Types
  <2>3. TailFits'
    BY <1>1, <1>7 DEF BInv, TailFits, EndsAt
  <2>4. Written'
    <3>1. Flushed' = F
      BY <1>1, <1>7 DEF Flushed, WriteAt
    <3>2. Owed => InPlace(F, at, P.second)
      <4> HIDE DEF F, P, at, h
      <4> QED BY <1>6, <1>7, NothingInPlace
    <3> QED BY <1>1, <1>5, <1>7, <2>1, <3>1, <3>2 DEF Written
  <2> QED BY <1>1, <1>7, <2>2, <2>3, <2>4, WriteStep
<1>8. CASE /\ h.second_size # 0 /\ img.second = NULL /\ file' = Flushed /\ tail' = NoTail
           /\ given' = IF given = NULL THEN NULL ELSE Promise
           /\ pc' = "exited" /\ status' \in {"crashed", "refused"}
  <2>1. args.command \in {"create", "update"}
    BY <1>1, BootAssumption DEF BInv, Commanded, Running
  <2>2. file' \in Seq(Cell) /\ file' # NULL /\ file'[1] \in First /\ (device => Len(file') = Len(file))
    BY <1>2, <1>3, <1>8, CellFacts
  <2>3. NoTail \in [at : Nat, cells : Seq(Cell)]
    BY DEF NoTail
  <2>4. Types'
    BY <1>1, <1>8, <2>2, <2>3 DEF BInv, Types, Parts
  <2>5. Commanded' /\ Prepared' /\ PartsLoaded' /\ TailFits' /\ Announced' /\ Written'
    BY <1>8 DEF Commanded, Running, Writing, Prepared, PartsLoaded, TailFits, Announced, Written
  <2>6. Kept'
    <3> SUFFICES ASSUME given' # NULL, ~given'.repaged PROVE Holds(F, P)
      BY <1>8 DEF Kept, Running, Holds
    <3>1. given' = P /\ Owed
      BY <1>8 DEF Owed
    <3>2. InPlace(F, h.page_size, P.kernel) /\ InPlace(F, RamdiskAt(h), P.ramdisk) /\ InPlace(F, at, P.second)
      BY <1>1, <1>8, <3>1 DEF BInv, Written
    <3>3. h.page_size = P.page /\ h.info = P.info
      BY <1>1, <3>1 DEF BInv, Announced
    <3>4. HeaderOf(F) = h
      BY <1>2, <1>3, HeaderFound
    <3>5. SecondAt(h) + h.second_size =< Len(F)
      <4>1. InPlace(F, at, P.second) /\ Len(P.second) = h.second_size /\ h.second_size \in Nat /\ h.second_size # 0
        BY <1>2, <1>6, <1>8, <3>1, <3>2
      <4> HIDE DEF P, F, h
      <4>2. h.second_size \in 1 .. Len(P.second)
        BY <4>1
      <4> QED BY <4>1, <4>2 DEF InPlace
    <3> HIDE DEF F, P, h
    <3> QED BY <1>2, <1>3, <1>6, <3>1, <3>2, <3>3, <3>4, <3>5, HoldsIf
  <2>7. Extracted' /\ SizeAsAsked'
    BY <1>1, <1>8, <2>1 DEF Extracted, SizeAsAsked
  <2> QED BY <2>4, <2>5, <2>6, <2>7 DEF BInv
<1>9. CASE /\ img.second # NULL /\ UNCHANGED <<status, given>>
           /\ file' = Flushed /\ tail' = [at |-> at, cells |-> pad] /\ pc' = "truncate"
  <2>1. P' = P /\ (Owed' => Owed)
    BY <1>1, <1>9 DEF Promise, Owed
  <2>2. /\ pad \in Seq(Cell) /\ pad # <<>> /\ InPlace(pad, 0, img.second)
        /\ Len(pad) \in {Pages(h.second_size, h.page_size) * h.page_size,
                         Pages(h.second_size, h.page_size) * h.page_size + h.page_size}
    BY <1>2, <1>4, <1>9, PaddedFacts
  <2>3. tail' \in [at : Nat, cells : Seq(Cell)]
    BY <1>2, <1>9, <2>2
  <2>4. TailFits'
    <3>1. tail'.at = at /\ tail'.cells = pad /\ img' = img
      BY <1>1, <1>9
    <3>2. EndsAt(at + Len(pad))
      <4> DEFINE p == Pages(h.second_size, h.page_size) * h.page_size
      <4>1. at + p = TotalSize(h)
        BY <1>2, Offsets
      <4>2. p \in Nat
        BY <1>2, PagesFacts
      <4> HIDE DEF p, at, pad, h
      <4>3. Len(pad) = p \/ Len(pad) = p + h.page_size
        BY <2>2 DEF p
      <4>4. at + Len(pad) = TotalSize(h) \/ at + Len(pad) = TotalSize(h) + h.page_size
        BY <1>2, <4>1, <4>2, <4>3, SMTT(40)
      <4> QED BY <1>2, <4>4 DEF EndsAt, h
    <3>3. EndsAt(tail.at + Len(tail.cells))' <=> EndsAt(at + Len(pad))
      BY <3>1 DEF EndsAt
    <3>4. at > 0
      BY <1>2
    <3>5. file' # <<>> /\ file'[1] = <<"header", h>>
      BY <1>3, <1>9
    <3> HIDE DEF at, pad, F
    <3> QED BY <1>1, <1>9, <3>1, <3>2, <3>3, <3>4, <3>5 DEF TailFits
  <2>5. Written'
    <3>1. Flushed' = WriteAt(F, at, pad)
      <4>1. Flushed' = WriteAt(file', tail'.at, tail'.cells)
        BY <1>1 DEF Flushed, WriteAt
      <4>2. file' = F
        BY <1>9
      <4> HIDE DEF F, at, pad
      <4> QED BY <1>9, <4>1, <4>2
    <3> SUFFICES ASSUME Owed
                 PROVE  /\ InPlace(Flushed', h.page_size, P.kernel)
                        /\ InPlace(Flushed', RamdiskAt(h), P.ramdisk)
                        /\ InPlace(Flushed', at, P.second)
      BY <1>1, <2>1 DEF Written
    <3> HIDE DEF h, P, F, at, pad
    <3>2. InPlace(WriteAt(F, at, pad), h.page_size, P.kernel)
      <4>1. /\ InPlace(F, h.page_size, P.kernel) /\ h.page_size + Len(P.kernel) =< at
            /\ at \in Nat
        BY <1>2, <1>5, <1>6, SMTT(40)
      <4> QED BY <1>2, <1>3, <1>6, <2>2, <4>1, InPlaceKept
    <3>3. InPlace(WriteAt(F, at, pad), RamdiskAt(h), P.ramdisk)
      <4>1. /\ InPlace(F, RamdiskAt(h), P.ramdisk) /\ RamdiskAt(h) + Len(P.ramdisk) =< at
            /\ at \in Nat /\ RamdiskAt(h) \in Nat
        BY <1>2, <1>5, <1>6
      <4> QED BY <1>3, <1>6, <2>2, <4>1, InPlaceKept
    <3>4. InPlace(WriteAt(F, at, pad), at, P.second)
      <4>1. InPlace(pad, 0, P.second)
        BY <1>6, <1>9, <2>2
      <4>2. at \in Nat /\ (device => at + 0 + Len(P.second) =< Len(F))
        <5>1. device => at + h.second_size =< Len(F)
          BY <1>2, <1>3 DEF at
        <5> QED BY <1>2, <1>6, <5>1
      <4>3. InPlace(WriteAt(F, at, pad), at + 0, P.second)
        BY <1>3, <1>6, <2>2, <4>1, <4>2, InPlaceWritten
      <4> QED BY <4>2, <4>3
    <3> QED BY <3>1, <3>2, <3>3, <3>4
  <2> QED BY <1>1, <1>9, <2>3, <2>4, <2>5, WriteStep
<1> QED BY <1>1, <1>7, <1>8, <1>9 DEF WriteSecond, Put, End

\* The image after ftruncate and exit, when stdio writes the last n cells late ...
LateWrite(d, at, cells, n, size) ==
  LET early == SubSeq(cells, 1, Len(cells) - n)
      late  == SubSeq(cells, Len(cells) - n + 1, Len(cells))
  IN WriteAt(Truncate(WriteAt(d, at, early), size), at + Len(early), late)

\* ... differs from the one written in time at most in its length.
LEMMA LateWriteFacts ==
  ASSUME NEW d \in Seq(Cell), NEW at \in Nat, NEW cells \in Seq(Cell), NEW n \in 0 .. Len(cells),
         NEW size \in Nat, device \in BOOLEAN, device => size = Len(d)
  PROVE  /\ LateWrite(d, at, cells, n, size) \in Seq(Cell)
         /\ size =< Len(LateWrite(d, at, cells, n, size))
         /\ device => Len(LateWrite(d, at, cells, n, size)) = size
         /\ \/ Len(LateWrite(d, at, cells, n, size)) = size
            \/ Len(LateWrite(d, at, cells, n, size)) = at + Len(cells)
         /\ \A k \in 1 .. size : k =< Len(WriteAt(d, at, cells)) =>
              LateWrite(d, at, cells, n, size)[k] = WriteAt(d, at, cells)[k]
<1> DEFINE c     == Len(cells)
           e     == c - n
           early == SubSeq(cells, 1, e)
           late  == SubSeq(cells, e + 1, c)
           full  == WriteAt(d, at, cells)
           t1    == WriteAt(d, at, early)
           t2    == Truncate(t1, size)
           N     == WriteAt(t2, at + e, late)
<1>1. /\ c \in Nat /\ n \in Nat /\ e \in Nat /\ c = e + n /\ Len(d) \in Nat
      /\ (cells # <<>> <=> c > 0)
  OBVIOUS
<1>2. /\ early \in Seq(Cell) /\ Len(early) = e /\ \A k \in 1 .. e : early[k] = cells[k]
      /\ late \in Seq(Cell) /\ Len(late) = n /\ \A k \in 1 .. n : late[k] = cells[e + k]
      /\ (early # <<>> <=> e > 0) /\ (late # <<>> <=> n > 0)
  <2>1. /\ early \in Seq(Cell) /\ Len(early) = e /\ \A k \in 1 .. e : early[k] = cells[k]
    OBVIOUS
  <2>2. /\ late \in Seq(Cell) /\ Len(late) = n /\ \A k \in 1 .. n : late[k] = cells[e + k]
    OBVIOUS
  <2> HIDE DEF early, late
  <2> QED BY <1>1, <2>1, <2>2
<1>0. LateWrite(d, at, cells, n, size) = N
  BY <1>2 DEF LateWrite
<1> HIDE DEF early, late, e, c
<1>3. /\ full \in Seq(Cell)
      /\ Len(full) = IF ~device /\ cells # <<>> /\ at + c > Len(d) THEN at + c ELSE Len(d)
      /\ \A k \in 1 .. Len(full) : full[k] = IF at < k /\ k =< at + c THEN cells[k - at]
                                             ELSE IF k =< Len(d) THEN d[k] ELSE Zero
  BY WriteAtFacts DEF c
<1>4. /\ t1 \in Seq(Cell)
      /\ Len(t1) = IF ~device /\ early # <<>> /\ at + e > Len(d) THEN at + e ELSE Len(d)
      /\ \A k \in 1 .. Len(t1) : t1[k] = IF at < k /\ k =< at + e THEN early[k - at]
                                         ELSE IF k =< Len(d) THEN d[k] ELSE Zero
  <2>1. early \in Seq(Cell) /\ Len(early) = e
    BY <1>2
  <2>2. /\ t1 \in Seq(Cell)
        /\ Len(t1) = IF ~device /\ early # <<>> /\ at + Len(early) > Len(d)
                     THEN at + Len(early) ELSE Len(d)
        /\ \A k \in 1 .. Len(t1) : t1[k] = IF at < k /\ k =< at + Len(early) THEN early[k - at]
                                           ELSE IF k =< Len(d) THEN d[k] ELSE Zero
    BY <2>1, WriteAtFacts
  <2> HIDE DEF t1
  <2> QED BY <2>1, <2>2
<1> HIDE DEF full, t1
<1>5. /\ t2 \in Seq(Cell)
      /\ Len(t2) = size
      /\ \A k \in 1 .. Len(t2) : t2[k] = IF k =< Len(t1) THEN t1[k] ELSE Zero
  BY <1>4, TruncateFacts
<1> HIDE DEF t2
<1>6. /\ N \in Seq(Cell)
      /\ Len(N) = IF ~device /\ late # <<>> /\ at + e + n > size THEN at + e + n ELSE size
      /\ \A k \in 1 .. Len(N) : N[k] = IF at + e < k /\ k =< at + e + n THEN late[k - (at + e)]
                                       ELSE IF k =< size THEN t2[k] ELSE Zero
  <2> DEFINE a == at + e
  <2>1. a \in Nat
    BY <1>1
  <2> HIDE DEF a
  <2>2. /\ WriteAt(t2, a, late) \in Seq(Cell)
        /\ Len(WriteAt(t2, a, late)) =
             IF ~device /\ late # <<>> /\ a + Len(late) > Len(t2) THEN a + Len(late) ELSE Len(t2)
        /\ \A k \in 1 .. Len(WriteAt(t2, a, late)) :
             WriteAt(t2, a, late)[k] = IF a < k /\ k =< a + Len(late) THEN late[k - a]
                                       ELSE IF k =< Len(t2) THEN t2[k] ELSE Zero
    BY <1>2, <1>5, <2>1, WriteAtFacts, ZenonT(40)
  <2>3. N = WriteAt(t2, a, late) /\ Len(late) = n /\ Len(t2) = size
    BY <1>2, <1>5 DEF a
  <2> HIDE DEF N
  <2>4. /\ N \in Seq(Cell)
        /\ Len(N) = IF ~device /\ late # <<>> /\ a + n > size THEN a + n ELSE size
        /\ \A k \in 1 .. Len(N) : N[k] = IF a < k /\ k =< a + n THEN late[k - a]
                                         ELSE IF k =< size THEN t2[k] ELSE Zero
    BY <2>2, <2>3
  <2> QED BY <2>4 DEF a
<1> HIDE DEF N
<1>7. size =< Len(N) /\ (device => Len(N) = size) /\ (Len(N) = size \/ Len(N) = at + c)
  BY <1>1, <1>6
<1>8. ASSUME NEW k \in 1 .. size, k =< Len(full) PROVE N[k] = full[k]
  <2>1. k \in Nat /\ k \in 1 .. Len(N) /\ k \in 1 .. Len(t2) /\ k \in 1 .. Len(full) /\ Len(t1) \in Nat
    BY <1>3, <1>4, <1>5, <1>6, <1>7, <1>8
  <2>2. full[k] = IF at < k /\ k =< at + c THEN cells[k - at] ELSE IF k =< Len(d) THEN d[k] ELSE Zero
    BY <1>3, <2>1
  <2>3. CASE at + e < k /\ k =< at + e + n
    <3>1. N[k] = late[k - (at + e)]
      BY <1>6, <2>1, <2>3
    <3>2. k - (at + e) \in 1 .. n /\ e + (k - (at + e)) = k - at /\ at < k /\ k =< at + c
      BY <1>1, <2>1, <2>3
    <3>3. late[k - (at + e)] = cells[k - at]
      BY <1>2, <3>2
    <3> QED BY <2>2, <3>1, <3>2, <3>3
  <2>4. CASE ~(at + e < k /\ k =< at + e + n)
    <3>1. N[k] = IF k =< Len(t1) THEN t1[k] ELSE Zero
      BY <1>5, <1>6, <2>1, <2>4
    <3>2. CASE at < k /\ k =< at + c
      <4>1. k =< at + e /\ e > 0 /\ k - at \in 1 .. e
        BY <1>1, <2>1, <2>4, <3>2
      <4>2. k =< Len(t1)
        BY <1>1, <1>2, <1>3, <1>4, <2>1, <4>1
      <4>3. t1[k] = early[k - at]
        BY <1>4, <2>1, <3>2, <4>1, <4>2
      <4>4. early[k - at] = cells[k - at]
        BY <1>2, <4>1
      <4> QED BY <2>2, <3>1, <3>2, <4>2, <4>3, <4>4
    <3>3. CASE ~(at < k /\ k =< at + c)
      <4>1. ~(at < k /\ k =< at + e)
        BY <1>1, <2>1, <3>3
      <4>2. k =< Len(t1) => t1[k] = IF k =< Len(d) THEN d[k] ELSE Zero
        BY <1>4, <2>1, <4>1
      <4>3. k =< Len(d) => k =< Len(t1)
        BY <1>1, <1>4, <2>1
      <4> QED BY <2>2, <3>1, <3>3, <4>2, <4>3
    <3> QED BY <3>2, <3>3
  <2> QED BY <2>3, <2>4
<1> QED BY <1>0, <1>6, <1>7, <1>8 DEF c, full

LEMMA FinishedFacts ==
  ASSUME BInv, Finish
  PROVE  /\ file' \in Seq(Cell) /\ img.size =< Len(file')
         /\ device => Len(file') = img.size
         /\ Len(file') = img.size \/ Len(file') = tail.at + Len(tail.cells)
         /\ \A k \in 1 .. img.size : k =< Len(Flushed) => file'[k] = Flushed[k]
         /\ status' \in {"ok", "refused"}
         /\ status' = "refused" => device /\ tail.at + Len(tail.cells) > Len(file)
<1> DEFINE h == img.header
           P == Promise
           F == Flushed
<1>1. pc = "truncate" /\ Writing /\ Running /\ UNCHANGED <<device, args, img, out, commands, before>>
      /\ pc' = "exited" /\ tail' = NoTail
      /\ given' = IF args.command = "update" /\ given = NULL THEN NULL ELSE Promise
  BY DEF Finish, End, Writing, Running
<1>2. /\ file # NULL /\ file \in Seq(Cell) /\ img.size \in Nat /\ device \in BOOLEAN
      /\ h \in Headers /\ h.page_size \in Nat /\ h.page_size > 0
      /\ {RamdiskAt(h), SecondAt(h), TotalSize(h)} \subseteq Nat
      /\ {h.kernel_size, h.ramdisk_size, h.second_size} \subseteq Nat
      /\ SecondAt(h) + h.second_size =< TotalSize(h)
      /\ h.page_size =< TotalSize(h) /\ h.page_size + h.kernel_size =< TotalSize(h)
      /\ RamdiskAt(h) + h.ramdisk_size =< TotalSize(h)
      /\ TotalSize(h) =< img.size /\ (device => img.size = Len(file))
  BY <1>1, WritingFacts
<1>3. /\ F \in Seq(Cell) /\ F # <<>> /\ F[1] = <<"header", h>>
  BY <1>1, <1>2, FlushedFacts
<1>4. tail.at \in Nat /\ tail.cells \in Seq(Cell) /\ Len(tail.cells) \in Nat
      /\ (\/ tail.at + Len(tail.cells) =< TotalSize(h)
          \/ tail.at + Len(tail.cells) = TotalSize(h) + h.page_size)
  BY <1>1 DEF BInv, Types, TailFits, EndsAt
<1>5. PICK n \in 0 .. Len(tail.cells) :
        LET early == SubSeq(tail.cells, 1, Len(tail.cells) - n)
            late  == SubSeq(tail.cells, Len(tail.cells) - n + 1, Len(tail.cells))
            noticed == device /\ tail.at + Len(early) > Len(file)
        IN /\ file' = WriteAt(Truncate(WriteAt(file, tail.at, early), img.size),
                              tail.at + Len(early), late)
           /\ End(IF noticed THEN "refused" ELSE "ok")
  BY DEF Finish
<1>6. /\ file' \in Seq(Cell) /\ img.size =< Len(file')
      /\ device => Len(file') = img.size
      /\ Len(file') = img.size \/ Len(file') = tail.at + Len(tail.cells)
      /\ \A k \in 1 .. img.size : k =< Len(F) => file'[k] = F[k]
  <2> DEFINE N == LateWrite(file, tail.at, tail.cells, n, img.size)
  <2>1. file' = N /\ F = WriteAt(file, tail.at, tail.cells)
    BY <1>5 DEF LateWrite, Flushed
  <2>2. /\ file \in Seq(Cell) /\ tail.at \in Nat /\ tail.cells \in Seq(Cell)
        /\ n \in 0 .. Len(tail.cells) /\ img.size \in Nat /\ device \in BOOLEAN
        /\ device => img.size = Len(file)
    BY <1>2, <1>4
  <2> HIDE DEF F
  <2>3. /\ N \in Seq(Cell) /\ img.size =< Len(N)
        /\ device => Len(N) = img.size
        /\ Len(N) = img.size \/ Len(N) = tail.at + Len(tail.cells)
        /\ \A k \in 1 .. img.size : k =< Len(WriteAt(file, tail.at, tail.cells)) =>
                                      N[k] = WriteAt(file, tail.at, tail.cells)[k]
    <3>1. N \in Seq(Cell) /\ img.size =< Len(N)
      BY <2>2, LateWriteFacts
    <3>2. device => Len(N) = img.size
      BY <2>2, LateWriteFacts, ZenonT(40)
    <3>3. Len(N) = img.size \/ Len(N) = tail.at + Len(tail.cells)
      BY <2>2, LateWriteFacts, ZenonT(40)
    <3>4. \A k \in 1 .. img.size : k =< Len(WriteAt(file, tail.at, tail.cells)) =>
                                     N[k] = WriteAt(file, tail.at, tail.cells)[k]
      BY <2>2, LateWriteFacts, ZenonT(40)
    <3> HIDE DEF N
    <3> QED BY <3>1, <3>2, <3>3, <3>4
  <2> HIDE DEF N
  <2> QED BY <2>1, <2>3
<1>7. status' \in {"ok", "refused"}
      /\ (status' = "refused" => device /\ tail.at + Len(tail.cells) > Len(file))
  <2> DEFINE early == SubSeq(tail.cells, 1, Len(tail.cells) - n)
  <2>1. Len(early) \in Nat /\ Len(early) =< Len(tail.cells)
    BY <1>4
  <2>2. status' = IF device /\ tail.at + Len(early) > Len(file) THEN "refused" ELSE "ok"
    BY <1>5 DEF End
  <2> HIDE DEF early
  <2>3. Len(file) \in Nat
    BY <1>2
  <2> QED BY <1>4, <2>1, <2>2, <2>3
<1> QED BY <1>6, <1>7

LEMMA FinishKeeps == ASSUME BInv, Finish PROVE BInv'
<1> DEFINE h == img.header
           P == Promise
           F == Flushed
<1>1. pc = "truncate" /\ Writing /\ Running /\ UNCHANGED <<device, args, img, out, commands, before>>
      /\ pc' = "exited" /\ tail' = NoTail
      /\ given' = IF args.command = "update" /\ given = NULL THEN NULL ELSE Promise
  BY DEF Finish, End, Writing, Running
<1>2. /\ file # NULL /\ file \in Seq(Cell) /\ img.size \in Nat /\ device \in BOOLEAN
      /\ h \in Headers /\ h.page_size \in Nat /\ h.page_size > 0
      /\ {RamdiskAt(h), SecondAt(h), TotalSize(h)} \subseteq Nat
      /\ {h.kernel_size, h.ramdisk_size, h.second_size} \subseteq Nat
      /\ SecondAt(h) + h.second_size =< TotalSize(h)
      /\ h.page_size =< TotalSize(h) /\ h.page_size + h.kernel_size =< TotalSize(h)
      /\ RamdiskAt(h) + h.ramdisk_size =< TotalSize(h)
      /\ TotalSize(h) =< img.size /\ (device => img.size = Len(file))
  BY <1>1, WritingFacts
<1>3. /\ F \in Seq(Cell) /\ F # <<>> /\ F[1] = <<"header", h>>
  BY <1>1, <1>2, FlushedFacts
<1>4. tail.at \in Nat /\ tail.cells \in Seq(Cell) /\ Len(tail.cells) \in Nat
      /\ (\/ tail.at + Len(tail.cells) =< TotalSize(h)
          \/ tail.at + Len(tail.cells) = TotalSize(h) + h.page_size)
  BY <1>1 DEF BInv, Types, TailFits, EndsAt
<1>5. /\ file' \in Seq(Cell) /\ img.size =< Len(file')
      /\ device => Len(file') = img.size
      /\ Len(file') = img.size \/ Len(file') = tail.at + Len(tail.cells)
      /\ \A k \in 1 .. img.size : k =< Len(F) => file'[k] = F[k]
  BY FinishedFacts
<1>6. status' \in {"ok", "refused"}
      /\ (status' = "refused" => device /\ tail.at + Len(tail.cells) > Len(file))
  BY FinishedFacts
<1>7. Len(file') \in Nat /\ Len(file') > 0 /\ file' # <<>> /\ file'[1] = <<"header", h>>
  <2> HIDE DEF h, F
  <2>1. 1 \in 1 .. img.size /\ 1 =< Len(F)
    BY <1>2, <1>3, SMTT(40)
  <2>2. Len(file') \in Nat /\ Len(file') > 0
    BY <1>2, <1>5, <2>1
  <2>3. file'[1] = F[1]
    BY <1>5, <2>1
  <2> QED BY <1>3, <1>5, <2>2, <2>3
<1>8. Types'
  <2>1. NoTail \in [at : Nat, cells : Seq(Cell)] /\ <<"header", h>> \in First
    BY <1>2, CellFacts DEF NoTail
  <2>2. file' # NULL
    BY <1>5, CellFacts
  <2>3. device => Len(file') = Len(file)
    BY <1>2, <1>5
  <2> QED BY <1>1, <1>2, <1>5, <1>6, <1>7, <2>1, <2>2, <2>3 DEF BInv, Types, Parts
<1>9. Commanded' /\ Prepared' /\ PartsLoaded' /\ TailFits' /\ Announced' /\ Written'
  BY <1>1 DEF Commanded, Running, Writing, Prepared, PartsLoaded, TailFits, Announced, Written
<1>10. args.command \in {"create", "update"}
  BY <1>1, BootAssumption DEF BInv, Commanded
<1>11. Kept'
  <2> SUFFICES ASSUME given' # NULL, ~given'.repaged PROVE Holds(file', given')
    BY <1>1 DEF Kept, Running, Holds
  <2>1. given' = P /\ Owed
    BY <1>1, <1>10 DEF Owed
  <2>2. /\ InPlace(F, h.page_size, P.kernel) /\ InPlace(F, RamdiskAt(h), P.ramdisk)
        /\ InPlace(F, SecondAt(h), P.second)
    BY <1>1, <2>1 DEF BInv, Written
  <2>3. /\ h.page_size = P.page /\ h.info = P.info
        /\ P.kernel \in Seq(Cell) /\ P.ramdisk \in Seq(Cell) /\ P.second \in Seq(Cell)
        /\ Len(P.kernel) = h.kernel_size /\ Len(P.ramdisk) = h.ramdisk_size
        /\ Len(P.second) = h.second_size
    BY <1>1, <2>1 DEF BInv, Announced
  <2> HIDE DEF F, P, h
  <2>4. ASSUME NEW a \in Nat, NEW c \in Seq(Cell), InPlace(F, a, c), a + Len(c) =< img.size
        PROVE  InPlace(file', a, c)
    <3> SUFFICES ASSUME NEW k \in 1 .. Len(c)
                 PROVE  a + k =< Len(file') /\ file'[a + k] = c[k]
      BY DEF InPlace
    <3> DEFINE x == a + k
    <3>1. x =< Len(F) /\ F[x] = c[k]
      BY <2>4 DEF InPlace
    <3>2. x \in 1 .. img.size /\ x =< Len(file')
      BY <1>2, <1>5, <1>7, <2>4, SMTT(40)
    <3> HIDE DEF x
    <3>3. file'[x] = F[x]
      BY <1>5, <3>1, <3>2
    <3> QED BY <3>1, <3>2, <3>3 DEF x
  <2>5. /\ h.page_size + Len(P.kernel) =< img.size /\ RamdiskAt(h) + Len(P.ramdisk) =< img.size
        /\ SecondAt(h) + Len(P.second) =< img.size
        /\ RamdiskAt(h) \in Nat /\ SecondAt(h) \in Nat
    <3>1. h.page_size + h.kernel_size =< img.size
      <4>1. h.page_size \in Nat /\ h.kernel_size \in Nat /\ TotalSize(h) \in Nat /\ img.size \in Nat
        BY <1>2
      <4>2. h.page_size + h.kernel_size =< TotalSize(h) /\ TotalSize(h) =< img.size
        BY <1>2
      <4> QED BY <4>1, <4>2
    <3>2. RamdiskAt(h) + h.ramdisk_size =< img.size
      <4>1. RamdiskAt(h) \in Nat /\ h.ramdisk_size \in Nat /\ TotalSize(h) \in Nat /\ img.size \in Nat
        BY <1>2
      <4>2. RamdiskAt(h) + h.ramdisk_size =< TotalSize(h) /\ TotalSize(h) =< img.size
        BY <1>2
      <4> QED BY <4>1, <4>2
    <3>3. SecondAt(h) + h.second_size =< img.size
      BY <1>2
    <3>4. RamdiskAt(h) \in Nat /\ SecondAt(h) \in Nat
      BY <1>2
    <3> QED BY <2>3, <3>1, <3>2, <3>3, <3>4
  <2>6. InPlace(file', h.page_size, P.kernel)
    BY <1>2, <2>2, <2>3, <2>4, <2>5
  <2>7. InPlace(file', RamdiskAt(h), P.ramdisk)
    BY <2>2, <2>3, <2>4, <2>5
  <2>8. InPlace(file', SecondAt(h), P.second)
    BY <2>2, <2>3, <2>4, <2>5
  <2>9. HeaderOf(file') = h
    BY <1>2, <1>5, <1>7, HeaderFound
  <2>10. SecondAt(h) + h.second_size =< Len(file')
    BY <1>2, <1>5, <1>7
  <2>11. Holds(file', P)
    BY <1>2, <1>5, <2>3, <2>6, <2>7, <2>8, <2>9, <2>10, HoldsIf
  <2> QED BY <2>1, <2>11
<1>12. Extracted'
  BY <1>1, <1>10 DEF Extracted
<1>13. SizeAsAsked'
  <2>1. ~device => Len(file') = img.size \/ (Len(file') = TotalSize(h) + h.page_size /\ Len(file') > img.size)
    <3> HIDE DEF h
    <3> QED BY <1>2, <1>4, <1>5, <1>7, SMTT(40)
  <2>2. img' = img /\ device' = device
    BY <1>1
  <2> QED BY <2>1, <2>2 DEF SizeAsAsked
<1> QED BY <1>8, <1>9, <1>11, <1>12, <1>13 DEF BInv

LEMMA KillKeeps == ASSUME BInv, Kill PROVE BInv'
<1>1. /\ Running /\ pc' = "exited" /\ status' = "killed" /\ tail' = NoTail
      /\ given' = IF file' = before THEN given ELSE NULL
      /\ args.command \in {"create", "update"}
      /\ UNCHANGED <<device, args, img, out, before>>
  <2>1. pc # "extract"
    BY DEF BInv, Prepared, Kill
  <2> QED BY <2>1 DEF Kill, End, Running
<1>2. PICK n \in 0 .. Len(tail.cells) : file' = WriteAt(file, tail.at, SubSeq(tail.cells, 1, n))
  BY DEF Kill
<1> DEFINE w == SubSeq(tail.cells, 1, n)
<1>3. /\ file # NULL /\ file \in Seq(Cell) /\ tail.at \in Nat /\ tail.cells \in Seq(Cell)
      /\ img.header \in Headers
  BY <1>1 DEF BInv, Types, Commanded, Parts, Images
<1>4. w \in Seq(Cell) /\ Len(w) = n /\ (w # <<>> => tail.cells # <<>> /\ w[1] = tail.cells[1])
  BY <1>3
<1> HIDE DEF w
<1>5. /\ file' = WriteAt(file, tail.at, w)
      /\ file' \in Seq(Cell)
      /\ device => Len(file') = Len(file)
      /\ Len(file) =< Len(file')
      /\ \A k \in 1 .. Len(file') : file'[k] = IF tail.at < k /\ k =< tail.at + Len(w) THEN w[k - tail.at]
                                               ELSE IF k =< Len(file) THEN file[k] ELSE Zero
  <2>1. file' = WriteAt(file, tail.at, w)
    BY <1>2 DEF w
  <2> DEFINE u == WriteAt(file, tail.at, w)
  <2>2. /\ u \in Seq(Cell)
        /\ Len(u) = IF ~device /\ w # <<>> /\ tail.at + Len(w) > Len(file) THEN tail.at + Len(w) ELSE Len(file)
    BY <1>3, <1>4, WriteAtFacts
  <2>3. \A k \in 1 .. Len(u) : u[k] = IF tail.at < k /\ k =< tail.at + Len(w) THEN w[k - tail.at]
                                     ELSE IF k =< Len(file) THEN file[k] ELSE Zero
    BY <1>3, <1>4, WriteAtFacts
  <2> HIDE DEF u
  <2>4. (device => Len(u) = Len(file)) /\ Len(file) =< Len(u)
    BY <1>3, <1>4, <2>2
  <2>5. file' = u
    BY <2>1 DEF u
  <2> QED BY <2>1, <2>2, <2>3, <2>4, <2>5
<1>6. file' # <<>> => file'[1] \in First
  <2>1. CASE w = <<>>
    <3>1. file' = file
      BY <1>3, <1>5, <2>1, WriteNothing
    <3> QED BY <1>3, <3>1 DEF BInv, Types
  <2>2. CASE w # <<>>
    <3>1. Writing /\ pc # "header"
      BY <1>4, <2>2 DEF BInv, Commanded, NoTail
    <3>2. \/ tail.at = 0 /\ tail.cells[1] = <<"header", img.header>>
          \/ tail.at > 0 /\ file # <<>> /\ file[1] = <<"header", img.header>>
      BY <3>1 DEF BInv, TailFits
    <3>3. <<"header", img.header>> \in First
      BY <1>3 DEF First
    <3>4. CASE tail.at = 0 /\ tail.cells[1] = <<"header", img.header>>
      <4>1. file' # <<>> => file'[1] = w[1]
        BY <1>4, <1>5, <2>2, <3>4
      <4> QED BY <1>4, <2>2, <3>3, <3>4, <4>1
    <3>5. CASE tail.at > 0 /\ file # <<>> /\ file[1] = <<"header", img.header>>
      <4>1. 1 \in 1 .. Len(file') /\ 1 =< Len(file) /\ ~(tail.at < 1)
        BY <1>3, <1>5, <3>5
      <4>2. file'[1] = file[1]
        BY <1>5, <4>1
      <4> QED BY <3>3, <3>5, <4>2
    <3> QED BY <3>2, <3>4, <3>5
  <2> QED BY <2>1, <2>2
<1>7. Types'
  <2>1. NoTail \in [at : Nat, cells : Seq(Cell)]
    BY DEF NoTail
  <2>2. file' # NULL
    BY <1>5, CellFacts
  <2> QED BY <1>1, <1>3, <1>5, <1>6, <2>1, <2>2 DEF BInv, Types, Parts
<1>8. Commanded' /\ Prepared' /\ PartsLoaded' /\ TailFits' /\ Announced' /\ Written'
  BY <1>1 DEF Commanded, Running, Writing, Prepared, PartsLoaded, TailFits, Announced, Written
<1>9. Kept'
  BY <1>1 DEF BInv, Kept, Running, Holds
<1>10. Extracted' /\ SizeAsAsked'
  BY <1>1 DEF Extracted, SizeAsAsked
<1> QED BY <1>7, <1>8, <1>9, <1>10 DEF BInv

LEMMA ExtractKeeps == ASSUME BInv, Extract PROVE BInv'
<1> DEFINE h == HeaderOf(file)
<1>1. /\ pc = "exited" /\ file # NULL
      /\ args' = [NoArgs EXCEPT !.command = "extract"]
      /\ UNCHANGED <<file, device, tail, commands, given>>
  BY DEF Extract
<1>2. \/ /\ h # NULL /\ ValidHeader(h, Len(file))
         /\ img' = [NoImage EXCEPT !.size = Len(file), !.header = h]
         /\ out' = [NoOut EXCEPT !.config = [bootsize |-> Len(file), pagesize |-> h.page_size, info |-> h.info]]
         /\ pc' = "extract" /\ status' = "running"
      \/ pc' = "exited" /\ status' = "refused" /\ UNCHANGED img
  BY DEF Extract, End
<1>3. args'.command = "extract"
  BY <1>1 DEF NoArgs
<1>4. file \in Seq(Cell) /\ (h # NULL => h \in Headers)
  BY <1>1, HeaderFacts DEF BInv, Types, Parts
<1>5. Types'
  <2>1. img' \in Images
    <3>1. CASE img' = [NoImage EXCEPT !.size = Len(file), !.header = h] /\ h # NULL
      <4>1. Len(file) \in Nat /\ h \in Headers
        BY <1>4, <3>1
      <4>2. /\ NULL \in Parts
            /\ img' = [size |-> Len(file), kernel |-> NULL, ramdisk |-> NULL, second |-> NULL, header |-> h]
        BY <3>1 DEF NoImage, Parts
      <4> HIDE DEF h
      <4> QED BY <4>1, <4>2 DEF Images
    <3> QED BY <1>2, <3>1 DEF BInv, Types
  <2>2. pc' \in {"exited", "extract"} /\ status' \in {"refused", "running"}
        /\ (pc' = "exited" <=> status' # "running")
    BY <1>2
  <2> QED BY <1>1, <2>1, <2>2 DEF BInv, Types
<1>6. Commanded' /\ PartsLoaded' /\ TailFits' /\ Announced' /\ Written'
  <2>1. pc' \in {"exited", "extract"}
    BY <1>2
  <2>2. tail' = NoTail
    BY <1>1 DEF BInv, Commanded, Writing
  <2> QED BY <2>1, <2>2 DEF Commanded, Running, Writing, PartsLoaded, TailFits, Announced, Written
<1>7. Prepared'
  <2>1. CASE pc' = "exited"
    BY <2>1 DEF Prepared
  <2>2. CASE pc' = "extract"
    <3>1. /\ h # NULL /\ ValidHeader(h, Len(file)) /\ img'.header = h
          /\ out' = [NoOut EXCEPT !.config = out'.config]
      BY <1>2, <2>2 DEF NoImage, NoOut
    <3>2. HeaderOf(file') = h /\ file' = file
      BY <1>1
    <3> HIDE DEF h
    <3> QED BY <1>1, <1>3, <2>2, <3>1, <3>2 DEF Prepared
  <2> QED BY <1>2, <2>1, <2>2
<1>8. Kept'
  BY <1>1, <1>2 DEF BInv, Kept, Running, Holds
<1>9. Extracted' /\ SizeAsAsked'
  BY <1>2, <1>3 DEF Extracted, Settled, SizeAsAsked
<1> QED BY <1>5, <1>6, <1>7, <1>8, <1>9 DEF BInv

\* -x and write_bootimg put the second stage at the same place.
LEMMA SamePlace == ASSUME NEW h \in Headers, h.page_size > 0 PROVE ExtractSecondAt(h) = SecondAt(h)
<1> DEFINE p == h.page_size
           m == Pages(h.kernel_size, h.page_size)
           o == Pages(h.ramdisk_size, h.page_size)
<1>1. p \in Nat /\ m \in Nat /\ o \in Nat
  BY PagesFacts DEF Headers
<1>2. SecondAt(h) = (1 + m) * p + o * p /\ ExtractSecondAt(h) = (1 + o + m) * p
  BY DEF SecondAt, RamdiskAt, ExtractSecondAt
<1> HIDE DEF p, m, o
<1>6. (1 + m) * p = p + m * p
  BY <1>1
<1>3. (1 + o + m) * p = (1 + o) * p + m * p
  BY <1>1
<1>4. (1 + o) * p = p + o * p
  BY <1>1
<1>5. m * p \in Nat /\ o * p \in Nat
  BY <1>1
<1> QED BY <1>1, <1>2, <1>3, <1>4, <1>5, <1>6

LEMMA ExtractPartsKeeps == ASSUME BInv, ExtractParts PROVE BInv'
<1> DEFINE h == img.header
<1>1. /\ pc = "extract" /\ pc' = "exited" /\ status' \in {"ok", "crashed"}
      /\ out' = [out EXCEPT !.kernel  = ReadAt(h.page_size, h.kernel_size),
                            !.ramdisk = ReadAt(RamdiskAt(h), h.ramdisk_size),
                            !.second  = ReadAt(ExtractSecondAt(h), h.second_size)]
      /\ UNCHANGED <<file, device, args, img, tail, before, given>>
  BY DEF ExtractParts, End
<1>2. /\ args.command = "extract" /\ file # NULL /\ file \in Seq(Cell)
      /\ HeaderOf(file) = h /\ h # NULL /\ ValidHeader(h, Len(file)) /\ h \in Headers
      /\ out = [NoOut EXCEPT !.config = out.config]
  BY <1>1 DEF BInv, Prepared, Types, Parts, Images
<1>3. Types'
  BY <1>1 DEF BInv, Types
<1>4. Commanded' /\ Prepared' /\ PartsLoaded' /\ TailFits' /\ Announced' /\ Written'
  <2>1. tail' = NoTail
    BY <1>1 DEF BInv, Commanded, Writing
  <2> QED BY <1>1, <2>1 DEF Commanded, Running, Writing, Prepared, PartsLoaded, TailFits, Announced, Written
<1>5. Kept'
  BY <1>1 DEF BInv, Kept, Running, Holds
<1>6. Extracted'
  <2> SUFFICES ASSUME given # NULL, ~given.repaged
               PROVE  out'.kernel = given.kernel /\ out'.ramdisk = given.ramdisk /\ out'.second = given.second
    BY <1>1 DEF Extracted, Settled
  <2>1. Holds(file, given)
    BY <1>1 DEF BInv, Kept, Running
  <2>2. h.page_size > 0
    BY <1>2, ValidFacts
  <2>3. ExtractSecondAt(h) = SecondAt(h)
    BY <1>2, <2>2, SamePlace
  <2>4. /\ out'.kernel = ReadAt(h.page_size, h.kernel_size)
        /\ out'.ramdisk = ReadAt(RamdiskAt(h), h.ramdisk_size)
        /\ out'.second = ReadAt(SecondAt(h), h.second_size)
    BY <1>1, <1>2, <2>3 DEF NoOut
  <2> HIDE DEF h
  <2>5. /\ given.kernel = SubSeq(file, h.page_size + 1, h.page_size + h.kernel_size)
        /\ given.ramdisk = SubSeq(file, RamdiskAt(h) + 1, RamdiskAt(h) + h.ramdisk_size)
        /\ given.second = SubSeq(file, SecondAt(h) + 1, SecondAt(h) + h.second_size)
    BY <1>2, <2>1, HoldsFacts
  <2> QED BY <2>4, <2>5 DEF ReadAt
<1>7. SizeAsAsked'
  BY <1>1, <1>2 DEF SizeAsAsked
<1> QED BY <1>3, <1>4, <1>5, <1>6, <1>7 DEF BInv
-----------------------------------------------------------------------------
LEMMA NextBInv == BInv /\ [Next]_vars => BInv'
<1> SUFFICES ASSUME BInv, [Next]_vars PROVE BInv'
  OBVIOUS
<1>1. ASSUME NEW a \in Arguments, Create(a) PROVE BInv'
  BY <1>1, CreateKeeps
<1>2. ASSUME NEW a \in Arguments, Update(a) PROVE BInv'
  BY <1>2, UpdateKeeps
<1>3. CASE UpdateHeader
  BY <1>3, UpdateHeaderKeeps
<1>4. CASE UpdateImages
  BY <1>4, UpdateImagesKeeps
<1>5. CASE WriteHeader
  BY <1>5, WriteHeaderKeeps
<1>6. CASE WriteRamdisk
  BY <1>6, WriteRamdiskKeeps
<1>7. CASE WriteSecond
  BY <1>7, WriteSecondKeeps
<1>8. CASE Finish
  BY <1>8, FinishKeeps
<1>9. CASE Extract
  BY <1>9, ExtractKeeps
<1>10. CASE ExtractParts
  BY <1>10, ExtractPartsKeeps
<1>11. CASE Kill
  BY <1>11, KillKeeps
<1>12. CASE UNCHANGED vars
  <2>1. Types' /\ Commanded'
    BY <1>12 DEF BInv, vars, Types, Commanded, Running, Writing
  <2>2. Prepared' /\ PartsLoaded' /\ TailFits'
    BY <1>12 DEF BInv, vars, Prepared, Old, Asked, PartsLoaded, TailFits, EndsAt, Writing
  <2>3. Announced'
    BY <1>12 DEF BInv, vars, Announced, Writing, Owed, Promise
  <2>4. Written'
    <3>1. /\ Promise' = Promise /\ Flushed' = Flushed /\ pc' = pc /\ img' = img
          /\ Owed' = Owed
      BY <1>12 DEF vars, Promise, Owed, Flushed, WriteAt
    <3> QED BY <3>1 DEF BInv, Written, Writing, InPlace
  <2>5. Kept' /\ Extracted' /\ SizeAsAsked'
    BY <1>12 DEF BInv, vars, Kept, Running, Extracted, Settled, SizeAsAsked
  <2> QED BY <2>1, <2>2, <2>3, <2>4, <2>5 DEF BInv
<1> QED BY <1>1, <1>2, <1>3, <1>4, <1>5, <1>6, <1>7, <1>8, <1>9, <1>10, <1>11, <1>12 DEF Next

-----------------------------------------------------------------------------
\* What an update leaves alone.  The cells behind the header page and in front of
\* the first part it writes are those of `before`, at every step.
Replaces == img.kernel # NULL \/ img.ramdisk # NULL \/ img.second # NULL

Front ==
  LET g == img.header
  IN IF img.kernel # NULL THEN g.page_size ELSE IF img.ramdisk # NULL THEN RamdiskAt(g) ELSE SecondAt(g)

Behind == {k \in DOMAIN before : k > img.header.page_size /\ (Replaces => k =< Front)}

Same(d, K) == \A k \in K : k \in DOMAIN d /\ d[k] = before[k]

\* The header it writes and the one that was there agree on what it does not replace,
\* and it replaces what the arguments make it replace.
SameHeader ==
  LET h == HeaderOf(before)
      g == img.header
  IN /\ h # NULL /\ ValidHeader(h, Len(before)) /\ g.page_size = Given(args.pagesize, h.page_size)
     /\ img.kernel = NULL => g.kernel_size = h.kernel_size
     /\ img.ramdisk = NULL => g.ramdisk_size = h.ramdisk_size
     /\ img.second = NULL => g.second_size = h.second_size
     /\ (img.kernel = NULL) <=> (args.kernel = NULL)
     /\ (img.ramdisk = NULL) <=> (args.kernel = NULL /\ args.ramdisk = NULL)
     /\ args.second # NULL => img.second # NULL
     /\ img.ramdisk = NULL /\ args.second = NULL => img.second = NULL

Untouched ==
  args.command = "update" /\ Writing =>
    /\ before \in Seq(Cell) /\ (before # <<>> => before[1] \in First)
    /\ SameHeader /\ Same(file, Behind)
    /\ pc # "header" =>
         \/ tail.at = 0 /\ (img.kernel = NULL => Len(tail.cells) = img.header.page_size)
         \/ tail.at >= Front /\ Replaces

FInv == Untouched /\ InFront /\ RefusedUpdateKeeps

\* The cells that InFront is about, by the arguments and the header.
Ahead(a, h) ==
  h.page_size + 1 .. IF a.kernel # NULL THEN h.page_size
                     ELSE IF a.ramdisk # NULL THEN RamdiskAt(h)
                     ELSE IF a.second # NULL THEN SecondAt(h) ELSE TotalSize(h)

LEMMA InFrontFacts ==
  InFront <=>
    LET h == HeaderOf(before)
    IN args.command = "update" /\ h # NULL /\ ValidHeader(h, Len(before))
         /\ args.pagesize \in {NULL, h.page_size} => Same(file, Ahead(args, h))
BY DEF InFront, Same, Ahead

LEMMA AheadInside ==
  ASSUME NEW h \in Headers, h.page_size > 0, NEW n \in Nat, TotalSize(h) =< n, NEW a
  PROVE  Ahead(a, h) \subseteq 1 .. n
<1>1. /\ {RamdiskAt(h), SecondAt(h), TotalSize(h)} \subseteq Nat /\ h.page_size \in Nat
      /\ {h.kernel_size, h.ramdisk_size, h.second_size} \subseteq Nat
      /\ h.page_size + h.kernel_size =< RamdiskAt(h)
      /\ RamdiskAt(h) + h.ramdisk_size =< SecondAt(h)
      /\ SecondAt(h) + h.second_size =< TotalSize(h)
  BY Offsets DEF Headers
<1> DEFINE e == IF a.kernel # NULL THEN h.page_size
                ELSE IF a.ramdisk # NULL THEN RamdiskAt(h)
                ELSE IF a.second # NULL THEN SecondAt(h) ELSE TotalSize(h)
<1>2. h.page_size =< TotalSize(h) /\ RamdiskAt(h) =< TotalSize(h) /\ SecondAt(h) =< TotalSize(h)
  BY <1>1
<1>3. e \in Nat /\ e =< n
  BY <1>1, <1>2
<1>4. Ahead(a, h) = h.page_size + 1 .. e
  BY DEF Ahead
<1> HIDE DEF e
<1> QED BY <1>1, <1>3, <1>4

\* What is written somewhere else keeps the same cells.
LEMMA SameWritten ==
  ASSUME NEW d \in Seq(Cell), NEW at \in Nat, NEW cells \in Seq(Cell), NEW K \in SUBSET Nat,
         Same(d, K), \A k \in K : k =< at \/ at + Len(cells) < k
  PROVE  Same(WriteAt(d, at, cells), K)
<1> DEFINE w == WriteAt(d, at, cells)
<1>1. /\ w \in Seq(Cell)
      /\ Len(w) = IF ~device /\ cells # <<>> /\ at + Len(cells) > Len(d) THEN at + Len(cells) ELSE Len(d)
      /\ \A k \in 1 .. Len(w) : w[k] = IF at < k /\ k =< at + Len(cells) THEN cells[k - at]
                                       ELSE IF k =< Len(d) THEN d[k] ELSE Zero
  BY WriteAtFacts
<1> HIDE DEF w
<1>2. Len(d) \in Nat /\ Len(cells) \in Nat /\ Len(w) \in Nat
  BY <1>1
<1>3. Len(d) =< Len(w)
  BY <1>1, <1>2
<1>4. ASSUME NEW k \in K PROVE k \in DOMAIN w /\ w[k] = before[k]
  <2>1. k \in 1 .. Len(d) /\ d[k] = before[k]
    BY DEF Same
  <2>2. k \in 1 .. Len(w) /\ ~(at < k /\ k =< at + Len(cells)) /\ k =< Len(d)
    BY <1>2, <1>3, <2>1
  <2> QED BY <1>1, <2>1, <2>2
<1> QED BY <1>4 DEF Same, w

\* However much of what stdio holds is written, it lies elsewhere.
LEMMA FlushKeeps ==
  ASSUME BInv, Untouched, Writing, pc # "header", args.command = "update",
         NEW cells \in Seq(Cell), Len(cells) =< Len(tail.cells)
  PROVE  Same(WriteAt(file, tail.at, cells), Behind)
<1>1. /\ file \in Seq(Cell) /\ img.header.page_size \in Nat
      /\ {RamdiskAt(img.header), SecondAt(img.header)} \subseteq Nat
  BY WritingFacts
<1>2. /\ tail.at \in Nat /\ tail.cells \in Seq(Cell) /\ Len(tail.cells) \in Nat /\ Len(cells) \in Nat
  BY DEF BInv, Types
<1>3. /\ before \in Seq(Cell) /\ Same(file, Behind)
      /\ \/ tail.at = 0 /\ (img.kernel = NULL => Len(tail.cells) = img.header.page_size)
         \/ tail.at >= Front /\ Replaces
  BY DEF Untouched
<1>4. Front \in Nat /\ (img.kernel # NULL => Front = img.header.page_size /\ Replaces)
  BY <1>1 DEF Front, Replaces
<1>5. Behind \in SUBSET Nat
  BY <1>3 DEF Behind
<1>6. ASSUME NEW k \in Behind PROVE k =< tail.at \/ tail.at + Len(cells) < k
  <2>1. k \in Nat /\ k > img.header.page_size /\ (Replaces => k =< Front)
    BY <1>5 DEF Behind
  <2>2. CASE tail.at = 0 /\ (img.kernel = NULL => Len(tail.cells) = img.header.page_size)
    BY <1>1, <1>2, <1>4, <2>1, <2>2
  <2>3. CASE tail.at >= Front /\ Replaces
    BY <1>2, <1>4, <2>1, <2>3
  <2> QED BY <1>3, <2>2, <2>3
<1> QED BY <1>1, <1>2, <1>3, <1>5, <1>6, SameWritten

\* With the same cells in front of what is written, those that InFront is about are.
LEMMA AheadBehind ==
  ASSUME BInv, Untouched, Writing, args.command = "update",
         args.pagesize \in {NULL, HeaderOf(before).page_size}
  PROVE  /\ Ahead(args, HeaderOf(before)) \subseteq Behind
         /\ Ahead(args, HeaderOf(before)) \subseteq 1 .. img.size
<1> DEFINE h == HeaderOf(before)
           g == img.header
<1>1. /\ before \in Seq(Cell) /\ (before # <<>> => before[1] \in First) /\ SameHeader
      /\ h # NULL /\ ValidHeader(h, Len(before)) /\ Len(before) \in Nat
  BY DEF Untouched, SameHeader
<1>2. h \in Headers /\ h.page_size > 0 /\ TotalSize(h) =< Len(before)
  BY <1>1, HeaderFacts, ValidFacts
<1>3. Ahead(args, h) \subseteq 1 .. Len(before) /\ h.page_size \in Nat
  BY <1>1, <1>2, AheadInside DEF Headers
<1>4. g \in Headers /\ g.page_size > 0 /\ TotalSize(g) =< img.size /\ img.size \in Nat
  BY WritingFacts
<1>5. Ahead(args, g) \subseteq 1 .. img.size
  BY <1>4, AheadInside
<1>6. g.page_size = h.page_size
  BY <1>1, <1>2 DEF SameHeader, Given
<1>7. /\ args.kernel = NULL => RamdiskAt(h) = RamdiskAt(g)
      /\ args.kernel = NULL /\ args.ramdisk = NULL => SecondAt(h) = SecondAt(g)
      /\ args.kernel = NULL /\ args.ramdisk = NULL /\ args.second = NULL => TotalSize(h) = TotalSize(g) /\ ~Replaces
  <2>1. args.kernel = NULL => g.kernel_size = h.kernel_size
    BY <1>1 DEF SameHeader
  <2>2. args.kernel = NULL /\ args.ramdisk = NULL => g.ramdisk_size = h.ramdisk_size
    BY <1>1 DEF SameHeader
  <2>3. args.kernel = NULL /\ args.ramdisk = NULL /\ args.second = NULL => g.second_size = h.second_size /\ ~Replaces
    BY <1>1 DEF SameHeader, Replaces
  <2> QED BY <1>6, <2>1, <2>2, <2>3 DEF RamdiskAt, SecondAt, TotalSize
<1>8. Ahead(args, h) = Ahead(args, g)
  BY <1>6, <1>7 DEF Ahead
<1>9. ASSUME NEW k \in Ahead(args, h) PROVE k \in Behind
  <2>1. k \in 1 .. Len(before) /\ k \in Nat /\ k > g.page_size
    <3>1. k \in 1 .. Len(before)
      BY <1>3
    <3>2. k > h.page_size
      BY <1>3, <3>1 DEF Ahead
    <3> QED BY <1>6, <3>1, <3>2
  <2>2. Replaces => k =< Front
    <3>1. CASE args.kernel # NULL
      <4>1. FALSE
        <5>1. Ahead(args, h) = h.page_size + 1 .. h.page_size
          BY <3>1 DEF Ahead
        <5>2. h.page_size + 1 .. h.page_size = {}
          BY <1>3
        <5> QED BY <5>1, <5>2
      <4> QED BY <4>1
    <3>2. CASE args.kernel = NULL /\ args.ramdisk # NULL
      <4>1. img.kernel = NULL /\ img.ramdisk # NULL
        BY <1>1, <3>2 DEF SameHeader
      <4>2. Front = RamdiskAt(h) /\ k \in h.page_size + 1 .. RamdiskAt(h)
        BY <1>7, <3>2, <4>1 DEF Front, Ahead
      <4> QED BY <1>2, <2>1, <4>2, Offsets
    <3>3. CASE args.kernel = NULL /\ args.ramdisk = NULL /\ args.second # NULL
      <4>1. img.kernel = NULL /\ img.ramdisk = NULL
        BY <1>1, <3>3 DEF SameHeader
      <4>2. Front = SecondAt(h) /\ k \in h.page_size + 1 .. SecondAt(h)
        BY <1>7, <3>3, <4>1 DEF Front, Ahead
      <4> QED BY <1>2, <2>1, <4>2, Offsets
    <3> QED BY <1>7, <3>1, <3>2, <3>3
  <2> QED BY <1>1, <2>1, <2>2 DEF Behind
<1> QED BY <1>5, <1>8, <1>9

\* What is left to show of a step: until the header is written the image is the one
\* there was ...
LEMMA NotWriting ==
  ASSUME BInv, ~Writing', file' = before', before' \in Seq(Cell) \cup {NULL},
         before' \notin {NULL, <<>>} => before'[1] \in First
  PROVE  FInv'
<1>1. Untouched'
  BY DEF Untouched
<1>2. RefusedUpdateKeeps'
  BY DEF RefusedUpdateKeeps
<1>3. InFront'
  <2> DEFINE h == HeaderOf(before')
             e == IF args'.kernel # NULL THEN h.page_size
                  ELSE IF args'.ramdisk # NULL THEN RamdiskAt(h)
                  ELSE IF args'.second # NULL THEN SecondAt(h) ELSE TotalSize(h)
  <2> SUFFICES ASSUME h # NULL, ValidHeader(h, Len(before')),
                      NEW k \in h.page_size + 1 .. e
               PROVE  k \in DOMAIN file' /\ file'[k] = before'[k]
    BY DEF InFront
  <2>1. before' \in Seq(Cell) /\ before' # NULL
    BY DEF HeaderOf
  <2>2. h \in Headers
    BY <2>1, HeaderFacts
  <2>3. h.page_size > 0 /\ TotalSize(h) =< Len(before') /\ Len(before') \in Nat
    BY <2>1, <2>2, ValidFacts
  <2>4. Ahead(args', h) \subseteq 1 .. Len(before')
    BY <2>2, <2>3, AheadInside
  <2>5. k \in Ahead(args', h)
    BY DEF Ahead
  <2> QED BY <2>1, <2>4, <2>5
<1> QED BY <1>1, <1>2, <1>3 DEF FInv

\* ... then it differs in what is written, ...
LEMMA StillWriting ==
  ASSUME BInv, FInv, Writing, Writing', pc' # "header", UNCHANGED <<args, img, before, status>>,
         file' \in {file, Flushed}, pc = "header" => file' = Flushed,
         \/ tail' = tail /\ pc # "header"
         \/ tail'.at = 0 /\ (img.kernel = NULL => Len(tail'.cells) = img.header.page_size)
         \/ tail'.at >= Front /\ Replaces
  PROVE  FInv'
<1>1. CASE args.command # "update"
  BY <1>1 DEF FInv, Untouched, InFront, RefusedUpdateKeeps
<1>2. CASE args.command = "update"
  <2>1. Same(file', Behind)
    <3>1. Same(file, Behind)
      BY <1>2 DEF FInv, Untouched
    <3>2. pc = "header" => Flushed = file
      BY WritingFacts, FlushedFacts
    <3>3. pc # "header" => Same(Flushed, Behind)
      <4>1. tail.cells \in Seq(Cell) /\ Len(tail.cells) =< Len(tail.cells)
        BY DEF BInv, Types
      <4> QED BY <1>2, <4>1, FlushKeeps DEF FInv, Flushed
    <3> QED BY <3>1, <3>2, <3>3
  <2>2. Untouched'
    <3>1. Front' = Front /\ (Replaces' <=> Replaces)
      BY DEF Front, Replaces
    <3>2. Behind' = Behind
      BY <3>1 DEF Behind
    <3>3. Same(file, Behind)'
      BY <2>1, <3>2 DEF Same
    <3>4. SameHeader'
      BY <1>2 DEF FInv, Untouched, SameHeader
    <3>5. \/ tail'.at = 0 /\ (img'.kernel = NULL => Len(tail'.cells) = img'.header.page_size)
          \/ tail'.at >= Front' /\ Replaces'
      BY <1>2, <3>1 DEF FInv, Untouched
    <3> QED BY <1>2, <3>3, <3>4, <3>5 DEF FInv, Untouched
  <2>3. InFront'
    <3> SUFFICES ASSUME args.pagesize \in {NULL, HeaderOf(before).page_size}
                 PROVE  Same(file', Ahead(args, HeaderOf(before)))
      BY DEF InFront, Same, Ahead
    <3>1. Ahead(args, HeaderOf(before)) \subseteq Behind
      BY <1>2, AheadBehind DEF FInv
    <3> QED BY <2>1, <3>1 DEF Same
  <2>4. RefusedUpdateKeeps'
    BY DEF Writing, RefusedUpdateKeeps
  <2> QED BY <2>2, <2>3, <2>4 DEF FInv
<1> QED BY <1>1, <1>2

\* ... also where the command ends.
LEMMA NoMoreWriting ==
  ASSUME BInv, FInv, Writing, pc' = "exited", UNCHANGED <<args, img, before>>,
         args.command = "update" =>
           \A k \in Behind : k =< img.size => k \in DOMAIN file' /\ file'[k] = before[k],
         RefusedUpdateKeeps'
  PROVE  FInv'
<1>1. Untouched'
  BY DEF Untouched, Writing
<1>2. InFront'
  <2> SUFFICES ASSUME args.command = "update", args.pagesize \in {NULL, HeaderOf(before).page_size}
               PROVE  Same(file', Ahead(args, HeaderOf(before)))
    BY DEF InFront, Same, Ahead
  <2>1. /\ Ahead(args, HeaderOf(before)) \subseteq Behind
        /\ Ahead(args, HeaderOf(before)) \subseteq 1 .. img.size
    BY AheadBehind DEF FInv
  <2>2. img.size \in Nat
    BY WritingFacts
  <2> QED BY <2>1, <2>2 DEF Same
<1> QED BY <1>1, <1>2 DEF FInv

LEMMA InitFInv == Init => FInv
BY DEF Init, NoArgs, FInv, Untouched, InFront, RefusedUpdateKeeps

LEMMA NewCommandLeaves ==
  ASSUME BInv, FInv, NEW a \in Arguments, Create(a) \/ Update(a)
  PROVE  FInv'
<1>1. CASE Create(a)
  BY <1>1 DEF Create, FInv, Untouched, InFront, RefusedUpdateKeeps
<1>2. CASE Update(a)
  <2>1. file' = file /\ before' = file /\ ~Writing'
    BY <1>2 DEF Update, Opened, End, Writing
  <2>2. file \in Parts /\ (file \notin {NULL, <<>>} => file[1] \in First)
    BY DEF BInv, Types
  <2> QED BY <2>1, <2>2, NotWriting DEF Parts
<1> QED BY <1>1, <1>2

\* Before the header is written, an update has the image as it was.
LEMMA PreparedLeaves ==
  ASSUME BInv, FInv, pc \in {"config", "images"}, ~Writing', UNCHANGED <<file, args, before>>
  PROVE  FInv'
<1>1. file \in Parts /\ (file \notin {NULL, <<>>} => file[1] \in First)
  BY DEF BInv, Types
<1>2. args.command = "update" => file = before
  BY DEF BInv, Commanded
<1>3. CASE args.command = "update"
  BY <1>1, <1>2, <1>3, NotWriting DEF Parts
<1>4. CASE args.command # "update"
  BY <1>4 DEF FInv, Untouched, InFront, RefusedUpdateKeeps
<1> QED BY <1>3, <1>4

\* update_images.  The header's sizes change where it loads a part.
LEMMA UpdateImagesLeaves == ASSUME BInv, FInv, UpdateImages PROVE FInv'
<1> DEFINE h == img.header
           k == KernelOf
           r == RamdiskOf(h)
           s == SecondOf(h)
           H == Sized(h, k, r, s)
<1>1. pc = "images" /\ UNCHANGED <<file, args, before>>
  BY DEF UpdateImages
<1>2. img \in Images /\ args \in Arguments /\ file \in Seq(Cell) /\ (file # <<>> => file[1] \in First)
  BY <1>1, CellFacts DEF BInv, Types, Commanded, Running, Parts
<1>3. CASE ~Writing'
  BY <1>1, <1>3, PreparedLeaves
<1>4. CASE Writing' /\ args.command = "update"
  <2>1. /\ h.page_size # 0 /\ CanCopy /\ pc' = "header"
        /\ \E size : img' = [Loaded EXCEPT !.size = size]
    BY <1>1, <1>4 DEF UpdateImages, End, Writing
  <2>2. /\ h \in Headers /\ {k, r, s} \subseteq Parts
        /\ args.kernel = NULL <=> k = NULL
        /\ args.ramdisk = NULL /\ args.kernel = NULL <=> r = NULL
        /\ s = NULL <=> args.second = NULL /\ (h.second_size = 0 \/ (args.kernel = NULL /\ args.ramdisk = NULL))
        /\ Loaded = [img EXCEPT !.kernel = k, !.ramdisk = r, !.second = s, !.header = H]
    BY <1>2, <2>1, LoadedFacts
  <2>3. img'.kernel = k /\ img'.ramdisk = r /\ img'.second = s /\ img'.header = H
    <3> HIDE DEF k, r, s, H
    <3> QED BY <1>2, <2>1, <2>2 DEF Images
  <2>4. /\ H.page_size = h.page_size
        /\ k = NULL => H.kernel_size = h.kernel_size
        /\ r = NULL => H.ramdisk_size = h.ramdisk_size
        /\ s = NULL => H.second_size = h.second_size
    <3> HIDE DEF k, r, s, h
    <3> QED BY <2>2, SizedFacts
  <2> HIDE DEF k, r, s, H, h
  <2> DEFINE o == HeaderOf(before)
  <2>5. file = before /\ o # NULL /\ ValidHeader(o, Len(before)) /\ h = Asked(o)
    BY <1>1, <1>4 DEF BInv, Commanded, Prepared, Old, h
  <2>6. o \in Headers
    BY <1>2, <2>5, HeaderFacts
  <2>7. /\ h.page_size = Given(args.pagesize, o.page_size) /\ h.kernel_size = o.kernel_size
        /\ h.ramdisk_size = o.ramdisk_size /\ h.second_size = o.second_size
    <3> HIDE DEF o
    <3> QED BY <2>5, <2>6 DEF Asked, Headers
  <2>8. SameHeader'
    <3>1. o' = o /\ before' = before /\ args' = args
      BY <1>1
    <3> HIDE DEF o
    <3>2. /\ k = NULL => H.kernel_size = o.kernel_size
          /\ r = NULL => H.ramdisk_size = o.ramdisk_size
          /\ s = NULL => H.second_size = o.second_size
          /\ H.page_size = Given(args.pagesize, o.page_size)
      BY <2>4, <2>7
    <3>3. /\ (k = NULL) <=> (args.kernel = NULL)
          /\ (r = NULL) <=> (args.kernel = NULL /\ args.ramdisk = NULL)
          /\ args.second # NULL => s # NULL
          /\ r = NULL /\ args.second = NULL => s = NULL
      BY <2>2
    <3> QED BY <2>3, <2>5, <3>1, <3>2, <3>3 DEF SameHeader, o
  <2>9. Untouched'
    <3>1. before' = before /\ file' = before /\ before \in Seq(Cell) /\ (before # <<>> => before[1] \in First)
      BY <1>1, <1>2, <2>5
    <3>2. Same(file, Behind)'
      BY <3>1 DEF Same, Behind
    <3> QED BY <2>1, <2>8, <3>1, <3>2 DEF Untouched
  <2>10. InFront'
    <3> SUFFICES ASSUME NEW i \in Ahead(args, o) PROVE i \in DOMAIN before
      BY <1>1, <2>5 DEF InFront, Ahead
    <3>1. o.page_size > 0 /\ TotalSize(o) =< Len(before) /\ Len(before) \in Nat
      BY <1>2, <2>5, <2>6, ValidFacts
    <3>2. Ahead(args, o) \subseteq 1 .. Len(before)
      BY <2>6, <3>1, AheadInside
    <3> QED BY <1>2, <2>5, <3>2
  <2>11. RefusedUpdateKeeps'
    BY <2>1 DEF RefusedUpdateKeeps
  <2> QED BY <2>9, <2>10, <2>11 DEF FInv
<1>5. CASE Writing' /\ args.command # "update"
  BY <1>1, <1>5 DEF FInv, Untouched, InFront, RefusedUpdateKeeps
<1> QED BY <1>3, <1>4, <1>5

LEMMA WriteHeaderLeaves == ASSUME BInv, FInv, WriteHeader PROVE FInv'
<1> DEFINE h == img.header
           head == <<<<"header", h>>>> \o Zeros(h.page_size - 1)
<1>1. /\ pc = "header" /\ pc' = "ramdisk" /\ file' = Flushed /\ tail'.at = 0
      /\ img.kernel = NULL => tail'.cells = head
      /\ UNCHANGED <<args, img, status, before>>
  BY DEF WriteHeader, Put
<1>2. Writing /\ Writing'
  BY <1>1 DEF Writing
<1>3. h \in Headers /\ h.page_size > 0
  BY <1>2, WritingFacts
<1>4. Len(head) = h.page_size
  BY <1>3, HeadFacts DEF Head1
<1> HIDE DEF head
<1> QED BY <1>1, <1>2, <1>4, StillWriting

LEMMA WriteRamdiskLeaves == ASSUME BInv, FInv, WriteRamdisk PROVE FInv'
<1>1. /\ pc = "ramdisk" /\ pc' = "second" /\ UNCHANGED <<args, img, status, before>>
      /\ \/ file' = file /\ tail' = tail
         \/ img.ramdisk # NULL /\ file' = Flushed /\ tail'.at = RamdiskAt(img.header)
  BY DEF WriteRamdisk, Put
<1>2. Writing /\ Writing'
  BY <1>1 DEF Writing
<1>3. img.ramdisk # NULL => RamdiskAt(img.header) >= Front /\ Replaces
  <2> DEFINE at == RamdiskAt(img.header)
             p == img.header.page_size
             n == img.header.kernel_size
  <2>1. at \in Nat /\ p \in Nat /\ n \in Nat /\ p + n =< at
    BY <1>2, WritingFacts
  <2> HIDE DEF at, p, n
  <2>2. at >= p
    BY <2>1
  <2>3. img.ramdisk # NULL => Front \in {p, at}
    BY DEF Front, at, p
  <2> QED BY <2>1, <2>2, <2>3 DEF Replaces, at
<1> QED BY <1>1, <1>2, <1>3, StillWriting

LEMMA WriteSecondLeaves == ASSUME BInv, FInv, WriteSecond PROVE FInv'
<1>1. /\ pc = "second" /\ UNCHANGED <<args, img, before, device>>
      /\ \/ pc' = "truncate" /\ file' = file /\ tail' = tail /\ status' = status
         \/ /\ pc' = "truncate" /\ img.second # NULL /\ file' = Flushed
            /\ tail'.at = SecondAt(img.header) /\ status' = status
         \/ /\ img.header.second_size # 0 /\ img.second = NULL /\ pc' = "exited" /\ file' = Flushed
  BY DEF WriteSecond, Put, End
<1>2. Writing
  BY <1>1 DEF Writing
<1>3. img.second # NULL => SecondAt(img.header) >= Front /\ Replaces
  <2> DEFINE at == SecondAt(img.header)
             ra == RamdiskAt(img.header)
             p == img.header.page_size
             n == img.header.kernel_size
             m == img.header.ramdisk_size
  <2>1. {at, ra, p, n, m} \subseteq Nat /\ p + n =< ra /\ ra + m =< at
    BY <1>2, WritingFacts
  <2> HIDE DEF at, ra, p, n, m
  <2>2. at >= p /\ at >= ra
    BY <2>1
  <2>3. Front \in {p, ra, at}
    BY DEF Front, at, ra, p
  <2> QED BY <2>1, <2>2, <2>3 DEF Replaces, at
<1>4. CASE pc' = "truncate"
  <2>1. Writing'
    BY <1>4 DEF Writing
  <2> QED BY <1>1, <1>2, <1>3, <1>4, <2>1, StillWriting
<1>5. CASE img.header.second_size # 0 /\ img.second = NULL /\ pc' = "exited" /\ file' = Flushed
  <2>1. args.command = "update" => Same(file', Behind)
    <3>1. tail.cells \in Seq(Cell) /\ Len(tail.cells) =< Len(tail.cells)
      BY DEF BInv, Types
    <3> QED BY <1>1, <1>2, <1>5, <3>1, FlushKeeps DEF FInv, Flushed
  <2>2. args.command = "update" => {args.kernel, args.ramdisk, args.second} = {NULL} /\ ~Replaces
    <3> SUFFICES ASSUME args.command = "update"
                 PROVE  args.kernel = NULL /\ args.ramdisk = NULL /\ args.second = NULL /\ ~Replaces
      OBVIOUS
    <3>1. img.ramdisk = NULL
      BY <1>2, <1>5 DEF BInv, PartsLoaded
    <3> QED BY <1>2, <1>5, <3>1 DEF FInv, Untouched, SameHeader, Replaces
  <2>3. RefusedUpdateKeeps'
    <3> SUFFICES ASSUME args.command = "update"
                 PROVE  \A k \in DOMAIN before : k > img.header.page_size => file'[k] = before[k]
      BY <1>1, <1>5, <2>2 DEF RefusedUpdateKeeps
    <3> QED BY <2>1, <2>2 DEF Same, Behind
  <2> QED BY <1>1, <1>2, <1>5, <2>1, <2>3, NoMoreWriting DEF Same
<1> QED BY <1>1, <1>4, <1>5

LEMMA FinishLeaves == ASSUME BInv, FInv, Finish PROVE FInv'
<1>1. pc = "truncate" /\ Writing /\ pc' = "exited" /\ UNCHANGED <<args, img, before, device>>
  BY DEF Finish, End, Writing
<1> DEFINE h == img.header
<1>2. /\ h.page_size \in Nat /\ h.page_size > 0 /\ TotalSize(h) \in Nat /\ img.size \in Nat
      /\ file \in Seq(Cell) /\ (device => img.size = Len(file))
  BY <1>1, WritingFacts
<1>3. /\ file' \in Seq(Cell) /\ img.size =< Len(file') /\ (device => Len(file') = img.size)
      /\ \A k \in 1 .. img.size : k =< Len(Flushed) => file'[k] = Flushed[k]
      /\ status' \in {"ok", "refused"}
      /\ status' = "refused" => device /\ tail.at + Len(tail.cells) > Len(file)
  BY FinishedFacts
<1>4. tail.at \in Nat /\ tail.cells \in Seq(Cell) /\ Len(tail.cells) \in Nat
      /\ (\/ tail.at + Len(tail.cells) =< TotalSize(h)
          \/ tail.at + Len(tail.cells) = TotalSize(h) + h.page_size)
  BY <1>1 DEF BInv, Types, TailFits, EndsAt
<1>5. RefusedUpdateKeeps'
  <2>1. status' = "refused" => device /\ Len(file') < TotalSize(h) + h.page_size
    <3> HIDE DEF h
    <3>1. Len(file') \in Nat /\ Len(file) \in Nat
      BY <1>2, <1>3
    <3> QED BY <1>2, <1>3, <1>4, <3>1, SMTT(40)
  <2> QED BY <1>1, <2>1 DEF RefusedUpdateKeeps
<1>6. ASSUME args.command = "update", NEW k \in Behind, k =< img.size
      PROVE  k \in DOMAIN file' /\ file'[k] = before[k]
  <2>1. Same(Flushed, Behind)
    <3>1. tail.cells \in Seq(Cell) /\ Len(tail.cells) =< Len(tail.cells)
      BY <1>4
    <3> QED BY <1>1, <1>6, <3>1, FlushKeeps DEF FInv, Flushed
  <2>2. Flushed \in Seq(Cell) /\ before \in Seq(Cell)
    BY <1>1, <1>2, <1>6, WritingFacts, FlushedFacts DEF FInv, Untouched
  <2>3. k \in 1 .. Len(Flushed) /\ Flushed[k] = before[k]
    BY <2>1, <2>2 DEF Same
  <2>4. k \in 1 .. img.size /\ k =< Len(Flushed) /\ k \in 1 .. Len(file')
    BY <1>2, <1>3, <1>6, <2>2, <2>3
  <2> QED BY <1>3, <2>3, <2>4
<1> QED BY <1>1, <1>5, <1>6, NoMoreWriting

LEMMA KillLeaves == ASSUME BInv, FInv, Kill PROVE FInv'
<1>1. /\ pc # "exited" /\ pc' = "exited" /\ status' = "killed" /\ args.command \in {"create", "update"}
      /\ UNCHANGED <<device, args, img, before>>
  BY DEF Kill, End
<1>2. PICK n \in 0 .. Len(tail.cells) : file' = WriteAt(file, tail.at, SubSeq(tail.cells, 1, n))
  BY DEF Kill
<1>3. RefusedUpdateKeeps'
  BY <1>1 DEF RefusedUpdateKeeps
<1>4. tail.at \in Nat /\ tail.cells \in Seq(Cell) /\ Len(tail.cells) \in Nat
  BY DEF BInv, Types
<1>5. SubSeq(tail.cells, 1, n) \in Seq(Cell) /\ Len(SubSeq(tail.cells, 1, n)) = n
  BY <1>4
<1>6. CASE Writing /\ pc # "header"
  <2> DEFINE w == SubSeq(tail.cells, 1, n)
  <2>1. w \in Seq(Cell) /\ Len(w) =< Len(tail.cells) /\ file' = WriteAt(file, tail.at, w)
    BY <1>2, <1>4, <1>5
  <2> HIDE DEF w
  <2>2. args.command = "update" => Same(file', Behind)
    BY <1>6, <2>1, FlushKeeps DEF FInv
  <2> QED BY <1>1, <1>3, <1>6, <2>2, NoMoreWriting DEF Same
<1>7. CASE ~Writing \/ pc = "header"
  <2>1. tail = NoTail /\ pc # "extract" /\ Running
    BY <1>1, <1>7 DEF BInv, Commanded, Prepared, Running
  <2>2. file # NULL /\ file \in Seq(Cell)
    BY <2>1 DEF BInv, Types, Commanded, Parts
  <2>3. SubSeq(tail.cells, 1, n) = <<>>
    BY <1>2, <2>1 DEF NoTail
  <2>4. file' = file
    BY <1>2, <1>4, <2>2, <2>3, WriteNothing
  <2>5. pc \in {"config", "images", "header"}
    BY <1>1, <1>7, <2>1 DEF BInv, Types, Writing
  <2>6. args.command = "update" => file = before
    BY <2>5 DEF BInv, Commanded
  <2>7. (file # <<>> => file[1] \in First) /\ ~Writing'
    BY <1>1, <2>2 DEF BInv, Types, Writing
  <2>8. CASE args.command = "update"
    BY <1>1, <2>2, <2>4, <2>6, <2>7, <2>8, NotWriting
  <2>9. CASE args.command # "update"
    BY <1>1, <2>9 DEF FInv, Untouched, InFront, RefusedUpdateKeeps
  <2> QED BY <2>8, <2>9
<1> QED BY <1>6, <1>7

LEMMA NextFInv == BInv /\ FInv /\ [Next]_vars => FInv'
<1> SUFFICES ASSUME BInv, FInv, [Next]_vars PROVE FInv'
  OBVIOUS
<1>1. ASSUME NEW a \in Arguments, Create(a) \/ Update(a) PROVE FInv'
  BY <1>1, NewCommandLeaves
<1>2. CASE UpdateHeader
  <2>1. pc = "config" /\ ~Writing' /\ UNCHANGED <<file, args, before>>
    BY <1>2 DEF UpdateHeader, End, Writing
  <2> QED BY <2>1, PreparedLeaves
<1>3. CASE UpdateImages
  BY <1>3, UpdateImagesLeaves
<1>4. CASE WriteHeader
  BY <1>4, WriteHeaderLeaves
<1>5. CASE WriteRamdisk
  BY <1>5, WriteRamdiskLeaves
<1>6. CASE WriteSecond
  BY <1>6, WriteSecondLeaves
<1>7. CASE Finish
  BY <1>7, FinishLeaves
<1>8. CASE Extract
  BY <1>8 DEF Extract, NoArgs, FInv, Untouched, InFront, RefusedUpdateKeeps
<1>9. CASE ExtractParts
  <2>1. args.command = "extract" /\ args' = args
    BY <1>9 DEF ExtractParts, BInv, Prepared
  <2> QED BY <2>1 DEF FInv, Untouched, InFront, RefusedUpdateKeeps
<1>10. CASE Kill
  BY <1>10, KillLeaves
<1>11. CASE UNCHANGED vars
  <2>1. Untouched'
    <3>1. Front' = Front /\ (Replaces' <=> Replaces)
      BY <1>11 DEF vars, Front, Replaces
    <3>2. Behind' = Behind
      BY <1>11, <3>1 DEF vars, Behind
    <3>3. SameHeader' <=> SameHeader
      BY <1>11 DEF vars, SameHeader
    <3>4. Same(file, Behind)' <=> Same(file, Behind)
      BY <1>11, <3>2 DEF vars, Same
    <3> QED BY <1>11, <3>1, <3>3, <3>4 DEF vars, FInv, Untouched, Writing
  <2>2. InFront' /\ RefusedUpdateKeeps'
    BY <1>11 DEF vars, FInv, InFront, RefusedUpdateKeeps
  <2> QED BY <2>1, <2>2 DEF FInv
<1> QED BY <1>1, <1>2, <1>3, <1>4, <1>5, <1>6, <1>7, <1>8, <1>9, <1>10, <1>11 DEF Next

\* The inductive invariant of the command: in every reachable state the file, the
\* header and what stdio still holds make the image that is promised.
THEOREM Invariance == Spec => []BInv
BY InitBInv, NextBInv, PTL DEF Spec

\* Whatever the commands, the files and the device are, the file is a sequence of
\* cells that begins with one that says what it is, and a header is only written
\* for an image that has room for what it announces (TotalSize, check_boot_img_header).
THEOREM TypesKept == Spec => []TypeOK
<1>1. BInv => TypeOK
  BY CellFacts DEF BInv, Types, Parts, PartsLoaded, Writing, TypeOK, Images, Headers
<1> QED BY <1>1, Invariance, PTL

\* Whatever sizes the parts have and in whatever order they are replaced, between
\* two commands the image holds the parts it was last given, each where the header
\* says (update_images and write_bootimg): no part is overwritten by another one or
\* by the padding of one, also when commands in between were refused or killed.
THEOREM PartsStored == Spec => []Stored
<1>1. BInv => Stored
  BY DEF BInv, Kept, Running, Settled, Stored
<1> QED BY <1>1, Invariance, PTL

\* -x returns the parts that -u and --create were given: extract_second and
\* write_bootimg agree where the second stage is, though they compute it differently.
THEOREM PartsExtracted == Spec => []Extracted
<1>1. BInv => Extracted
  BY DEF BInv
<1> QED BY <1>1, Invariance, PTL

\* The second part of the invariant: what an update leaves alone.
THEOREM Leaves == Spec => []FInv
BY Invariance, InitFInv, NextFInv, PTL DEF Spec

\* A refused -u leaves the image as it was, unless it is of a device that has no
\* room for the padding of its last part, or of the entries alone where there is a
\* second stage: that one writes the header page, with the new entries, and not one
\* cell behind it (abootimg.c:684-689).
THEOREM RefusalKeeps == Spec => []RefusedUpdateKeeps
<1>1. FInv => RefusedUpdateKeeps
  BY DEF FInv
<1> QED BY <1>1, Leaves, PTL

\* At every step of a -u, and when it is killed, refused or crashes at any of them,
\* what lies between the header page and the first part that it was given is as it was:
\* write_bootimg seeks to each part it writes and needs no part it does not replace.
THEOREM FrontKept == Spec => []InFront
<1>1. FInv => InFront
  BY DEF FInv
<1> QED BY <1>1, Leaves, PTL

\* A file that --create or -u has written has the size it was asked to have, or is
\* longer by the page of padding that exit writes behind what ftruncate has cut.
THEOREM SizeKept == Spec => []SizeAsAsked
<1>1. BInv => SizeAsAsked
  BY DEF BInv
<1> QED BY <1>1, Invariance, PTL
=============================================================================
