---------------------------- MODULE SparseWriter ----------------------------
(***************************************************************************)
(* sparse_file_write and sparse_file_callback (sparse.c) over              *)
(* output_file.c: a cookie is written out once, in the sparse format or,   *)
(* seeking over the gaps, as the plain image.  A step writes one chunk: it *)
(* is made of several calls of write or lseek, any of which may fail, at   *)
(* most MaxFaults times in all, and leaves the ones before it in the file. *)
(*                                                                         *)
(* The model ends with the fd outputs: what the callback outputs do        *)
(* differently is that nothing cuts a plain image to its length.           *)
(***************************************************************************)
EXTENDS SparseFormat

CONSTANTS
  Cookies,                   \* the cookies written: [list, len], len in bytes
  MaxFaults                  \* how many calls may fail

ASSUME WriterAssumption ==
  /\ MaxFaults \in Nat
  /\ Cookies \subseteq [list : Seq(Nodes), len : Nat]
  /\ \A c \in Cookies :
       /\ Ascending(c.list)
       /\ \A i \in DOMAIN c.list :
            c.list[i].len > 0 /\ c.list[i].block * BlockSize + c.list[i].len =< c.len

VARIABLES
  s, sparse, crc,            \* the arguments
  pc,                        \* what comes next
  bb, last_block,            \* the locals of write_all_blocks
  file,                      \* sparse: the header and the chunks; else: bytes
  pos,                       \* the file position of a plain image
  crc32,                     \* the bytes the checksum was computed from
  ret,                       \* what the caller gets
  faults                     \* history: where calls failed so far

vars == <<s, sparse, crc, pc, bb, last_block, file, pos, crc32, ret, faults>>

Init ==
  /\ s \in Cookies /\ sparse \in BOOLEAN /\ crc \in BOOLEAN
  /\ pc = "open" /\ bb = 1 /\ last_block = 0
  /\ file = <<>> /\ pos = 0 /\ crc32 = <<>> /\ ret = 0 /\ faults = <<>>
-----------------------------------------------------------------------------
\* Mutant: the gap behind the last extent is not counted.
CountInnerChunks == Len(s.list) + Cardinality({i \in DOMAIN s.list : Gap(s.list, i)})

\* sparse_count_chunks.  The length of the image is an int64_t.
CountChunks ==
  Len(s.list) + Cardinality({i \in DOMAIN s.list : Gap(s.list, i)})
    + IF LastBlock(s.list, Len(s.list) + 1) < (s.len + BlockSize - 1) \div BlockSize THEN 1 ELSE 0

Zeros(n) == [k \in 1 .. n |-> Hole]

BytesOf(x, n) == [k \in 1 .. n |-> ByteOf(x, k - 1)]

Padding(x) == BlockSize * NBlocks(x) - x.len

\* The bytes of d after body was written at offset `at`, and after ftruncate.
WriteAt(d, at, body) ==
  [k \in 1 .. IF Len(d) > at + Len(body) THEN Len(d) ELSE at + Len(body) |->
     IF at < k /\ k =< at + Len(body) THEN body[k - at]
     ELSE IF k =< Len(d) THEN d[k] ELSE Hole]

Truncate(d, n) == [k \in 1 .. n |-> IF k =< Len(d) THEN d[k] ELSE Hole]

Chunk(type, chunk_sz, payload) ==
  [type |-> type, chunk_sz |-> chunk_sz, total_sz |-> ChunkHeaderLen + payload, body |-> <<>>]

\* The first n of the calls that write a chunk succeed: its header, then the
\* parts of its body.
PutChunk(chunk, parts, n) ==
  /\ file' = IF n = 0 THEN file
             ELSE Append(file, [chunk EXCEPT !.body = FlattenSeq(SubSeq(parts, 1, n - 1))])
  /\ UNCHANGED pos

\* n of the `all` calls of a step succeed.
Calls(n, all) ==
  /\ n = all \/ Len(faults) < MaxFaults
  /\ faults' = IF n = all THEN faults ELSE Append(faults, pc)

\* write_skip_chunk; a result below 0 is in nobody's hands.
Skip(skip_len) ==
  IF ~sparse
  THEN \E n \in 0 .. 1 :
         Calls(n, 1) /\ pos' = (IF n = 1 THEN pos + skip_len ELSE pos) /\ UNCHANGED file
  ELSE IF skip_len % BlockSize # 0
       THEN UNCHANGED <<file, pos, faults>>
       ELSE \E n \in 0 .. 1 :
              Calls(n, 1) /\ PutChunk(Chunk("dont_care", skip_len \div BlockSize, 0), <<>>, n)
-----------------------------------------------------------------------------
\* output_file_open_fd and output_file_init: without its header there is no
\* output, and nothing to close.
Open ==
  /\ pc = "open"
  /\ \E n \in 0 .. 1 :
       /\ sparse \/ n = 1
       /\ Calls(n, 1)
       /\ file' = IF sparse /\ n = 1
                  THEN <<[type         |-> "header",
                          total_blks   |-> s.len \div BlockSize,
                          total_chunks |-> CountChunks + IF crc THEN 1 ELSE 0]>>
                  ELSE file
       /\ ret' = IF n = 1 THEN 0 ELSE -1
       /\ pc' = IF n = 1 THEN "gap" ELSE "closed"
  /\ UNCHANGED <<s, sparse, crc, bb, last_block, pos, crc32>>

GapBehind == last_block - s.list[bb].block  \* mutant: operands swapped

GapBlocks == s.list[bb].block - last_block

\* write_all_blocks: the gap before the next extent ...
SkipGap ==
  /\ pc = "gap" /\ bb =< Len(s.list)
  /\ pc' = "extent"
  /\ IF s.list[bb].block > last_block
     THEN Skip(GapBlocks * BlockSize)
     ELSE UNCHANGED <<file, pos, faults>>
  /\ UNCHANGED <<s, sparse, crc, bb, last_block, crc32, ret>>

BodyUnpadded(x) == <<BytesOf(x, x.len)>>    \* mutant: no zero_buf

\* ... and the extent.
Body(x) == IF Padding(x) = 0 THEN <<BytesOf(x, x.len)>> ELSE <<BytesOf(x, x.len), Zeros(Padding(x))>>

SumUnpadded(x) == BytesOf(x, x.len)         \* mutant

\* What an extent adds to the checksum: a fill is counted once, however many
\* blocks it has.
Sum(x) == IF x.type = "fill" THEN BytesOf(x, BlockSize) ELSE FlattenSeq(Body(x))

WriteSparse(x) ==
  LET parts == IF x.type = "fill" THEN <<BytesOf(x, WordLen)>> ELSE Body(x)
      chunk == Chunk(IF x.type = "fill" THEN "fill" ELSE "raw", NBlocks(x), Len(FlattenSeq(parts)))
      all   == Len(parts) + 1
  IN \E n \in 0 .. all :
       /\ Calls(n, all) /\ PutChunk(chunk, parts, n)
       /\ crc32' = IF crc /\ n = all THEN crc32 \o Sum(x) ELSE crc32
       /\ ret' = IF n = all THEN 0 ELSE -1

\* A plain fill is written block by block and never padded; other data is
\* padded by a seek.
WriteNormal(x) ==
  LET padded == x.type # "fill" /\ Padding(x) > 0
      pieces == IF x.type = "fill"
                THEN [k \in 1 .. NBlocks(x) |-> BytesOf(x, CellOf(x, x.block + k - 1).bytes)]
                ELSE <<BytesOf(x, x.len)>>
      all    == Len(pieces) + IF padded THEN 1 ELSE 0
  IN \E n \in 0 .. all :
       /\ Calls(n, all)
       /\ ret' = IF n = all THEN 0 ELSE -1
       /\ LET body == FlattenSeq(SubSeq(pieces, 1, IF n > Len(pieces) THEN Len(pieces) ELSE n))
          IN /\ file' = IF body = <<>> THEN file ELSE WriteAt(file, pos, body)
             /\ pos' = pos + Len(body) + IF padded /\ n = all THEN Padding(x) ELSE 0
       /\ UNCHANGED crc32

WriteExtent ==
  /\ pc = "extent"
  /\ IF sparse THEN WriteSparse(s.list[bb]) ELSE WriteNormal(s.list[bb])
  /\ IF ret' = 0
     THEN pc' = "gap" /\ bb' = bb + 1 /\ last_block' = EndBlock(s.list[bb])
     ELSE pc' = "close" /\ UNCHANGED <<bb, last_block>>
  /\ UNCHANGED <<s, sparse, crc>>

\* The rest of the image, behind assert(pad >= 0).
Pad == s.len - last_block * BlockSize

SkipEnd ==
  /\ pc = "gap" /\ bb > Len(s.list)
  /\ pc' = IF Pad < 0 THEN "aborted" ELSE "close"
  /\ IF Pad > 0 THEN Skip(Pad) ELSE UNCHANGED <<file, pos, faults>>
  /\ UNCHANGED <<s, sparse, crc, bb, last_block, crc32, ret>>

\* output_file_close: the crc chunk, or the length of a plain image.  It has no
\* result, and runs after a failed write as well.
Close ==
  /\ pc = "close"
  /\ pc' = "closed"
  /\ IF ~sparse
     THEN \E n \in 0 .. 1 : /\ Calls(n, 1)
                            /\ file' = IF n = 1 THEN Truncate(file, s.len) ELSE file
                            /\ UNCHANGED pos
     ELSE IF crc
          THEN \E n \in 0 .. 2 : /\ Calls(n, 2)
                                 /\ PutChunk(Chunk("crc32", 0, WordLen), <<[k \in 1 .. WordLen |-> "crc"]>>, n)
          ELSE UNCHANGED <<file, pos, faults>>
  /\ UNCHANGED <<s, sparse, crc, bb, last_block, crc32, ret>>

Next == Open \/ SkipGap \/ WriteExtent \/ SkipEnd \/ Close

Spec == Init /\ [][Next]_vars
-----------------------------------------------------------------------------
\* Positions never go below zero, the walk stays inside the list.
TypeOK ==
  /\ s \in [list : Seq(Nodes), len : Nat] /\ sparse \in BOOLEAN /\ crc \in BOOLEAN
  /\ pc \in {"open", "gap", "extent", "close", "closed", "aborted"}
  /\ bb \in 1 .. Len(s.list) + 1 /\ {last_block, pos} \subseteq Nat
  /\ ret \in {0, -1} /\ Len(faults) =< MaxFaults

\* What a record of a sparse file stands for.
Expand(chunk) ==
  CASE chunk.type = "raw"       -> chunk.body
    [] chunk.type = "fill"      -> [k \in 1 .. chunk.chunk_sz * BlockSize |-> chunk.body[1]]
    [] chunk.type = "dont_care" -> Zeros(chunk.chunk_sz * BlockSize)
    [] OTHER                    -> <<>>

\* The image the file stands for.
Expanded == IF sparse THEN FlattenSeq([i \in DOMAIN file |-> Expand(file[i])]) ELSE file

Succeeded == pc = "closed" /\ ret = 0

\* The file a successful write leaves stands for the image of the cookie: every
\* extent at its place, zeros everywhere else.  The code reports what fails while
\* it opens the file or writes an extent; of those failures, and of none, it holds
\* that a 0 stands for a whole image.  A gap or an end that fails goes unnoticed,
\* other than sparse.h:159 says.
Faithful == Succeeded /\ ToSet(faults) \subseteq {"open", "extent"} => Expanded = Image(s)

\* What the header of a sparse file says was known before a chunk was written.
\* A reader takes exactly total_chunks chunks, finds each one total_sz behind
\* the one before, and refuses the file if they do not make total_blks blocks.
WellFormed ==
  Succeeded /\ sparse /\ faults = <<>> =>
    /\ file[1].total_chunks = Len(file) - 1
    /\ file[1].total_blks * BlockSize = Len(Expanded)
    /\ \A i \in 2 .. Len(file) : file[i].total_sz = ChunkHeaderLen + Len(file[i].body)

\* The length resparse reckons with is the length that is written.
SizeOf(f) ==
  Total([i \in 1 .. Len(f) |-> IF i = 1 THEN HeaderLen ELSE ChunkHeaderLen + Len(f[i].body)])

LenAgrees ==
  Succeeded /\ sparse /\ faults = <<>> => SizeOf(file) = FileLen(s.list, crc)

\* assert(pad >= 0) holds.
NoAbort == pc # "aborted"

\* The crc chunk holds the checksum of the expanded data, if the image has no
\* gap and no fill longer than a block: of a gap write_sparse_skip_chunk counts
\* nothing, which sparse.h:156 does not say.
CrcOfData ==
  Succeeded /\ sparse /\ crc /\ faults = <<>>
    /\ (\A i \in DOMAIN file : file[i].type \in {"header", "raw", "crc32"}
                               \/ (file[i].type = "fill" /\ file[i].chunk_sz = 1)) =>
    crc32 = Expanded
=============================================================================
