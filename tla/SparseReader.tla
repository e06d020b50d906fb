---------------------------- MODULE SparseReader ----------------------------
(***************************************************************************)
(* sparse_read.c: a file is read into a cookie.  sparse_file_import takes  *)
(* sparse files only, sparse_file_import_auto reads as a plain file what   *)
(* the first refuses, sparse_file_read takes any file as plain.            *)
(*                                                                         *)
(* A file is a sequence of bytes, and a byte of the model a word of the    *)
(* file: <<"data", v>>, byte j of a header <<"header", h, j>> or           *)
(* <<"chunk", c, j>>, or a checksum <<"crc", bytes it was computed from>>. *)
(* A step reads one header, one chunk or one block.                        *)
(***************************************************************************)
EXTENDS SparseFormat

CONSTANTS
  Files,                     \* the files that are read
  MaxFaults                  \* how many allocations of an extent may fail

ASSUME ReaderAssumption == WordLen = 1 /\ {HeaderLen, ChunkHeaderLen} \subseteq Nat \ {0} /\ MaxFaults \in Nat

Headers == [major_version : Nat, file_hdr_sz : Nat, chunk_hdr_sz : Nat, total_blks : Nat, total_chunks : Nat]

Chunks == [chunk_type : {"raw", "fill", "dont_care", "crc32", "unknown"}, chunk_sz : Nat, total_sz : Nat]

Begins(b, tag) == b[1] = tag /\ b[3] = 1

\* The blocks that the first n bytes announce.
Announced(bytes, n) ==
  Total([k \in 1 .. n |-> IF Begins(bytes[k], "chunk") THEN bytes[k][2].chunk_sz ELSE 0])

\* A file may hold anything, but no more blocks than the image, read either way.
ASSUME FilesAssumption ==
  /\ Files \subseteq Seq(Srcs) /\ {<<"path", "in">>, <<"data", "rotten">>} \subseteq Srcs
  /\ \A bytes \in Files :
       /\ \A k \in DOMAIN bytes : /\ bytes[k][1] = "header" => bytes[k][2] \in Headers
                                  /\ bytes[k][1] = "chunk" => bytes[k][2] \in Chunks
       /\ Announced(bytes, Len(bytes)) =< Blocks /\ Len(bytes) =< Blocks * BlockSize

VARIABLES
  disk,                      \* the contents of the files, by name
  fd,                        \* the file read, and the position in it
  cookie,                    \* the sparse_file, or NULL
  rd,                        \* the arguments and locals of the reader
  origin                     \* history: the image the file stood for, and its damage

vars == <<disk, fd, cookie, rd, origin>>

Zero == <<"data", Hole>>

Bytes == disk[fd.path]

\* The header at pos; NULL when the bytes there are none.
Record(bytes, tag, pos, n) ==
  IF /\ pos + n =< Len(bytes)
     /\ bytes[pos+1][1] = tag
     /\ \A j \in 1 .. n : bytes[pos+j] = <<tag, bytes[pos+1][2], j>>
  THEN bytes[pos+1][2] ELSE NULL

HeaderOf(bytes) == Record(bytes, "header", 0, HeaderLen)

Idle == [pc |-> "idle", auto |-> FALSE, crc |-> FALSE, hdr |-> NULL, i |-> 0,
         cur_block |-> 0, crc32 |-> <<>>, faults |-> 0]

EmptyCookie(len) == [list |-> <<>>, last_used |-> NULL, len |-> len]

\* sparse_file_import(fd, crc), and with auto sparse_file_import_auto.
Import(path, auto, crc) ==
  /\ fd' = [path |-> path, pos |-> 0]
  /\ cookie' = NULL
  /\ rd' = [Idle EXCEPT !.pc = "header", !.auto = auto, !.crc = crc]

\* sparse_file_read(s, fd, false, false) into a new cookie.
ReadPlain(path) ==
  /\ fd' = [path |-> path, pos |-> 0]
  /\ cookie' = EmptyCookie(Len(disk[path]))
  /\ rd' = [Idle EXCEPT !.pc = "normal"]

Supported(h) ==
  /\ h # NULL
  /\ h.major_version = 1
  /\ h.file_hdr_sz >= HeaderLen /\ h.chunk_hdr_sz >= ChunkHeaderLen

ChunkAt(bytes, pos) == Record(bytes, "chunk", pos, ChunkHeaderLen)

\* By sparse_format.h each chunk begins total_sz behind the one before: where
\* chunk n is, counted from 0.
StartOf(bytes, n) ==
  LET at[k \in 0 .. n] == IF k = 0 THEN HeaderOf(bytes).file_hdr_sz
                          ELSE at[k-1] + ChunkAt(bytes, at[k-1]).total_sz
  IN at[n]

BodyOf(bytes, n) == StartOf(bytes, n) + HeaderOf(bytes).chunk_hdr_sz

\* The part of the image chunk n stands for, and the parts of the first n.
Expansion(bytes, n) ==
  LET c    == ChunkAt(bytes, StartOf(bytes, n))
      size == c.chunk_sz * BlockSize
  IN CASE c.chunk_type = "raw"       -> SubSeq(bytes, BodyOf(bytes, n) + 1, BodyOf(bytes, n) + size)
       [] c.chunk_type = "fill"      -> [k \in 1 .. size |-> bytes[BodyOf(bytes, n) + 1]]
       [] c.chunk_type = "dont_care" -> [k \in 1 .. size |-> Zero]
       [] OTHER                      -> <<>>

ImageUpTo(bytes, n) == FlattenSeq([k \in 1 .. n |-> Expansion(bytes, k - 1)])

\* The image a file stands for.
StandsFor(bytes) ==
  IF Supported(HeaderOf(bytes)) THEN ImageUpTo(bytes, HeaderOf(bytes).total_chunks) ELSE bytes

\* A file as its writer meant it: no chunk to write is empty; in a sparse file
\* chunks of known types follow each other, each inside the file, and a checksum
\* is the last word of its chunk and right.
Regular(bytes) ==
  LET h == HeaderOf(bytes)
      Chunk(n) == ChunkAt(bytes, StartOf(bytes, n))
  IN /\ \A k \in DOMAIN bytes :
          bytes[k][1] = "chunk" /\ bytes[k][2].chunk_sz = 0 => bytes[k][2].chunk_type \notin {"raw", "fill"}
     /\ Supported(h) =>
          /\ \A n \in 0 .. h.total_chunks - 1 :
               /\ Chunk(n) # NULL /\ Chunk(n).chunk_type # "unknown"
               /\ Chunk(n).total_sz \in h.chunk_hdr_sz .. UIntMod - 1
               /\ StartOf(bytes, n + 1) =< Len(bytes)
               /\ Chunk(n).chunk_type = "crc32" =>
                    /\ Chunk(n).total_sz = h.chunk_hdr_sz + WordLen
                    /\ bytes[BodyOf(bytes, n) + 1] = <<"crc", ImageUpTo(bytes, n)>>
          /\ bytes[Len(bytes)][1] = "crc" =>
               /\ h.total_chunks > 0
               /\ Chunk(h.total_chunks - 1).chunk_type = "crc32"

\* A file is cut short, or a byte of its data rots.
Damaged(bytes) ==
  [damage : {"none"}, bytes : {bytes}]
    \cup [damage : {"cut"}, bytes : {SubSeq(bytes, 1, n) : n \in 0 .. Len(bytes) - 1}]
    \cup [damage : {"rot"}, bytes : {[bytes EXCEPT ![n] = <<"data", "rotten">>] :
                                       n \in {n \in DOMAIN bytes : bytes[n][1] = "data"}}]

Init ==
  \E bytes \in Files : \E left \in Damaged(bytes) :
    /\ disk = [name \in {"in"} |-> left.bytes]
    /\ origin = [image |-> StandsFor(bytes), damage |-> left.damage]
    /\ fd = [path |-> "in", pos |-> 0]
    /\ \/ /\ cookie = NULL
          /\ \E auto, crc \in BOOLEAN :
               rd = [Idle EXCEPT !.pc = "header", !.auto = auto, !.crc = crc]
       \/ /\ cookie = EmptyCookie(Len(left.bytes))
          /\ rd = [Idle EXCEPT !.pc = "normal"]
-----------------------------------------------------------------------------
\* Mutant: import_auto goes on where the sparse reader stopped.
RefuseInPlace(n) ==
  /\ cookie' = IF rd.auto THEN EmptyCookie(Len(Bytes)) ELSE NULL
  /\ rd' = [Idle EXCEPT !.pc = IF rd.auto THEN "normal" ELSE "done", !.auto = rd.auto, !.faults = rd.faults + n]
  /\ UNCHANGED fd

\* Any error of the sparse reader, n of them an allocation: the cookie is
\* destroyed and NULL returned, or import_auto starts again with a plain one.
Refuse(n) ==
  /\ cookie' = IF rd.auto THEN EmptyCookie(Len(Bytes)) ELSE NULL
  /\ rd' = [Idle EXCEPT !.pc = IF rd.auto THEN "normal" ELSE "done", !.auto = rd.auto, !.faults = rd.faults + n]
  /\ fd' = [fd EXCEPT !.pos = 0]

\* sparse_file_import and the head of sparse_file_read_sparse, which reads the
\* header again.
ReadHeader ==
  /\ rd.pc = "header"
  /\ LET h == HeaderOf(Bytes)
     IN IF Supported(h)
        THEN /\ fd' = [fd EXCEPT !.pos = h.file_hdr_sz]
             /\ cookie' = EmptyCookie(h.total_blks * BlockSize)
             /\ rd' = [rd EXCEPT !.pc = "chunk", !.hdr = h]
        ELSE Refuse(0)

Readable(pos, n) == pos + n =< Len(Bytes)

Slice(pos, n) == SubSeq(Bytes, pos + 1, pos + n)

NoMemory == Addr = Ids(cookie)

Fresh == CHOOSE id \in Addr : id \notin Ids(cookie)

Piece(type, src, off, len) ==
  [id |-> Fresh, type |-> type, src |-> src, off |-> off, len |-> U(len), block |-> rd.cur_block]

AddExtent(x) ==
  LET bbl == Queue([list |-> cookie.list, last_used |-> cookie.last_used], x)
  IN cookie' = [list |-> bbl.list, last_used |-> bbl.last_used, len |-> cookie.len]

\* Mutant: the bytes a longer chunk header has are not skipped.
BodyAtShort == fd.pos + ChunkHeaderLen

BodyAt == fd.pos + rd.hdr.chunk_hdr_sz

AdvanceInPlace(pos, blocks, sum) ==         \* mutant: cur_block stays
  /\ fd' = [fd EXCEPT !.pos = pos]
  /\ rd' = [rd EXCEPT !.i = @ + 1, !.crc32 = IF rd.crc THEN @ \o sum ELSE @]

\* The chunk is done: the reader goes on at pos, `blocks` further in the image.
Advance(pos, blocks, sum) ==
  /\ fd' = [fd EXCEPT !.pos = pos]
  /\ rd' = [rd EXCEPT !.i = @ + 1, !.cur_block = @ + blocks,
                      !.crc32 = IF rd.crc THEN @ \o sum ELSE @]

Abort == rd' = [rd EXCEPT !.pc = "aborted"] /\ UNCHANGED <<fd, cookie>>

\* An extent is added, unless the assert of merge_bb fails or there is no memory;
\* what is left to be read of the chunk follows, and may end the file.
Store(x, complete, pos, blocks, sum) ==
  \/ (rd.faults < MaxFaults \/ NoMemory) /\ Refuse(1)
  \/ ~NoMemory /\ IF ~QueueAsserts(cookie, x) THEN Abort
                  ELSE IF complete THEN AddExtent(x) /\ Advance(pos, blocks, sum)
                  ELSE Refuse(0)

\* process_raw_chunk adds the extent before it reads the data, which it does for
\* the checksum only.
RawChunk(blocks, size) ==
  IF size # blocks * BlockSize THEN Refuse(0)
  ELSE Store(Piece("fd", <<"path", fd.path>>, BodyAt, size), rd.crc => Readable(BodyAt, size),
             BodyAt + size, blocks, IF rd.crc THEN Slice(BodyAt, size) ELSE <<>>)

\* process_fill_chunk: the value is its word.
FillChunk(blocks, size) ==
  IF size # WordLen \/ ~Readable(BodyAt, WordLen) THEN Refuse(0)
  ELSE LET word == Bytes[BodyAt + 1]
       IN Store(Piece("fill", word, 0, blocks * BlockSize), TRUE,
                BodyAt + WordLen, blocks, [k \in 1 .. blocks * BlockSize |-> word])

\* process_skip_chunk.
SkipChunk(blocks, size) ==
  IF size # 0 THEN Refuse(0)
  ELSE /\ Advance(BodyAt, blocks, [k \in 1 .. blocks * BlockSize |-> Zero])
       /\ UNCHANGED cookie

\* process_crc32_chunk: the sum is compared when the caller asked for it.
CrcChunk(size) ==
  IF \/ size # WordLen \/ ~Readable(BodyAt, WordLen)
     \/ rd.crc /\ Bytes[BodyAt + 1] # <<"crc", rd.crc32>>
  THEN Refuse(0)
  ELSE Advance(BodyAt + WordLen, 0, <<>>) /\ UNCHANGED cookie

\* A chunk of any other type has no effect, and its data are taken for the next
\* chunk header.
UnknownChunk == Advance(BodyAt, 0, <<>>) /\ UNCHANGED cookie

\* One round of the loop of sparse_file_read_sparse: process_chunk.
ReadChunk ==
  /\ rd.pc = "chunk" /\ rd.i < rd.hdr.total_chunks
  /\ LET c    == Record(Bytes, "chunk", fd.pos, ChunkHeaderLen)
         size == U(c.total_sz - rd.hdr.chunk_hdr_sz)
     IN IF ~Readable(fd.pos, ChunkHeaderLen) THEN Refuse(0)
        ELSE IF c = NULL THEN UnknownChunk
        ELSE CASE c.chunk_type = "raw"       -> RawChunk(c.chunk_sz, size)
               [] c.chunk_type = "fill"      -> FillChunk(c.chunk_sz, size)
               [] c.chunk_type = "dont_care" -> SkipChunk(c.chunk_sz, size)
               [] c.chunk_type = "crc32"     -> CrcChunk(size)
               [] OTHER                      -> UnknownChunk

BlocksAgreeAlways == TRUE                   \* mutant: total_blks is not compared

BlocksAgree == rd.hdr.total_blks = rd.cur_block

EndOfChunks ==
  /\ rd.pc = "chunk" /\ rd.i = rd.hdr.total_chunks
  /\ IF BlocksAgree
     THEN rd' = [rd EXCEPT !.pc = "done"] /\ UNCHANGED <<fd, cookie>>
     ELSE Refuse(0)

Remain == cookie.len - fd.pos

ToRead == IF Remain < BlockSize THEN Remain ELSE BlockSize

\* A block of equal words becomes a fill.
Uniform == ToRead = BlockSize /\ \A k \in 1 .. ToRead : Slice(fd.pos, ToRead)[k] = Bytes[fd.pos + 1]

\* One round of the loop of sparse_file_read_normal, which does not look at the
\* result of the addition.
ReadBlock ==
  /\ rd.pc = "normal" /\ Remain > 0
  /\ LET x == IF Uniform THEN Piece("fill", Bytes[fd.pos + 1], 0, ToRead)
                         ELSE Piece("fd", <<"path", fd.path>>, fd.pos, ToRead)
     IN IF ~Readable(fd.pos, ToRead)
        THEN rd' = [rd EXCEPT !.pc = "done"] /\ cookie' = NULL /\ UNCHANGED fd
        ELSE \/ ~NoMemory /\ IF ~QueueAsserts(cookie, x) THEN Abort
                             ELSE /\ AddExtent(x)
                                  /\ rd' = [rd EXCEPT !.cur_block = @ + 1]
                                  /\ fd' = [fd EXCEPT !.pos = @ + ToRead]
             \/ /\ rd.faults < MaxFaults \/ NoMemory
                /\ rd' = [rd EXCEPT !.cur_block = @ + 1, !.faults = @ + 1]
                /\ fd' = [fd EXCEPT !.pos = @ + ToRead]
                /\ UNCHANGED cookie

EndOfBlocks ==
  /\ rd.pc = "normal" /\ Remain =< 0
  /\ rd' = [rd EXCEPT !.pc = "done"]
  /\ UNCHANGED <<fd, cookie>>

Read == ReadHeader \/ ReadChunk \/ EndOfChunks \/ ReadBlock \/ EndOfBlocks

Next == Read /\ UNCHANGED <<disk, origin>>

Spec == Init /\ [][Next]_vars
-----------------------------------------------------------------------------
\* The locals have their C types, and a plain cookie knows no header.
TypeOK ==
  /\ rd.pc \in {"idle", "header", "chunk", "normal", "done", "aborted"}
  /\ {fd.pos, rd.i, rd.cur_block, rd.faults} \subseteq Nat
  /\ cookie = NULL \/ [list |-> cookie.list, last_used |-> cookie.last_used]
                        \in [list : Seq(Nodes), last_used : Addr \cup {NULL}]
  /\ rd.pc = "normal" => fd.pos =< Len(Bytes)

Accepted == rd.pc = "done" /\ cookie # NULL

\* What a byte of an image is read as now; NULL behind the end of the file.
Resolve(b) ==
  IF b = Hole THEN Zero
  ELSE CASE b[1] = "fill" -> b[2]
         [] b[1] = "fd"   -> LET bytes == disk[b[2][2]] IN IF b[3] < Len(bytes) THEN bytes[b[3] + 1] ELSE NULL
         [] OTHER         -> b

ReadBack == [k \in 1 .. cookie.len |-> Resolve(Image(cookie)[k])]

\* The file ends with a checksum, and every type of chunk in it is known.
Checked ==
  /\ Bytes[Len(Bytes)][1] = "crc"
  /\ \A n \in DOMAIN Bytes : Bytes[n][1] = "chunk" => Bytes[n][2].chunk_type # "unknown"

\* A cookie that is returned stands for the image the file was made for.  A file
\* cut short is refused, but for the data of its last chunk: a caller that asks
\* for no checksum learns nothing of those missing, and wrong bytes are not read
\* for them.  Rot is noticed by the checksum, if the file has one.
Exact ==
  Accepted /\ rd.faults = 0 =>
    IF rd.hdr = NULL
    THEN ReadBack = Bytes
    ELSE origin.damage # "rot" \/ (rd.crc /\ Checked) =>
           /\ Len(ReadBack) = Len(origin.image)
           /\ \A k \in DOMAIN ReadBack :
                ReadBack[k] = origin.image[k] \/ (ReadBack[k] = NULL /\ ~rd.crc)

\* A chunk that announces no block.
EmptyChunk ==
  \E n \in DOMAIN Bytes :
    Bytes[n][1] = "chunk" /\ Bytes[n][2].chunk_sz = 0 /\ Bytes[n][2].chunk_type \in {"raw", "fill"}

\* The writer and resparse take a cookie with extents in order, none empty, none
\* beyond the end: whatever was read, the reader returns such a one.
ReadyToWrite ==
  Accepted /\ ~EmptyChunk =>
    /\ Ascending(cookie.list)
    /\ \A x \in ToSet(cookie.list) : x.len > 0 /\ x.block * BlockSize + x.len =< cookie.len

\* import_auto takes for plain what is not sparse: no file that begins with the
\* header of a sparse file ends as a plain cookie.
SparseStaysSparse == Accepted /\ rd.auto /\ rd.hdr = NULL => HeaderOf(Bytes) = NULL

\* No file makes the assert of merge_bb fail, but for one with an empty chunk.
NoAbort == rd.pc = "aborted" => EmptyChunk
=============================================================================
