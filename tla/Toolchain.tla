------------------------------ MODULE Toolchain ------------------------------
(***************************************************************************)
(* The tools around the library, one after the other on the same files:    *)
(* img2simg, simg2img, simg2simg and append2simg.  Each reads its input as *)
(* SparseReader does and writes its result as SparseWriter does.  A tool   *)
(* may be killed at any step; it leaves the files as they then are, which  *)
(* is also all that a call that fails does, unless it is swallowed.        *)
(*                                                                         *)
(* The files are raw, a plain image that may still be mounted, sp, the     *)
(* image in either format, ext, what is appended to it, p0 and p1, the     *)
(* parts simg2simg cuts it into, out, the plain image made of sparse ones, *)
(* and tmp, sp.append2simg.                                                *)
(***************************************************************************)
EXTENDS SparseFormat

CONSTANTS
  RawImages, SpImages, Extras,   \* the plain images raw, sp and ext hold at first
  Touched,                   \* what a mounted file system may write to a block
  MaxCommands, MaxKills, MaxTouches,   \* bounds on the length of a behaviour
  MaxFaults                  \* failing calls are the subject of the two modules

ASSUME ToolchainAssumption == {MaxCommands, MaxKills, MaxTouches, MaxFaults} \subseteq Nat

VARIABLES
  disk,                      \* the contents of the files, by name
  fd, cookie, rd,            \* the reader
  s, sparse, crc, pc, bb, last_block, file, pos, crc32, ret, faults,  \* the writer
  cmd,                       \* the tool that runs
  count,                     \* commands, kills and touches so far
  want, cut                  \* history: what the files should stand for

readerVars == <<fd, cookie, rd>>
writerVars == <<s, sparse, crc, pc, bb, last_block, file, pos, crc32, ret, faults>>
vars == <<disk, readerVars, writerVars, cmd, count, want, cut>>

R == INSTANCE SparseReader WITH Files <- {}, origin <- NULL
W == INSTANCE SparseWriter WITH Cookies <- {}

\* A file is wanted to hold, at each byte, one of a set of values.
Exactly(bytes) == [k \in DOMAIN bytes |-> {bytes[k]}]

\* No tool runs: tool is what ran last, step how far it is, ins what is still to
\* be read, parts the lists still to be written behind that to `out`.
Done(tool) == [tool |-> tool, step |-> "exited", ins |-> <<>>, out |-> NULL, parts |-> <<>>]

Init ==
  /\ \E raw \in RawImages, sp \in SpImages, ext \in Extras :
       LET full == [raw |-> raw, sp |-> sp, ext |-> ext]
           Empty == [name \in {"p0", "p1", "out", "tmp"} |-> <<>>]
       IN /\ disk = full @@ Empty
          /\ want = [name \in DOMAIN full |-> Exactly(full[name])]
                      @@ [name \in DOMAIN Empty |-> NULL]
  /\ fd = NULL /\ cookie = NULL /\ rd = R!Idle
  /\ s = [list |-> <<>>, len |-> 0] /\ sparse = FALSE /\ crc = FALSE /\ pc = "idle" /\ bb = 1 /\ last_block = 0
  /\ file = <<>> /\ pos = 0 /\ crc32 = <<>> /\ ret = 0 /\ faults = <<>>
  /\ cmd = Done("none") /\ cut = NULL
  /\ count = [commands |-> 0, kills |-> 0, touches |-> 0]
-----------------------------------------------------------------------------
Running(tool) == cmd.tool = tool /\ cmd.step # "exited"

\* A command starts: open(out) truncates the files it opens this way.
Start(tool, ins, out, truncates) ==
  /\ cmd.step = "exited" /\ count.commands < MaxCommands
  /\ count' = [count EXCEPT !.commands = @ + 1]
  /\ cmd' = [tool |-> tool, step |-> "read", ins |-> ins, out |-> out, parts |-> <<>>]
  /\ disk' = [name \in DOMAIN disk |-> IF name \in truncates THEN <<>> ELSE disk[name]]
  /\ want' = [name \in DOMAIN disk |->
                IF name \in truncates THEN NULL
                ELSE IF name = "raw" THEN Exactly(disk["raw"]) ELSE want[name]]
  /\ UNCHANGED <<writerVars, cut>>

\* img2simg raw sp
Img2simg == Start("img2simg", <<"raw">>, "sp", {"sp"}) /\ R!ReadPlain("raw")

\* simg2img <parts> out
Simg2img(ins) == Start("simg2img", ins, "out", {"out"}) /\ R!Import(ins[1], FALSE, FALSE)

\* simg2simg sp p <max_size>
Simg2simg == Start("simg2simg", <<"sp">>, "p0", {}) /\ R!Import("sp", FALSE, FALSE)

\* append2simg sp ext
Append2simg == Start("append2simg", <<"sp">>, "tmp", {}) /\ R!Import("sp", TRUE, FALSE)

Reading ==
  /\ cmd.step = "read" /\ R!Read
  /\ UNCHANGED <<disk, writerVars, cmd, count, want, cut>>

Exit == cmd' = Done(cmd.tool)

\* sparse_file_write begins with a file that holds `bytes`.
Write(cookie_, format, bytes) ==
  /\ s' = [list |-> cookie_.list, len |-> cookie_.len]
  /\ sparse' = format /\ crc' = FALSE
  /\ pc' = "open" /\ bb' = 1 /\ last_block' = 0
  /\ file' = bytes /\ pos' = 0 /\ crc32' = <<>> /\ ret' = 0 /\ faults' = <<>>

ReadDone == cmd.step = "read" /\ rd.pc = "done"

\* The input is refused, or the assert kills the reader.
ReadFails ==
  /\ cmd.step = "read" /\ (rd.pc = "aborted" \/ (rd.pc = "done" /\ cookie = NULL))
  /\ Exit
  /\ UNCHANGED <<disk, readerVars, writerVars, count, want, cut>>

BaseEmpty == <<>>                           \* mutant: every part truncates out

\* img2simg opens a file it has emptied, simg2img goes on with the one it has.
Base == IF cmd.tool = "img2simg" THEN <<>> ELSE disk[cmd.out]

\* They write what they have read.
WriteRead ==
  /\ cmd.tool \in {"img2simg", "simg2img"} /\ ReadDone /\ cookie # NULL
  /\ Write(cookie, cmd.tool = "img2simg", Base)
  /\ cmd' = [cmd EXCEPT !.step = "write"]
  /\ UNCHANGED <<disk, readerVars, count, want, cut>>

\* The block the input of append2simg goes to; only its own length is checked.
OutputBlock == cookie.len \div BlockSize

ExtendedCookie ==
  LET x == [id |-> R!Fresh, type |-> "fd", src |-> <<"path", "ext">>, off |-> 0,
            len |-> Len(disk["ext"]), block |-> OutputBlock]
      bbl == [list |-> cookie.list, last_used |-> cookie.last_used]
  IN [asserts |-> QueueAsserts(bbl, x), list |-> Queue(bbl, x).list,
      len     |-> cookie.len + Len(disk["ext"])]

WriteAppended ==
  /\ cmd.tool = "append2simg" /\ ReadDone /\ cookie # NULL
  /\ IF Len(disk["ext"]) % BlockSize # 0 \/ ~ExtendedCookie.asserts
     THEN Exit /\ UNCHANGED writerVars
     ELSE Write(ExtendedCookie, TRUE, <<>>) /\ cmd' = [cmd EXCEPT !.step = "write"]
  /\ UNCHANGED <<disk, readerVars, count, want, cut>>

PartsUncut(at) ==                           \* mutant: an extent at the border is in both
  LET Piece(from, to) ==
        [list |-> SelectSeq(cookie.list, LAMBDA x : x.block < to /\ EndBlock(x) > from), len |-> cookie.len]
  IN <<Piece(0, at), Piece(at, Blocks)>>

\* What sparse_file_resparse promises (Resparse): the extents in order, the one
\* at the border split at a block, in cookies as long as the image.
Parts(at) ==
  LET Half(x, from, to) ==
        LET first == IF x.block < from THEN from ELSE x.block
            last  == IF EndBlock(x) > to THEN to ELSE EndBlock(x)
            skip  == (first - x.block) * BlockSize
        IN [x EXCEPT !.block = first,
                     !.off   = IF x.type = "fill" THEN 0 ELSE @ + skip,
                     !.len   = IF EndBlock(x) > to THEN (last - first) * BlockSize ELSE @ - skip]
      Piece(from, to) ==
        LET inside == SelectSeq(cookie.list, LAMBDA x : x.block < to /\ EndBlock(x) > from)
        IN [list |-> [i \in DOMAIN inside |-> Half(inside[i], from, to)], len |-> cookie.len]
  IN <<Piece(0, at), Piece(at, Blocks)>>

\* simg2simg resparses and opens its first result.
WriteParts ==
  /\ cmd.tool = "simg2simg" /\ ReadDone /\ cookie # NULL
  /\ \E at \in 1 .. Blocks :
       /\ Write(Parts(at)[1], TRUE, <<>>)
       /\ cmd' = [cmd EXCEPT !.step = "write", !.parts = <<Parts(at)[2]>>]
  /\ disk' = [disk EXCEPT !["p0"] = <<>>]
  /\ cut' = NULL
  /\ UNCHANGED <<readerVars, count, want>>

Writing ==
  /\ cmd.step = "write" /\ W!Next
  /\ UNCHANGED <<disk, readerVars, cmd, count, want, cut>>
-----------------------------------------------------------------------------
\* The bytes of a file the writer has made: what the model of the writer keeps as
\* records is laid out, what it keeps as sources is read.
Byte(b) == IF R!Resolve(b) = NULL THEN R!Zero ELSE R!Resolve(b)

Flat(f) ==
  LET Tokens(tag, h, n) == [j \in 1 .. n |-> <<tag, h, j>>]
      Laid(c) ==
        IF c.type = "header"
        THEN Tokens("header", [major_version |-> 1, file_hdr_sz |-> HeaderLen, chunk_hdr_sz |-> ChunkHeaderLen,
                               total_blks |-> c.total_blks, total_chunks |-> c.total_chunks], HeaderLen)
        ELSE Tokens("chunk", [chunk_type |-> c.type, chunk_sz |-> c.chunk_sz, total_sz |-> c.total_sz],
                    ChunkHeaderLen) \o [k \in DOMAIN c.body |-> Byte(c.body[k])]
  IN FlattenSeq([i \in DOMAIN f |-> Laid(f[i])])

\* What is on the disk once n bytes were written: nothing truncates tmp.
Left(n) ==
  IF sparse THEN W!WriteAt(disk[cmd.out], 0, SubSeq(Flat(file), 1, n))
  ELSE [k \in DOMAIN file |-> Byte(file[k])]

Full == IF sparse THEN Len(Flat(file)) ELSE 0

Success == cmd.step = "write" /\ pc = "closed" /\ ret = 0

Img2simgEnds ==
  /\ Success /\ cmd.tool = "img2simg"
  /\ disk' = [disk EXCEPT !["sp"] = Left(Full)]
  /\ want' = [want EXCEPT !["sp"] = want["raw"]]
  /\ Exit
  /\ UNCHANGED <<readerVars, writerVars, count, cut>>

\* simg2img goes on with the next file, or is done.
Simg2imgPart ==
  /\ Success /\ cmd.tool = "simg2img" /\ Len(cmd.ins) > 1
  /\ disk' = [disk EXCEPT !["out"] = Left(Full)]
  /\ cmd' = [cmd EXCEPT !.step = "read", !.ins = Tail(@)]
  /\ R!Import(cmd.ins[2], FALSE, FALSE)
  /\ UNCHANGED <<writerVars, count, want, cut>>

Simg2imgEnds ==
  /\ Success /\ cmd.tool = "simg2img" /\ Len(cmd.ins) = 1
  /\ disk' = [disk EXCEPT !["out"] = Left(Full)]
  /\ want' = [want EXCEPT !["out"] = IF cmd.ins[1] = "sp" THEN want["sp"] ELSE cut]
  /\ Exit
  /\ UNCHANGED <<readerVars, writerVars, count, cut>>

\* simg2simg opens the next result, or is done.
Simg2simgPart ==
  /\ Success /\ cmd.tool = "simg2simg" /\ cmd.parts # <<>>
  /\ disk' = [disk EXCEPT !["p0"] = Left(Full), !["p1"] = <<>>]
  /\ cmd' = [cmd EXCEPT !.out = "p1", !.parts = <<>>]
  /\ Write(cmd.parts[1], TRUE, <<>>)
  /\ UNCHANGED <<readerVars, count, want, cut>>

Simg2simgEnds ==
  /\ Success /\ cmd.tool = "simg2simg" /\ cmd.parts = <<>>
  /\ disk' = [disk EXCEPT !["p1"] = Left(Full)]
  /\ cut' = want["sp"]
  /\ Exit
  /\ UNCHANGED <<readerVars, writerVars, count, want>>

\* append2simg renames its temporary file.
Append2simgEnds ==
  /\ Success /\ cmd.tool = "append2simg"
  /\ disk' = [disk EXCEPT !["sp"] = Left(Full), !["tmp"] = <<>>]
  /\ want' = [want EXCEPT !["sp"] = IF @ = NULL THEN NULL ELSE @ \o want["ext"]]
  /\ Exit
  /\ UNCHANGED <<readerVars, writerVars, count, cut>>

\* The tool is killed, or a call of its writer fails and it exits with -1, n bytes
\* into what it writes.
Kill ==
  /\ cmd.step # "exited" /\ count.kills < MaxKills
  /\ count' = [count EXCEPT !.kills = @ + 1]
  /\ \E n \in (IF cmd.step = "write" THEN 0 .. Full ELSE {0}) :
       disk' = IF cmd.step = "write" THEN [disk EXCEPT ![cmd.out] = Left(n)] ELSE disk
  /\ Exit
  /\ UNCHANGED <<readerVars, writerVars, want, cut>>

\* The file system mounted from raw writes to a block while img2simg runs.  What
\* img2simg has written by then holds the old bytes.
Touch ==
  /\ Running("img2simg") /\ count.touches < MaxTouches
  /\ count' = [count EXCEPT !.touches = @ + 1]
  /\ \E b \in 0 .. Len(disk["raw"]) \div BlockSize - 1, new \in Touched :
       LET raw == W!WriteAt(disk["raw"], b * BlockSize, new)
       IN /\ disk' = [disk EXCEPT !["raw"] = raw]
          /\ want' = [want EXCEPT !["raw"] = [k \in DOMAIN @ |-> @[k] \cup {raw[k]}]]
  /\ file' = IF cmd.step = "read" THEN file
             ELSE [i \in DOMAIN file |->
                     IF file[i].type = "header" THEN file[i]
                     ELSE [file[i] EXCEPT !.body = [k \in DOMAIN @ |-> Byte(@[k])]]]
  /\ UNCHANGED <<readerVars, s, sparse, crc, pc, bb, last_block, pos, crc32, ret, faults, cmd, cut>>

Next ==
  \/ Img2simg \/ Simg2simg \/ Append2simg
  \/ \E ins \in {<<"sp">>, <<"p0", "p1">>, <<"p1", "p0">>} : Simg2img(ins)
  \/ Reading \/ ReadFails \/ WriteRead \/ WriteAppended \/ WriteParts
  \/ Writing
  \/ Img2simgEnds \/ Simg2imgPart \/ Simg2imgEnds \/ Simg2simgPart \/ Simg2simgEnds
  \/ Append2simgEnds
  \/ Kill \/ Touch

Spec == Init /\ [][Next]_vars
-----------------------------------------------------------------------------
InBlocks(bytes) == Len(bytes) % BlockSize = 0

\* The image the input of the tool stands for, if it was finished.
Given == IF Head(cmd.ins) \in {"p0", "p1"} THEN cut ELSE want[Head(cmd.ins)]

Fit(list, from, len) ==
  /\ \A i \in DOMAIN list :
       /\ list[i].len > 0 /\ (i > 1 => EndBlock(list[i-1]) =< list[i].block)
       /\ list[i].type = "fd" => list[i].off + list[i].len =< Len(disk[list[i].src[2]])
  /\ list # <<>> => list[1].block >= from /\ EndBlock(list[Len(list)]) * BlockSize =< len

\* While a tool writes, what it writes is in order, without overlaps, and inside the
\* image, also the part of simg2simg that comes next, which begins where this one
\* ends; and the bytes it still has to read are in the files, whatever was written or
\* killed before.  So no assert of the writer fails.  What it was given is an image that
\* was finished and ends at a block.
FitToWrite ==
  cmd.step = "write" /\ Given # NULL /\ InBlocks(Given) =>
    /\ Fit(s.list, 0, s.len)
    /\ \A i \in DOMAIN cmd.parts :
         Fit(cmd.parts[i].list, IF s.list = <<>> THEN 0 ELSE EndBlock(s.list[Len(s.list)]), s.len)

HoldsWhatIsWanted(name) ==
  LET image == R!StandsFor(disk[name])
  IN Len(image) = Len(want[name]) /\ \A k \in DOMAIN image : image[k] \in want[name][k]

\* Whatever the order of the commands, and wherever one was killed: what a tool
\* that exited with 0 has made stands for the image it was given, the parts of
\* simg2simg put together in any order included, and each byte img2simg took from
\* a mounted image is one that was there while it ran.  append2simg leaves its
\* output standing for the old image or for the new one at every step, and a
\* temporary file left by a run that was killed makes no difference.
Preserved ==
  \A name \in DOMAIN disk :
    want[name] # NULL /\ InBlocks(want[name]) => HoldsWhatIsWanted(name)
=============================================================================
