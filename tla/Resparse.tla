------------------------------ MODULE Resparse ------------------------------
(***************************************************************************)
(* sparse_file_resparse (sparse.c), called the way simg2simg.c calls it:   *)
(* a first pass with no room for results only counts the files, the second *)
(* one hands them out.  Both passes take extents from the front of in_s,   *)
(* splitting the one at the size limit, so the second pass meets the       *)
(* extents the first has already split.                                    *)
(*                                                                         *)
(* One step looks at one extent.  Measuring an extent that lives in a file *)
(* maps it into memory, and splitting one allocates a node: both may fail, *)
(* at most MaxFaults times in all.                                         *)
(***************************************************************************)
EXTENDS SparseFormat

CONSTANTS
  Images,                    \* the lists of the cookies that are resparsed
  MaxLens,                   \* the max_len arguments
  MaxFaults                  \* how many calls may fail

ASSUME ResparseAssumption ==
  /\ Images \subseteq Seq(Nodes)
  /\ \A list \in Images : Ascending(list) /\ \A i \in DOMAIN list : WellPlaced(list[i])
  /\ MaxLens \subseteq UInt
  /\ MaxFaults \in Nat

VARIABLES
  in_s, tmp,                 \* the lists of the two cookies of resparse
  out_s,                     \* the lists handed out, in order
  out_s_count,               \* room for results
  max_len,
  c,                         \* files counted in this pass
  files,                     \* what the first pass returned, -1 before
  scan,                      \* the locals of move_chunks_up_to_len
  done,                      \* both passes have returned
  faults,                    \* history: the calls that failed so far
  origin                     \* history: the list in_s had at the start

vars == <<in_s, tmp, out_s, out_s_count, max_len, c, files, scan, done, faults, origin>>

\* bb: position of the extent looked at; last: that of last_bb, 0 for NULL.
ScanStart == [bb |-> 1, last |-> 0, file_len |-> 0, last_block |-> 0]

Init ==
  /\ \E list \in Images :
       /\ in_s \in [list : {list}, last_used : {list[i].id : i \in DOMAIN list} \cup {NULL}]
       /\ origin = list
  /\ tmp = EmptyList /\ out_s = <<>> /\ out_s_count = 0
  /\ max_len \in MaxLens
  /\ c = 0 /\ files = -1 /\ scan = ScanStart /\ done = FALSE /\ faults = <<>>
-----------------------------------------------------------------------------
RoomForHeader == U(max_len - HeaderLen)     \* mutant: no room for more chunks

\* The room left beside the header, an end skip chunk and a crc chunk.
Room == U(max_len - (HeaderLen + 2 * ChunkHeaderLen + WordLen))

BB == in_s.list[scan.bb]

Count == ChunkLen(BB) + IF BB.block > scan.last_block THEN ChunkHeaderLen ELSE 0

Fits == scan.file_len + Count =< Room

\* What is left for a split extent behind its chunk header, a signed number.
Left == Room - (scan.file_len + ChunkHeaderLen)

InsertAfterFirst(list, chain) == 1          \* mutant: behind the first extent

\* backed_block_list_move of the first n extents of `from` to a list.  The chain
\* goes behind the first extent of `to` whose successor is behind the chain.
InsertAfter(list, chain) ==
  CHOOSE i \in 1 .. Len(list) :
    /\ i = Len(list) \/ list[i+1].block > chain[1].block
    /\ \A j \in 1 .. i-1 : list[j+1].block =< chain[1].block

\* Mutant: the chain replaces what the list held.
MoveOver(to, chain) == IF chain = <<>> THEN to ELSE [list |-> chain, last_used |-> NULL]

MoveTo(to, chain) ==
  IF chain = <<>> THEN to
  ELSE [list      |-> IF to.list = <<>> THEN chain
                      ELSE LET i == InsertAfter(to.list, chain)
                           IN SubSeq(to.list, 1, i) \o chain \o SubSeq(to.list, i+1, Len(to.list)),
        last_used |-> NULL]

\* Mutant: last_used of the list the chain leaves is not reset.
MoveFromKeeps(from, n) == [from EXCEPT !.list = SubSeq(@, n+1, Len(@))]

MoveFrom(from, n) ==
  IF n = 0 THEN from ELSE [list |-> SubSeq(from.list, n+1, Len(from.list)), last_used |-> NULL]

HasRoomForMore == c + 1 < out_s_count       \* mutant: the last result is not used

\* There is room for the file in out_s.
HasRoom == c < out_s_count

\* The rest of the loop body of sparse_file_resparse, after the first n extents
\* of `from` went to a new cookie: hand that out or keep its extents in tmp,
\* then go round again, or give everything in tmp back to in_s and return.
FinishFile(from, n, more) ==
  LET chain == SubSeq(from.list, 1, n)
      rest  == MoveFrom(from, n)
      kept  == IF HasRoom THEN tmp ELSE MoveTo(tmp, chain)
  IN /\ out_s' = IF HasRoom THEN Append(out_s, MoveTo(EmptyList, chain)) ELSE out_s
     /\ scan' = ScanStart
     /\ IF more
        THEN /\ in_s' = rest /\ tmp' = kept /\ c' = c + 1
             /\ UNCHANGED <<files, out_s_count, done>>
        ELSE /\ in_s' = MoveTo(rest, kept.list) /\ tmp' = EmptyList
             /\ IF files = -1
                THEN files' = c + 1 /\ out_s_count' = c + 1 /\ c' = 0 /\ UNCHANGED done
                ELSE c' = c + 1 /\ done' = TRUE /\ UNCHANGED <<files, out_s_count>>
     /\ UNCHANGED <<max_len, origin>>

Looking == ~done /\ scan.bb =< Len(in_s.list)

\* The extent still fits the file.
TakeChunk ==
  /\ Looking /\ Fits
  /\ scan' = [bb         |-> scan.bb + 1,
              last       |-> scan.bb,
              file_len   |-> scan.file_len + Count,
              last_block |-> EndBlock(BB)]
  /\ UNCHANGED <<in_s, tmp, out_s, out_s_count, max_len, c, files, done, faults, origin>>

MustSplitFirst == scan.last = 0             \* mutant: without the rule of 1/8

\* It does not: split it if the file is empty or more than 1/8 of it is left.
MustSplit == scan.last = 0 \/ Left > Room \div 8

SplitChunk(id) ==
  /\ Looking /\ ~Fits /\ MustSplit
  /\ FinishFile(Split(in_s, scan.bb, U(Left), id), scan.bb, TRUE)
  /\ UNCHANGED faults

StopBefore ==
  /\ Looking /\ ~Fits /\ ~MustSplit
  /\ FinishFile(in_s, scan.last, TRUE)
  /\ UNCHANGED faults

Fault(call) == Len(faults) < MaxFaults /\ faults' = Append(faults, call)

\* The split runs out of memory, which nobody looks at: the whole extent goes
\* to a file it does not fit.
SplitFails ==
  /\ Looking /\ ~Fits /\ MustSplit
  /\ Splits(in_s, scan.bb, U(Left))
  /\ Fault("split")
  /\ FinishFile(in_s, scan.bb, TRUE)

\* Mutant: no last file when nothing is left for it.
EndOfRest ==
  /\ ~done /\ scan.bb > Len(in_s.list) /\ scan.last # 0
  /\ FinishFile(in_s, scan.last, FALSE)
  /\ UNCHANGED faults

\* The list is exhausted: the last file of the pass.
EndOfList ==
  /\ ~done /\ scan.bb > Len(in_s.list)
  /\ FinishFile(in_s, scan.last, FALSE)
  /\ UNCHANGED faults

\* Mapping the file the extent lives in fails: nothing is moved, and the NULL
\* move_chunks_up_to_len returns looks like the end of the list.
MapFails ==
  /\ Looking /\ BB.type \in {"file", "fd"}
  /\ Fault("map")
  /\ FinishFile(in_s, 0, FALSE)

\* malloc never returns a node that is in use; which other one is immaterial, as
\* long as there is one.
Held == Ids(in_s) \cup Ids(tmp) \cup UNION {Ids(out_s[i]) : i \in DOMAIN out_s}
Fresh == CHOOSE id \in Addr : id \notin Held

Next ==
  \/ TakeChunk
  \/ Addr \ Held # {} /\ SplitChunk(Fresh)
  \/ SplitFails
  \/ StopBefore
  \/ EndOfList
  \/ MapFails

\* The program is sequential: it runs until it returns.
Spec == Init /\ [][Next]_vars /\ WF_vars(Next)
-----------------------------------------------------------------------------
Lists == {in_s, tmp} \cup {out_s[i] : i \in DOMAIN out_s}

\* The locals and lists of the two functions have their C types; last_bb is
\* behind bb.
TypeOK ==
  /\ Lists \subseteq [list : Seq(Nodes), last_used : Addr \cup {NULL}]
  /\ {out_s_count, c, scan.file_len} \subseteq Nat /\ files \in Nat \cup {-1}
  /\ max_len \in MaxLens /\ done \in BOOLEAN
  /\ faults \in Seq({"map", "split"}) /\ Len(faults) =< MaxFaults
  /\ 0 =< scan.last /\ scan.last < scan.bb /\ scan.bb =< Len(in_s.list) + 1

\* The files handed out, what tmp keeps and what is still in in_s.
Everything == FlattenSeq([i \in DOMAIN out_s |-> out_s[i].list]) \o tmp.list \o in_s.list

\* At every step they make up the image, every block once, even when a mapping
\* or a split fails half way.
BlocksKept ==
  /\ \A i, j \in DOMAIN Everything :
       i # j => Covered(Everything[i]) \cap Covered(Everything[j]) = {}
  /\ ImageOf(Everything) = ImageOf(origin)

\* They do so in the order of the image, unless a mapping failed: what was kept
\* in tmp then goes back behind the extents that were not looked at.
InOrder == "map" \notin ToSet(faults) => Ascending(Everything)

\* A resparse that returned has handed out the whole image, unless a call failed:
\* a mapping that does ends it early with a count that looks complete, other than
\* sparse.h:282 says.
Complete == done /\ faults = <<>> => in_s.list = <<>>

\* Every file handed out is less than max_len when written without a crc, also
\* after a mapping failed; only an extent that could not be split makes one longer.
SizeBound ==
  "split" \notin ToSet(faults) =>
    \A i \in DOMAIN out_s : FileLen(out_s[i].list, FALSE) < max_len

\* simg2simg allocates out_s for the result of the first pass and writes out as
\* many as the second returns: they agree.
PassesAgree == done /\ faults = <<>> => c = files /\ Len(out_s) = files

\* A split leaves something on both sides.
NoEmptyExtent == \A l \in Lists : \A i \in DOMAIN l.list : l.list[i].len > 0

\* No list is left with a cached pointer to an extent that moved elsewhere.
CacheLive == \A l \in Lists : l.last_used # NULL => l.last_used \in Ids(l)

\* "Results in sparse files that are at least 7/8ths of the requested size":
\* of the room for chunks, up to the header of the chunk that was not split.
SevenEighths ==
  \A i \in 1 .. Len(out_s)-1 :
    8 * (ChunksLen(out_s[i].list) + ChunkHeaderLen) >= 7 * Room

\* Both passes come to an end.
Terminates == <>done
=============================================================================
