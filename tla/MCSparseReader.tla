--------------------------- MODULE MCSparseReader ---------------------------
(***************************************************************************)
(* Instances of SparseReader for TLC: files of up to three chunks as any   *)
(* program may have written them, with blocks of two words and headers of  *)
(* two words or, in a later revision of the format, three.                 *)
(***************************************************************************)
EXTENDS SparseReader

Data(v) == <<"data", v>>

Repeat(v, n) == [k \in 1 .. n |-> Data(v)]

\* The chunks: type, blocks, data.
Raw1 == <<"raw", 1, <<Data("a"), Data("b")>>>>
Raw2 == <<"raw", 2, <<Data("c"), Data("d"), Data("a"), Data("a")>>>>
Fill1 == <<"fill", 1, <<Data("a")>>>>
Fill2 == <<"fill", 2, <<Data("a")>>>>
Skip1 == <<"dont_care", 1, <<>>>>
Raw0 == <<"raw", 0, <<>>>>
Unknown == <<"unknown", 0, <<Data("c"), Data("d")>>>>

\* Which header: of a later version, longer, or with too few blocks.
Plain == [major_version |-> 1, file_hdr_sz |-> 2, chunk_hdr_sz |-> 2, missing |-> 0]
Odd == {[Plain EXCEPT !.major_version = 2], [Plain EXCEPT !.file_hdr_sz = 3],
        [Plain EXCEPT !.chunk_hdr_sz = 3], [Plain EXCEPT !.file_hdr_sz = 1],
        [Plain EXCEPT !.missing = 1]}

Header(h, chunks, crc) ==
  LET hdr == [major_version |-> h.major_version, file_hdr_sz |-> h.file_hdr_sz,
              chunk_hdr_sz  |-> h.chunk_hdr_sz,
              total_blks    |-> FoldFunction(LAMBDA c, n : n + c[2], 0, chunks) - h.missing,
              total_chunks  |-> Len(chunks) + IF crc THEN 1 ELSE 0]
  IN <<<<"header", hdr, 1>>, <<"header", hdr, 2>>>> \o Repeat("b", h.file_hdr_sz - 2)

ChunkBytes(h, c) ==
  LET hdr == [chunk_type |-> c[1], chunk_sz |-> c[2], total_sz |-> h.chunk_hdr_sz + Len(c[3])]
  IN <<<<"chunk", hdr, 1>>, <<"chunk", hdr, 2>>>> \o Repeat("b", h.chunk_hdr_sz - 2) \o c[3]

Whole(h, chunks, crc) ==
  Header(h, chunks, crc) \o FlattenSeq([i \in DOMAIN chunks |-> ChunkBytes(h, chunks[i])])

FileOf(h, chunks, crc) ==
  LET whole == Whole(h, chunks, FALSE)
  IN IF crc THEN Whole(h, chunks, TRUE) \o ChunkBytes(h, <<"crc32", 0, <<<<"crc", StandsFor(whole)>>>>>>)
     ELSE whole

Upto(n, S) == UNION {[1 .. m -> S] : m \in 0 .. n}

Common == {Raw1, Raw2, Fill1, Fill2, Skip1}

\* Files as their writers meant them.
Meant ==
  {FileOf(Plain, chunks, FALSE) : chunks \in Upto(3, Common)}
    \cup {FileOf(Plain, chunks, TRUE) : chunks \in Upto(2, Common)}
    \cup {FileOf(h, chunks, FALSE) : h \in Odd, chunks \in Upto(2, Common) \ {<<>>}}
    \cup {[k \in 1 .. n |-> Data(f[k])] : n \in 0 .. 5, f \in [1 .. 5 -> {"a", "b"}]}

ASSUME MeantIsRegular == \A bytes \in Meant : Regular(bytes)

MCFiles ==
  Meant
    \cup {FileOf(Plain, chunks, TRUE) : chunks \in Upto(2, Common \cup {Unknown})}
    \cup {FileOf(Plain, chunks, FALSE) : chunks \in Upto(3, {Raw0, Unknown, Raw1, Fill2})}

\* What an extent may be read from: the file, and its words.
MCSrcs == {<<"path", "in">>, Data("rotten")} \cup UNION {ToSet(bytes) : bytes \in MCFiles}
=============================================================================
