----------------------------- MODULE MCResparse -----------------------------
(***************************************************************************)
(* Instances of Resparse for TLC: blocks of 16 bytes, the real sizes of    *)
(* the headers.  An image is up to three extents, each one short, about as *)
(* long as a file may get, or twice that, behind a gap or not.             *)
(***************************************************************************)
EXTENDS Resparse

Shapes == [type : {"fd", "fill"}, gap : {0, 1}, len : {16, 112, 124, 240}]

Place(shape, at, id) ==
  [id |-> id, type |-> shape.type, src |-> "A", off |-> IF shape.type = "fill" THEN 0 ELSE 16 * id,
   len |-> shape.len, block |-> at + shape.gap]

Lay1(s1) == <<Place(s1, 0, 1)>>
Lay2(s1, s2) == Append(Lay1(s1), Place(s2, EndBlock(Lay1(s1)[1]), 2))
Lay3(s1, s2, s3) == Append(Lay2(s1, s2), Place(s3, EndBlock(Lay2(s1, s2)[2]), 3))

MCImages ==
  {<<>>} \cup {Lay1(s1) : s1 \in Shapes}
         \cup {Lay2(s1, s2) : s1, s2 \in Shapes}
         \cup {Lay3(s1, s2, s3) : s1, s2, s3 \in {s \in Shapes : s.len # 124}}

\* A file has room for at least eight blocks beside its own chunks.
ASSUME RoomForEight ==
  \A m \in MaxLens : m >= HeaderLen + 2 * ChunkHeaderLen + WordLen + 8 * BlockSize
=============================================================================
