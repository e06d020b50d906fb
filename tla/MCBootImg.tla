----------------------------- MODULE MCBootImg -----------------------------
(***************************************************************************)
(* Instances of BootImg for TLC: pages of two or four cells, parts that    *)
(* end before, at and behind a page boundary, and an empty one.            *)
(***************************************************************************)
EXTENDS BootImg

Part(name, len) == [name |-> name, len |-> len]

Kernels == {Part("k0", 0), Part("k2", 2), Part("k3", 3)}
Ramdisks == {Part("r1", 1), Part("r2", 2)}
Seconds == {Part("s3", 3)}

\* Parts with sizes, and configurations alone.
MCArguments ==
  [command : {"create", "update"}, kernel : Kernels \cup {NULL}, ramdisk : Ramdisks \cup {NULL},
   second : Seconds \cup {NULL}, bootsize : {NULL, 8, 9}, pagesize : {NULL, 4},
   info : {NULL}, bad : {FALSE}]
  \cup
  [command : {"update"}, kernel : {NULL}, ramdisk : Ramdisks \cup {NULL}, second : {NULL},
   bootsize : {NULL}, pagesize : {NULL, 0}, info : {"cmdline"}, bad : BOOLEAN]
=============================================================================
