--------------------------- MODULE ToolkitProofs ---------------------------
(***************************************************************************)
(* Proofs about Toolkit, whatever the scripts, failures and edits are:     *)
(* what is mounted, which edits are kept, and that nothing stale is packed *)
(* or written to the board.                                                *)
(***************************************************************************)
EXTENDS Toolkit, SequenceTheorems, TLAPS

\* The lines of a script, and the one that comes next.
Lines(s) == Commands[s] \o <<<<"done">>>>

At == Len(Lines(script)) - Len(todo) + 1

\* What is left of a script is its lines from the one that comes next.
Where ==
  \/ script = "none" /\ todo = <<>>
  \/ /\ script \in DOMAIN Commands /\ At \in 1 .. Len(Lines(script)) + 1
     /\ todo = SubSeq(Lines(script), At, Len(Lines(script)))

\* Script s is at one of these of its lines.
Doing(s, K) == script = s /\ At \in K

\* The commands, and what stands at which line of which script.
CommandSet ==
  {<<"umount">>, <<"clear">>, <<"extract">>, <<"convert">>, <<"mount">>, <<"unlogo">>, <<"unboot">>,
   <<"clean">>, <<"compile">>, <<"rm_initrd">>, <<"gunzip">>, <<"rm_ramdisk">>, <<"gzip">>,
   <<"sync">>, <<"pack">>, <<"identify">>, <<"reset">>, <<"check">>, <<"load">>, <<"initial">>,
   <<"done">>}
  \cup ({"rm", "make", "write"} \X Parts)

-----------------------------------------------------------------------------
(* Which line of which script is which command.                            *)

Pages == {
  <<"unpack", 1, "umount">>, <<"unpack", 2, "clear">>, <<"unpack", 3, "extract">>,
  <<"unpack", 4, "convert">>, <<"unpack", 5, "mount">>, <<"unpack", 6, "unlogo">>,
  <<"unpack", 7, "unboot">>, <<"unpack", 8, "done">>,
  <<"recreate", 1, "sync">>, <<"recreate", 2, "rm">>, <<"recreate", 3, "make">>,
  <<"recreate", 4, "rm">>, <<"recreate", 5, "make">>, <<"recreate", 6, "rm">>,
  <<"recreate", 7, "make">>, <<"recreate", 8, "sync">>, <<"recreate", 9, "done">>,
  <<"repack", 1, "sync">>, <<"repack", 2, "sync">>, <<"repack", 3, "rm">>,
  <<"repack", 4, "make">>, <<"repack", 5, "rm">>, <<"repack", 6, "make">>,
  <<"repack", 7, "rm">>, <<"repack", 8, "make">>, <<"repack", 9, "sync">>,
  <<"repack", 10, "pack">>, <<"repack", 11, "sync">>, <<"repack", 12, "done">>,
  <<"remount", 1, "sync">>, <<"remount", 2, "umount">>, <<"remount", 3, "mount">>,
  <<"remount", 4, "done">>,
  <<"unmount", 1, "sync">>, <<"unmount", 2, "umount">>, <<"unmount", 3, "done">>,
  <<"extract_initrd", 1, "rm_initrd">>, <<"extract_initrd", 2, "gunzip">>,
  <<"extract_initrd", 3, "done">>,
  <<"recreate_initrd", 1, "rm_ramdisk">>, <<"recreate_initrd", 2, "gzip">>,
  <<"recreate_initrd", 3, "done">>,
  <<"cleanup", 1, "umount">>, <<"cleanup", 2, "clear">>, <<"cleanup", 3, "clean">>,
  <<"cleanup", 4, "done">>,
  <<"build", 1, "umount">>, <<"build", 2, "clear">>, <<"build", 3, "clean">>,
  <<"build", 4, "compile">>, <<"build", 5, "done">>}

FlashPage == {
  <<"flash", 1, "sync">>, <<"flash", 2, "sync">>, <<"flash", 3, "rm">>,
  <<"flash", 4, "make">>, <<"flash", 5, "rm">>, <<"flash", 6, "make">>,
  <<"flash", 7, "rm">>, <<"flash", 8, "make">>, <<"flash", 9, "sync">>,
  <<"flash", 10, "identify">>, <<"flash", 11, "reset">>, <<"flash", 12, "check">>,
  <<"flash", 13, "load">>, <<"flash", 14, "initial">>, <<"flash", 15, "write">>,
  <<"flash", 16, "write">>, <<"flash", 17, "write">>, <<"flash", 18, "sync">>,
  <<"flash", 19, "done">>}

Book == Pages \cup FlashPage

Length == [unpack |-> 8, recreate |-> 9, repack |-> 12, flash |-> 19, remount |-> 4, unmount |-> 3,
           extract_initrd |-> 3, recreate_initrd |-> 3, cleanup |-> 4, build |-> 5]

LEMMA ScriptNames ==
  DOMAIN Commands = {"unpack", "recreate", "repack", "flash", "remount", "unmount",
                     "extract_initrd", "recreate_initrd", "cleanup", "build"}
BY DEF Commands

LEMMA UnpackLines ==
  /\ Lines("unpack") \in Seq(CommandSet)
  /\ Len(Lines("unpack")) = 8
  /\ Lines("unpack")[1] = <<"umount">>
  /\ Lines("unpack")[2] = <<"clear">>
  /\ Lines("unpack")[3] = <<"extract">>
  /\ Lines("unpack")[4] = <<"convert">>
  /\ Lines("unpack")[5] = <<"mount">>
  /\ Lines("unpack")[6] = <<"unlogo">>
  /\ Lines("unpack")[7] = <<"unboot">>
  /\ Lines("unpack")[8] = <<"done">>
<1>1. Lines("unpack") \in Seq(CommandSet)
  BY DEF Lines, Commands, Unpack, Umount, CommandSet, Parts
<1>2. /\ Len(Lines("unpack")) = 8
      /\ Lines("unpack")[1] = <<"umount">>
      /\ Lines("unpack")[2] = <<"clear">>
      /\ Lines("unpack")[3] = <<"extract">>
      /\ Lines("unpack")[4] = <<"convert">>
      /\ Lines("unpack")[5] = <<"mount">>
      /\ Lines("unpack")[6] = <<"unlogo">>
      /\ Lines("unpack")[7] = <<"unboot">>
      /\ Lines("unpack")[8] = <<"done">>
  BY DEF Lines, Commands, Unpack, Umount
<1> QED BY <1>1, <1>2

LEMMA RecreateLines ==
  /\ Lines("recreate") \in Seq(CommandSet)
  /\ Len(Lines("recreate")) = 9
  /\ Lines("recreate")[1] = <<"sync">>
  /\ Lines("recreate")[2] = <<"rm", "logo">>
  /\ Lines("recreate")[3] = <<"make", "logo">>
  /\ Lines("recreate")[4] = <<"rm", "system">>
  /\ Lines("recreate")[5] = <<"make", "system">>
  /\ Lines("recreate")[6] = <<"rm", "boot">>
  /\ Lines("recreate")[7] = <<"make", "boot">>
  /\ Lines("recreate")[8] = <<"sync">>
  /\ Lines("recreate")[9] = <<"done">>
<1>1. Lines("recreate") \in Seq(CommandSet)
  BY DEF Lines, Commands, Recreate, CommandSet, Parts
<1>2. /\ Len(Lines("recreate")) = 9
      /\ Lines("recreate")[1] = <<"sync">>
      /\ Lines("recreate")[2] = <<"rm", "logo">>
      /\ Lines("recreate")[3] = <<"make", "logo">>
      /\ Lines("recreate")[4] = <<"rm", "system">>
      /\ Lines("recreate")[5] = <<"make", "system">>
      /\ Lines("recreate")[6] = <<"rm", "boot">>
      /\ Lines("recreate")[7] = <<"make", "boot">>
      /\ Lines("recreate")[8] = <<"sync">>
      /\ Lines("recreate")[9] = <<"done">>
  BY DEF Lines, Commands, Recreate
<1> QED BY <1>1, <1>2

LEMMA RepackLines ==
  /\ Lines("repack") \in Seq(CommandSet)
  /\ Len(Lines("repack")) = 12
  /\ Lines("repack")[1] = <<"sync">>
  /\ Lines("repack")[2] = <<"sync">>
  /\ Lines("repack")[3] = <<"rm", "logo">>
  /\ Lines("repack")[4] = <<"make", "logo">>
  /\ Lines("repack")[5] = <<"rm", "system">>
  /\ Lines("repack")[6] = <<"make", "system">>
  /\ Lines("repack")[7] = <<"rm", "boot">>
  /\ Lines("repack")[8] = <<"make", "boot">>
  /\ Lines("repack")[9] = <<"sync">>
  /\ Lines("repack")[10] = <<"pack">>
  /\ Lines("repack")[11] = <<"sync">>
  /\ Lines("repack")[12] = <<"done">>
<1>1. Lines("repack") \in Seq(CommandSet)
  BY DEF Lines, Commands, Recreate, CommandSet, Parts
<1>2. /\ Len(Lines("repack")) = 12
      /\ Lines("repack")[1] = <<"sync">>
      /\ Lines("repack")[2] = <<"sync">>
      /\ Lines("repack")[3] = <<"rm", "logo">>
      /\ Lines("repack")[4] = <<"make", "logo">>
      /\ Lines("repack")[5] = <<"rm", "system">>
      /\ Lines("repack")[6] = <<"make", "system">>
      /\ Lines("repack")[7] = <<"rm", "boot">>
      /\ Lines("repack")[8] = <<"make", "boot">>
      /\ Lines("repack")[9] = <<"sync">>
      /\ Lines("repack")[10] = <<"pack">>
      /\ Lines("repack")[11] = <<"sync">>
      /\ Lines("repack")[12] = <<"done">>
  BY DEF Lines, Commands, Recreate
<1> QED BY <1>1, <1>2

LEMMA FlashLen == Lines("flash") \in Seq(CommandSet) /\ Len(Lines("flash")) = 19
<1>1. Lines("flash") \in Seq(CommandSet)
  BY DEF Lines, Commands, Flash, Recreate, Burn, CommandSet, Parts
<1>2. Len(Lines("flash")) = 19
  BY DEF Lines, Commands, Flash, Recreate, Burn
<1> QED BY <1>1, <1>2

LEMMA FlashLines ==
  /\ Lines("flash")[1] = <<"sync">>
  /\ Lines("flash")[2] = <<"sync">>
  /\ Lines("flash")[3] = <<"rm", "logo">>
  /\ Lines("flash")[4] = <<"make", "logo">>
  /\ Lines("flash")[5] = <<"rm", "system">>
  /\ Lines("flash")[6] = <<"make", "system">>
  /\ Lines("flash")[7] = <<"rm", "boot">>
  /\ Lines("flash")[8] = <<"make", "boot">>
  /\ Lines("flash")[9] = <<"sync">>
BY DEF Lines, Commands, Flash, Recreate, Burn

LEMMA BurnLines ==
  /\ Lines("flash")[10] = <<"identify">>
  /\ Lines("flash")[11] = <<"reset">>
  /\ Lines("flash")[12] = <<"check">>
  /\ Lines("flash")[13] = <<"load">>
  /\ Lines("flash")[14] = <<"initial">>
  /\ Lines("flash")[15] = <<"write", "logo">>
  /\ Lines("flash")[16] = <<"write", "boot">>
  /\ Lines("flash")[17] = <<"write", "system">>
  /\ Lines("flash")[18] = <<"sync">>
  /\ Lines("flash")[19] = <<"done">>
BY DEF Lines, Commands, Flash, Recreate, Burn

LEMMA RemountLines ==
  /\ Lines("remount") \in Seq(CommandSet)
  /\ Len(Lines("remount")) = 4
  /\ Lines("remount")[1] = <<"sync">>
  /\ Lines("remount")[2] = <<"umount">>
  /\ Lines("remount")[3] = <<"mount">>
  /\ Lines("remount")[4] = <<"done">>
<1>1. Lines("remount") \in Seq(CommandSet)
  BY DEF Lines, Commands, Umount, CommandSet, Parts
<1>2. /\ Len(Lines("remount")) = 4
      /\ Lines("remount")[1] = <<"sync">>
      /\ Lines("remount")[2] = <<"umount">>
      /\ Lines("remount")[3] = <<"mount">>
      /\ Lines("remount")[4] = <<"done">>
  BY DEF Lines, Commands, Umount
<1> QED BY <1>1, <1>2

LEMMA UnmountLines ==
  /\ Lines("unmount") \in Seq(CommandSet)
  /\ Len(Lines("unmount")) = 3
  /\ Lines("unmount")[1] = <<"sync">>
  /\ Lines("unmount")[2] = <<"umount">>
  /\ Lines("unmount")[3] = <<"done">>
<1>1. Lines("unmount") \in Seq(CommandSet)
  BY DEF Lines, Commands, Umount, CommandSet, Parts
<1>2. /\ Len(Lines("unmount")) = 3
      /\ Lines("unmount")[1] = <<"sync">>
      /\ Lines("unmount")[2] = <<"umount">>
      /\ Lines("unmount")[3] = <<"done">>
  BY DEF Lines, Commands, Umount
<1> QED BY <1>1, <1>2

LEMMA ExtractInitrdLines ==
  /\ Lines("extract_initrd") \in Seq(CommandSet)
  /\ Len(Lines("extract_initrd")) = 3
  /\ Lines("extract_initrd")[1] = <<"rm_initrd">>
  /\ Lines("extract_initrd")[2] = <<"gunzip">>
  /\ Lines("extract_initrd")[3] = <<"done">>
<1>1. Lines("extract_initrd") \in Seq(CommandSet)
  BY DEF Lines, Commands, CommandSet, Parts
<1>2. /\ Len(Lines("extract_initrd")) = 3
      /\ Lines("extract_initrd")[1] = <<"rm_initrd">>
      /\ Lines("extract_initrd")[2] = <<"gunzip">>
      /\ Lines("extract_initrd")[3] = <<"done">>
  BY DEF Lines, Commands
<1> QED BY <1>1, <1>2

LEMMA RecreateInitrdLines ==
  /\ Lines("recreate_initrd") \in Seq(CommandSet)
  /\ Len(Lines("recreate_initrd")) = 3
  /\ Lines("recreate_initrd")[1] = <<"rm_ramdisk">>
  /\ Lines("recreate_initrd")[2] = <<"gzip">>
  /\ Lines("recreate_initrd")[3] = <<"done">>
<1>1. Lines("recreate_initrd") \in Seq(CommandSet)
  BY DEF Lines, Commands, CommandSet, Parts
<1>2. /\ Len(Lines("recreate_initrd")) = 3
      /\ Lines("recreate_initrd")[1] = <<"rm_ramdisk">>
      /\ Lines("recreate_initrd")[2] = <<"gzip">>
      /\ Lines("recreate_initrd")[3] = <<"done">>
  BY DEF Lines, Commands
<1> QED BY <1>1, <1>2

LEMMA CleanupLines ==
  /\ Lines("cleanup") \in Seq(CommandSet)
  /\ Len(Lines("cleanup")) = 4
  /\ Lines("cleanup")[1] = <<"umount">>
  /\ Lines("cleanup")[2] = <<"clear">>
  /\ Lines("cleanup")[3] = <<"clean">>
  /\ Lines("cleanup")[4] = <<"done">>
<1>1. Lines("cleanup") \in Seq(CommandSet)
  BY DEF Lines, Commands, Cleanup, Umount, CommandSet, Parts
<1>2. /\ Len(Lines("cleanup")) = 4
      /\ Lines("cleanup")[1] = <<"umount">>
      /\ Lines("cleanup")[2] = <<"clear">>
      /\ Lines("cleanup")[3] = <<"clean">>
      /\ Lines("cleanup")[4] = <<"done">>
  BY DEF Lines, Commands, Cleanup, Umount
<1> QED BY <1>1, <1>2

LEMMA BuildLines ==
  /\ Lines("build") \in Seq(CommandSet)
  /\ Len(Lines("build")) = 5
  /\ Lines("build")[1] = <<"umount">>
  /\ Lines("build")[2] = <<"clear">>
  /\ Lines("build")[3] = <<"clean">>
  /\ Lines("build")[4] = <<"compile">>
  /\ Lines("build")[5] = <<"done">>
<1>1. Lines("build") \in Seq(CommandSet)
  BY DEF Lines, Commands, Cleanup, Umount, CommandSet, Parts
<1>2. /\ Len(Lines("build")) = 5
      /\ Lines("build")[1] = <<"umount">>
      /\ Lines("build")[2] = <<"clear">>
      /\ Lines("build")[3] = <<"clean">>
      /\ Lines("build")[4] = <<"compile">>
      /\ Lines("build")[5] = <<"done">>
  BY DEF Lines, Commands, Cleanup, Umount
<1> QED BY <1>1, <1>2

LEMMA LineFacts ==
  ASSUME NEW s \in DOMAIN Commands
  PROVE  /\ Lines(s) \in Seq(CommandSet)
         /\ Len(Lines(s)) = Length[s] /\ Length[s] \in 3 .. 19
         /\ Lines(s)[Length[s]] = <<"done">>
         /\ \A k \in 1 .. Length[s] : <<s, k, Lines(s)[k][1]>> \in Book
<1>1. CASE s = "unpack"
  <2>1. Length[s] = 8
    BY <1>1 DEF Length
  <2>2. 1 .. 8 = {1, 2, 3, 4, 5, 6, 7, 8}
    OBVIOUS
  <2>3. ASSUME NEW k \in 1 .. 8 PROVE <<s, k, Lines(s)[k][1]>> \in Pages
    BY <1>1, <2>2, UnpackLines DEF Pages
  <2> QED BY <1>1, <2>1, <2>3, UnpackLines DEF Book
<1>2. CASE s = "recreate"
  <2>1. Length[s] = 9
    BY <1>2 DEF Length
  <2>2. 1 .. 9 = {1, 2, 3, 4, 5, 6, 7, 8, 9}
    OBVIOUS
  <2>3. ASSUME NEW k \in 1 .. 9 PROVE <<s, k, Lines(s)[k][1]>> \in Pages
    BY <1>2, <2>2, RecreateLines DEF Pages
  <2> QED BY <1>2, <2>1, <2>3, RecreateLines DEF Book
<1>3. CASE s = "repack"
  <2>1. Length[s] = 12
    BY <1>3 DEF Length
  <2>2. 1 .. 12 = {1, 2, 3, 4, 5, 6, 7, 8, 9, 10, 11, 12}
    OBVIOUS
  <2>3. ASSUME NEW k \in 1 .. 12 PROVE <<s, k, Lines(s)[k][1]>> \in Pages
    BY <1>3, <2>2, RepackLines, SMTT(40) DEF Pages
  <2> QED BY <1>3, <2>1, <2>3, RepackLines DEF Book
<1>4. CASE s = "flash"
  <2>1. Length[s] = 19
    BY <1>4 DEF Length
  <2>2. 1 .. 19 = {1, 2, 3, 4, 5, 6, 7, 8, 9, 10, 11, 12, 13, 14, 15, 16, 17, 18, 19}
    OBVIOUS
  <2>3. ASSUME NEW k \in 1 .. 19 PROVE <<s, k, Lines(s)[k][1]>> \in FlashPage
    <3>1. CASE k \in {1, 2, 3, 4, 5, 6, 7, 8, 9}
      BY <1>4, <3>1, FlashLines DEF FlashPage
    <3>2. CASE k \in {10, 11, 12, 13, 14, 15, 16, 17, 18, 19}
      BY <1>4, <3>2, BurnLines DEF FlashPage
    <3> QED BY <2>2, <3>1, <3>2
  <2> QED BY <1>4, <2>1, <2>3, FlashLen, BurnLines DEF Book
<1>5. CASE s = "remount"
  <2>1. Length[s] = 4
    BY <1>5 DEF Length
  <2>2. 1 .. 4 = {1, 2, 3, 4}
    OBVIOUS
  <2>3. ASSUME NEW k \in 1 .. 4 PROVE <<s, k, Lines(s)[k][1]>> \in Pages
    BY <1>5, <2>2, RemountLines DEF Pages
  <2> QED BY <1>5, <2>1, <2>3, RemountLines DEF Book
<1>6. CASE s = "unmount"
  <2>1. Length[s] = 3
    BY <1>6 DEF Length
  <2>2. 1 .. 3 = {1, 2, 3}
    OBVIOUS
  <2>3. ASSUME NEW k \in 1 .. 3 PROVE <<s, k, Lines(s)[k][1]>> \in Pages
    BY <1>6, <2>2, UnmountLines DEF Pages
  <2> QED BY <1>6, <2>1, <2>3, UnmountLines DEF Book
<1>7. CASE s = "extract_initrd"
  <2>1. Length[s] = 3
    BY <1>7 DEF Length
  <2>2. 1 .. 3 = {1, 2, 3}
    OBVIOUS
  <2>3. ASSUME NEW k \in 1 .. 3 PROVE <<s, k, Lines(s)[k][1]>> \in Pages
    BY <1>7, <2>2, ExtractInitrdLines DEF Pages
  <2> QED BY <1>7, <2>1, <2>3, ExtractInitrdLines DEF Book
<1>8. CASE s = "recreate_initrd"
  <2>1. Length[s] = 3
    BY <1>8 DEF Length
  <2>2. 1 .. 3 = {1, 2, 3}
    OBVIOUS
  <2>3. ASSUME NEW k \in 1 .. 3 PROVE <<s, k, Lines(s)[k][1]>> \in Pages
    BY <1>8, <2>2, RecreateInitrdLines DEF Pages
  <2> QED BY <1>8, <2>1, <2>3, RecreateInitrdLines DEF Book
<1>9. CASE s = "cleanup"
  <2>1. Length[s] = 4
    BY <1>9 DEF Length
  <2>2. 1 .. 4 = {1, 2, 3, 4}
    OBVIOUS
  <2>3. ASSUME NEW k \in 1 .. 4 PROVE <<s, k, Lines(s)[k][1]>> \in Pages
    BY <1>9, <2>2, CleanupLines DEF Pages
  <2> QED BY <1>9, <2>1, <2>3, CleanupLines DEF Book
<1>10. CASE s = "build"
  <2>1. Length[s] = 5
    BY <1>10 DEF Length
  <2>2. 1 .. 5 = {1, 2, 3, 4, 5}
    OBVIOUS
  <2>3. ASSUME NEW k \in 1 .. 5 PROVE <<s, k, Lines(s)[k][1]>> \in Pages
    BY <1>10, <2>2, BuildLines DEF Pages
  <2> QED BY <1>10, <2>1, <2>3, BuildLines DEF Book
<1> QED BY <1>1, <1>2, <1>3, <1>4, <1>5, <1>6, <1>7, <1>8, <1>9, <1>10, ScriptNames

-----------------------------------------------------------------------------
(* What is left of a script.                                               *)

Rest(s, k) == SubSeq(Lines(s), k, Length[s])

LEMMA RestFacts ==
  ASSUME NEW s \in DOMAIN Commands, NEW k \in 1 .. Length[s] + 1
  PROVE  /\ Rest(s, k) \in Seq(CommandSet) /\ Len(Rest(s, k)) = Length[s] - k + 1
         /\ Len(Lines(s)) - Len(Rest(s, k)) + 1 = k
         /\ Rest(s, k) = <<>> <=> k = Length[s] + 1
<1>1. /\ Lines(s) \in Seq(CommandSet) /\ Len(Lines(s)) = Length[s] /\ Length[s] \in Nat
  BY LineFacts
<1>2. \A i \in k .. Length[s] : Lines(s)[i] \in CommandSet
  BY <1>1, ElementOfSeq
<1>3. /\ Rest(s, k) \in Seq(CommandSet)
      /\ Len(Rest(s, k)) = IF k =< Length[s] THEN Length[s] - k + 1 ELSE 0
  BY <1>1, <1>2, SubSeqProperties DEF Rest
<1> DEFINE n == Length[s]
           t == Rest(s, k)
<1>4. Len(t) = n - k + 1
  BY <1>1, <1>3
<1>5. t = <<>> <=> Len(t) = 0
  BY <1>3, EmptySeq
<1> HIDE DEF t, n
<1>6. Len(Lines(s)) = n /\ n \in Nat /\ k \in 1 .. n + 1
  BY <1>1 DEF n
<1>7. Len(Lines(s)) - Len(t) + 1 = k /\ (t = <<>> <=> k = n + 1)
  BY <1>4, <1>5, <1>6
<1> QED BY <1>3, <1>4, <1>7 DEF t, n

LEMMA RestNext ==
  ASSUME NEW s \in DOMAIN Commands, NEW k \in 1 .. Length[s]
  PROVE  /\ Head(Rest(s, k)) = Lines(s)[k] /\ Tail(Rest(s, k)) = Rest(s, k + 1)
         /\ Rest(s, k)[Len(Rest(s, k))] = <<"done">>
<1>1. /\ Lines(s) \in Seq(CommandSet) /\ Len(Lines(s)) = Length[s] /\ Length[s] \in Nat
      /\ Lines(s)[Length[s]] = <<"done">>
  BY LineFacts
<1>2. /\ Head(Rest(s, k)) = Lines(s)[k] /\ Tail(Rest(s, k)) = Rest(s, k + 1)
  <2>1. k \in 1 .. Len(Lines(s)) /\ Length[s] \in k .. Len(Lines(s))
    BY <1>1
  <2> QED BY <1>1, <2>1, HeadTailOfSubSeq DEF Rest
<1>3. Rest(s, k)[Len(Rest(s, k))] = <<"done">>
  <2>1. k \in 1 .. Length[s] + 1
    BY <1>1
  <2>2. Len(Rest(s, k)) = Length[s] - k + 1
    BY <2>1, RestFacts
  <2>3. \A i \in k .. Length[s] : Lines(s)[i] \in CommandSet
    BY <1>1, ElementOfSeq
  <2>4. \A i \in 1 .. Length[s] - k + 1 : Rest(s, k)[i] = Lines(s)[k + i - 1]
    BY <1>1, <2>3, SubSeqProperties DEF Rest
  <2>5. Length[s] - k + 1 \in 1 .. Length[s] - k + 1 /\ k + (Length[s] - k + 1) - 1 = Length[s]
    BY <1>1
  <2> QED BY <1>1, <2>2, <2>4, <2>5
<1> QED BY <1>2, <1>3

LEMMA RestLast ==
  ASSUME NEW s \in DOMAIN Commands, NEW k \in 1 .. Length[s] - 1
  PROVE  SubSeq(Rest(s, k), Len(Rest(s, k)) - 1, Len(Rest(s, k))) = Rest(s, Length[s] - 1)
<1>1. /\ Lines(s) \in Seq(CommandSet) /\ Len(Lines(s)) = Length[s] /\ Length[s] \in Nat
  BY LineFacts
<1>2. k \in 1 .. Length[s] + 1
  BY <1>1
<1>3. Rest(s, k) \in Seq(CommandSet) /\ Len(Rest(s, k)) = Length[s] - k + 1
  BY <1>2, RestFacts
<1> DEFINE n == Length[s]
           m == n - k + 1
<1>4. /\ k \in 1 .. Len(Lines(s)) /\ n \in 1 .. Len(Lines(s))
      /\ m - 1 \in 1 .. n - k + 1 /\ m \in 1 .. n - k + 1
      /\ k + (m - 1) - 1 = n - 1 /\ k + m - 1 = n
  BY <1>1
<1> HIDE DEF m
<1>5. SubSeq(SubSeq(Lines(s), k, n), m - 1, m) = SubSeq(Lines(s), k + (m - 1) - 1, k + m - 1)
  BY <1>1, <1>4, SubSeqOfSubSeq
<1>6. Rest(s, k) = SubSeq(Lines(s), k, n) /\ Rest(s, n - 1) = SubSeq(Lines(s), n - 1, n)
  BY DEF Rest
<1>7. Len(Rest(s, k)) = m
  BY <1>3 DEF m
<1> QED BY <1>4, <1>5, <1>6, <1>7

-----------------------------------------------------------------------------
(* Where a script is.                                                      *)

LEMMA WhereFacts ==
  ASSUME Where, script # "none"
  PROVE  /\ script \in DOMAIN Commands /\ At \in 1 .. Length[script] + 1 /\ todo = Rest(script, At)
         /\ Length[script] \in 3 .. 19
         /\ todo = <<>> <=> At = Length[script] + 1
<1>1. /\ script \in DOMAIN Commands /\ At \in 1 .. Len(Lines(script)) + 1
      /\ todo = SubSeq(Lines(script), At, Len(Lines(script)))
  BY DEF Where
<1>2. Len(Lines(script)) = Length[script] /\ Length[script] \in 3 .. 19
  BY <1>1, LineFacts
<1>3. At \in 1 .. Length[script] + 1 /\ todo = Rest(script, At)
  BY <1>1, <1>2 DEF Rest
<1> HIDE DEF At
<1>4. todo = <<>> <=> At = Length[script] + 1
  BY <1>1, <1>3, RestFacts
<1> QED BY <1>1, <1>2, <1>3, <1>4

LEMMA Reading ==
  ASSUME Where, todo # <<>>
  PROVE  /\ script \in DOMAIN Commands /\ script # "none" /\ At \in 1 .. Length[script]
         /\ Length[script] \in 3 .. 19
         /\ Head(todo) = Lines(script)[At] /\ Tail(todo) = Rest(script, At + 1)
         /\ <<script, At, Head(todo)[1]>> \in Book
         /\ todo[Len(todo)] = <<"done">>
<1>1. script # "none"
  BY ScriptNames DEF Where
<1>2. /\ script \in DOMAIN Commands /\ At \in 1 .. Length[script] + 1 /\ todo = Rest(script, At)
      /\ Length[script] \in 3 .. 19 /\ At # Length[script] + 1
  BY <1>1, WhereFacts
<1> HIDE DEF At
<1>3. At \in 1 .. Length[script]
  BY <1>2, SMTT(40)
<1>4. /\ Head(todo) = Lines(script)[At] /\ Tail(todo) = Rest(script, At + 1)
      /\ todo[Len(todo)] = <<"done">>
  BY <1>2, <1>3, RestNext
<1>5. <<script, At, Lines(script)[At][1]>> \in Book
  BY <1>2, <1>3, LineFacts
<1> QED BY <1>1, <1>2, <1>3, <1>4, <1>5

\* A place in a script, from what is left of it.
LEMMA Placed ==
  ASSUME script' \in DOMAIN Commands, NEW k \in 1 .. Length[script'] + 1, todo' = Rest(script', k)
  PROVE  Where' /\ At' = k
<1> DEFINE s == script'
<1>1. /\ Len(Lines(s)) = Length[s] /\ Len(Lines(s)) - Len(Rest(s, k)) + 1 = k
  BY LineFacts, RestFacts
<1>2. At' = k
  BY <1>1 DEF At
<1>3. todo' = SubSeq(Lines(s), k, Len(Lines(s)))
  BY <1>1 DEF Rest
<1> QED BY <1>1, <1>2, <1>3 DEF Where

LEMMA NextPlace ==
  ASSUME Where, todo # <<>>, todo' = Tail(todo), script' = script
  PROVE  Where' /\ At' = At + 1
<1>1. /\ script \in DOMAIN Commands /\ At \in 1 .. Length[script] /\ Length[script] \in 3 .. 19
      /\ Tail(todo) = Rest(script, At + 1)
  BY Reading
<1> DEFINE k == At + 1
<1>2. k \in 1 .. Length[script'] + 1 /\ todo' = Rest(script', k) /\ script' \in DOMAIN Commands
  BY <1>1, SMTT(40)
<1> HIDE DEF k
<1>3. Where' /\ At' = k
  BY <1>2, Placed
<1> QED BY <1>3 DEF k

\* aml-flash ends, and flash goes on with its last sync.
LEMMA QuitPlace ==
  ASSUME Where, todo # <<>>, script = "flash", At < 19, Quit
  PROVE  Where' /\ At' = 18
<1>1. Length["flash"] = 19 /\ "flash" \in DOMAIN Commands
  BY ScriptNames DEF Length
<1>2. At \in 1 .. 18 /\ todo = Rest(script, At)
  BY <1>1, WhereFacts, Reading
<1> HIDE DEF At
<1>3. /\ script' = script
      /\ todo' = SubSeq(Rest("flash", At), Len(Rest("flash", At)) - 1, Len(Rest("flash", At)))
  BY <1>2 DEF Quit
<1>4. todo' = Rest("flash", 18)
  <2>1. At \in 1 .. Length["flash"] - 1 /\ Length["flash"] - 1 = 18
    BY <1>1, <1>2
  <2> QED BY <1>1, <1>3, <2>1, RestLast
<1> QED BY <1>1, <1>3, <1>4, Placed

LEMMA EndPlace ==
  ASSUME Where, todo # <<>>, todo' = <<>>, script' = script
  PROVE  Where' /\ At' = Length[script] + 1
<1>1. script \in DOMAIN Commands /\ Length[script] \in 3 .. 19
  BY Reading
<1> DEFINE k == Length[script] + 1
<1>2. k \in 1 .. Length[script] + 1 /\ k = Length[script] + 1
  BY <1>1
<1> HIDE DEF k
<1>3. Rest(script, k) = <<>>
  BY <1>1, <1>2, RestFacts
<1> QED BY <1>1, <1>2, <1>3, Placed

LEMMA StartPlace ==
  ASSUME NEW s \in DOMAIN Commands, script' = s, todo' = Commands[s] \o <<<<"done">>>>
  PROVE  Where' /\ At' = 1 /\ todo' # <<>>
<1>1. Lines(s) \in Seq(CommandSet) /\ Len(Lines(s)) = Length[s] /\ Length[s] \in 3 .. 19
  BY LineFacts
<1>2. todo' = Rest(s, 1)
  BY <1>1, SubSeqFull DEF Rest, Lines
<1>3. 1 \in 1 .. Length[s] + 1 /\ 1 # Length[s] + 1
  <2>1. Length[s] \in 3 .. 19
    BY <1>1
  <2>2. \A n \in 3 .. 19 : 1 \in 1 .. n + 1 /\ 1 # n + 1
    OBVIOUS
  <2> QED BY <2>1, <2>2
<1>4. Where' /\ At' = 1
  BY <1>2, <1>3, Placed
<1>5. Rest(s, 1) # <<>>
  BY <1>3, RestFacts
<1> QED BY <1>2, <1>4, <1>5

LEMMA Still ==
  ASSUME Where, UNCHANGED <<script, todo>>
  PROVE  Where' /\ At' = At
BY DEF Where, At

LEMMA Line ==
  ASSUME Where, NEW c, Next1(c)
  PROVE  /\ todo # <<>> /\ Head(todo) = c /\ script' = script /\ said' = said
         /\ script \in DOMAIN Commands /\ At \in 1 .. Length[script] /\ Length[script] \in 3 .. 19
         /\ <<script, At, c[1]>> \in Book
         /\ Where' /\ At' = At + 1
BY Reading, NextPlace DEF Next1

\* A script has gone on to its next line.
Moved ==
  /\ todo # <<>> /\ script' = script /\ said' = said
  /\ script \in DOMAIN Commands /\ At \in 1 .. Length[script] /\ Length[script] \in 3 .. 19
  /\ Where' /\ At' = At + 1

LEMMA SyncPlace ==
  ASSUME Where, Sync
  PROVE  /\ Moved /\ script \in {"recreate", "repack", "flash", "remount", "unmount"}
         /\ script \in {"remount", "unmount"} => At = 1
         /\ script \in {"repack", "flash"} => At \in {1, 2, 9, 11, 18}
<1>1. Next1(<<"sync">>)
  BY DEF Sync
<1>2. Moved /\ <<script, At, <<"sync">>[1]>> \in Book
  BY <1>1, Line DEF Moved
<1>3. <<script, At, "sync">> \in Book
  BY <1>2
<1> QED BY <1>2, <1>3 DEF Book, Pages, FlashPage

LEMMA UmountSystemPlace ==
  ASSUME Where, UmountSystem
  PROVE  /\ Moved
         /\ <<script, At>> \in ({"unpack", "cleanup", "build"} \X {1}) \cup ({"remount", "unmount"} \X {2})
<1>1. Next1(<<"umount">>)
  BY DEF UmountSystem
<1>2. Moved /\ <<script, At, <<"umount">>[1]>> \in Book
  BY <1>1, Line DEF Moved
<1>3. <<script, At, "umount">> \in Book
  BY <1>2
<1> QED BY <1>2, <1>3 DEF Book, Pages, FlashPage

LEMMA MountPlace ==
  ASSUME Where, Mount
  PROVE  Moved /\ <<script, At>> \in {<<"unpack", 5>>, <<"remount", 3>>}
<1>1. Next1(<<"mount">>)
  BY DEF Mount
<1>2. Moved /\ <<script, At, <<"mount">>[1]>> \in Book
  BY <1>1, Line DEF Moved
<1>3. <<script, At, "mount">> \in Book
  BY <1>2
<1> QED BY <1>2, <1>3 DEF Book, Pages, FlashPage

LEMMA ClearPlace ==
  ASSUME Where, Clear
  PROVE  Moved /\ script \in {"unpack", "cleanup", "build"} /\ At = 2
<1>1. Next1(<<"clear">>)
  BY DEF Clear
<1>2. Moved /\ <<script, At, <<"clear">>[1]>> \in Book
  BY <1>1, Line DEF Moved
<1>3. <<script, At, "clear">> \in Book
  BY <1>2
<1> QED BY <1>2, <1>3 DEF Book, Pages, FlashPage

LEMMA ExtractPlace == ASSUME Where, Extract PROVE Moved /\ script = "unpack" /\ At = 3
<1>1. Next1(<<"extract">>)
  BY DEF Extract
<1>2. Moved /\ <<script, At, <<"extract">>[1]>> \in Book
  BY <1>1, Line DEF Moved
<1>3. <<script, At, "extract">> \in Book
  BY <1>2
<1> QED BY <1>2, <1>3 DEF Book, Pages, FlashPage

LEMMA ConvertPlace == ASSUME Where, Convert PROVE Moved /\ script = "unpack" /\ At = 4
<1>1. Next1(<<"convert">>)
  BY DEF Convert
<1>2. Moved /\ <<script, At, <<"convert">>[1]>> \in Book
  BY <1>1, Line DEF Moved
<1>3. <<script, At, "convert">> \in Book
  BY <1>2
<1> QED BY <1>2, <1>3 DEF Book, Pages, FlashPage

LEMMA UnpackLogoPlace ==
  ASSUME Where, UnpackLogo
  PROVE  Moved /\ script = "unpack" /\ At = 6
<1>1. Next1(<<"unlogo">>)
  BY DEF UnpackLogo
<1>2. Moved /\ <<script, At, <<"unlogo">>[1]>> \in Book
  BY <1>1, Line DEF Moved
<1>3. <<script, At, "unlogo">> \in Book
  BY <1>2
<1> QED BY <1>2, <1>3 DEF Book, Pages, FlashPage

LEMMA UnpackBootPlace ==
  ASSUME Where, UnpackBoot
  PROVE  Moved /\ script = "unpack" /\ At = 7
<1>1. Next1(<<"unboot">>)
  BY DEF UnpackBoot
<1>2. Moved /\ <<script, At, <<"unboot">>[1]>> \in Book
  BY <1>1, Line DEF Moved
<1>3. <<script, At, "unboot">> \in Book
  BY <1>2
<1> QED BY <1>2, <1>3 DEF Book, Pages, FlashPage

LEMMA PackPlace == ASSUME Where, Pack PROVE Moved /\ script = "repack" /\ At = 10
<1>1. Next1(<<"pack">>)
  BY DEF Pack
<1>2. Moved /\ <<script, At, <<"pack">>[1]>> \in Book
  BY <1>1, Line DEF Moved
<1>3. <<script, At, "pack">> \in Book
  BY <1>2
<1> QED BY <1>2, <1>3 DEF Book, Pages, FlashPage

LEMMA RemoveInitrdPlace ==
  ASSUME Where, RemoveInitrd
  PROVE  Moved /\ script = "extract_initrd" /\ At = 1
<1>1. Next1(<<"rm_initrd">>)
  BY DEF RemoveInitrd
<1>2. Moved /\ <<script, At, <<"rm_initrd">>[1]>> \in Book
  BY <1>1, Line DEF Moved
<1>3. <<script, At, "rm_initrd">> \in Book
  BY <1>2
<1> QED BY <1>2, <1>3 DEF Book, Pages, FlashPage

LEMMA GunzipPlace ==
  ASSUME Where, Gunzip
  PROVE  Moved /\ script = "extract_initrd" /\ At = 2
<1>1. Next1(<<"gunzip">>)
  BY DEF Gunzip
<1>2. Moved /\ <<script, At, <<"gunzip">>[1]>> \in Book
  BY <1>1, Line DEF Moved
<1>3. <<script, At, "gunzip">> \in Book
  BY <1>2
<1> QED BY <1>2, <1>3 DEF Book, Pages, FlashPage

LEMMA RemoveRamdiskPlace ==
  ASSUME Where, RemoveRamdisk
  PROVE  Moved /\ script = "recreate_initrd" /\ At = 1
<1>1. Next1(<<"rm_ramdisk">>)
  BY DEF RemoveRamdisk
<1>2. Moved /\ <<script, At, <<"rm_ramdisk">>[1]>> \in Book
  BY <1>1, Line DEF Moved
<1>3. <<script, At, "rm_ramdisk">> \in Book
  BY <1>2
<1> QED BY <1>2, <1>3 DEF Book, Pages, FlashPage

LEMMA GzipPlace == ASSUME Where, Gzip PROVE Moved /\ script = "recreate_initrd" /\ At = 2
<1>1. Next1(<<"gzip">>)
  BY DEF Gzip
<1>2. Moved /\ <<script, At, <<"gzip">>[1]>> \in Book
  BY <1>1, Line DEF Moved
<1>3. <<script, At, "gzip">> \in Book
  BY <1>2
<1> QED BY <1>2, <1>3 DEF Book, Pages, FlashPage

LEMMA CleanPlace ==
  ASSUME Where, Clean
  PROVE  Moved /\ script \in {"cleanup", "build"} /\ At = 3
<1>1. Next1(<<"clean">>)
  BY DEF Clean
<1>2. Moved /\ <<script, At, <<"clean">>[1]>> \in Book
  BY <1>1, Line DEF Moved
<1>3. <<script, At, "clean">> \in Book
  BY <1>2
<1> QED BY <1>2, <1>3 DEF Book, Pages, FlashPage

LEMMA CompilePlace == ASSUME Where, Compile PROVE Moved /\ script = "build" /\ At = 4
<1>1. Next1(<<"compile">>)
  BY DEF Compile
<1>2. Moved /\ <<script, At, <<"compile">>[1]>> \in Book
  BY <1>1, Line DEF Moved
<1>3. <<script, At, "compile">> \in Book
  BY <1>2
<1> QED BY <1>2, <1>3 DEF Book, Pages, FlashPage

LEMMA RemovePlace ==
  ASSUME Where, NEW p \in Parts, Remove(p)
  PROVE  /\ Moved
         /\ \/ script = "recreate"
            \/ script \in {"repack", "flash"} /\ <<At, p>> \in {<<3, "logo">>, <<5, "system">>, <<7, "boot">>}
<1>1. Next1(<<"rm", p>>)
  BY DEF Remove
<1>2. Moved /\ <<script, At, <<"rm", p>>[1]>> \in Book /\ Lines(script)[At] = <<"rm", p>>
  BY <1>1, Line, Reading DEF Moved
<1>3. <<script, At, "rm">> \in Book
  BY <1>2
<1>4. script = "recreate" \/ (script \in {"repack", "flash"} /\ At \in {3, 5, 7})
  BY <1>3 DEF Book, Pages, FlashPage
<1>5. Lines(script)[At][2] = p
  BY <1>2
<1>6. script \in {"repack", "flash"} /\ At \in {3, 5, 7} =>
        <<At, p>> \in {<<3, "logo">>, <<5, "system">>, <<7, "boot">>}
  <2>1. script \in {"repack", "flash"} =>
          /\ Lines(script)[3] = <<"rm", "logo">> /\ Lines(script)[5] = <<"rm", "system">>
          /\ Lines(script)[7] = <<"rm", "boot">>
    <3>1. CASE script = "repack"
      BY <3>1, RepackLines
    <3>2. CASE script = "flash"
      BY <3>2, FlashLines
    <3> QED BY <3>1, <3>2
  <2>2. <<"rm", "logo">>[2] = "logo" /\ <<"rm", "system">>[2] = "system" /\ <<"rm", "boot">>[2] = "boot"
    OBVIOUS
  <2>3. ASSUME script \in {"repack", "flash"}
        PROVE  /\ At = 3 => p = "logo"
               /\ At = 5 => p = "system"
               /\ At = 7 => p = "boot"
    BY <1>5, <2>1, <2>2, <2>3
  <2> HIDE DEF At
  <2> QED BY <2>3
<1> QED BY <1>2, <1>4, <1>6

LEMMA MakePlace ==
  ASSUME Where, NEW p \in Parts, Make(p)
  PROVE  /\ Moved
         /\ \/ script = "recreate"
            \/ script \in {"repack", "flash"} /\ <<At, p>> \in {<<4, "logo">>, <<6, "system">>, <<8, "boot">>}
<1>1. Next1(<<"make", p>>)
  BY DEF Make
<1>2. Moved /\ <<script, At, <<"make", p>>[1]>> \in Book /\ Lines(script)[At] = <<"make", p>>
  BY <1>1, Line, Reading DEF Moved
<1>3. <<script, At, "make">> \in Book
  BY <1>2
<1>4. script = "recreate" \/ (script \in {"repack", "flash"} /\ At \in {4, 6, 8})
  BY <1>3 DEF Book, Pages, FlashPage
<1>5. Lines(script)[At][2] = p
  BY <1>2
<1>6. script \in {"repack", "flash"} /\ At \in {4, 6, 8} =>
        <<At, p>> \in {<<4, "logo">>, <<6, "system">>, <<8, "boot">>}
  <2>1. script \in {"repack", "flash"} =>
          /\ Lines(script)[4] = <<"make", "logo">> /\ Lines(script)[6] = <<"make", "system">>
          /\ Lines(script)[8] = <<"make", "boot">>
    <3>1. CASE script = "repack"
      BY <3>1, RepackLines
    <3>2. CASE script = "flash"
      BY <3>2, FlashLines
    <3> QED BY <3>1, <3>2
  <2>2. <<"make", "logo">>[2] = "logo" /\ <<"make", "system">>[2] = "system" /\ <<"make", "boot">>[2] = "boot"
    OBVIOUS
  <2>3. ASSUME script \in {"repack", "flash"}
        PROVE  /\ At = 4 => p = "logo"
               /\ At = 6 => p = "system"
               /\ At = 8 => p = "boot"
    BY <1>5, <2>1, <2>2, <2>3
  <2> HIDE DEF At
  <2> QED BY <2>3
<1> QED BY <1>2, <1>4, <1>6

LEMMA DonePlace ==
  ASSUME Where, Done
  PROVE  /\ script \in DOMAIN Commands /\ script' = script /\ todo # <<>> /\ todo' = <<>>
         /\ At = Length[script] /\ Where' /\ At' = At + 1
<1>1. /\ todo # <<>> /\ Head(todo) = <<"done">> /\ todo' = <<>> /\ script' = script
  BY DEF Done
<1>2. /\ script \in DOMAIN Commands /\ At \in 1 .. Length[script]
      /\ <<script, At, <<"done">>[1]>> \in Book
  BY <1>1, Reading
<1>3. <<script, At, "done">> \in Book
  BY <1>2
<1>4. At = Length[script]
  BY <1>3 DEF Book, Pages, FlashPage, Length
<1>5. Where' /\ At' = Length[script] + 1
  BY <1>1, EndPlace
<1> QED BY <1>1, <1>2, <1>4, <1>5

BurnPages == {
  <<10, "identify">>, <<11, "reset">>, <<12, "check">>, <<13, "load">>, <<14, "initial">>,
  <<15, "write">>, <<16, "write">>, <<17, "write">>}

\* A step of aml-flash, which may be its last.
Burning ==
  /\ todo # <<>> /\ script = "flash" /\ At \in 10 .. 17 /\ script' = script /\ said' = said
  /\ Where' /\ At' \in {At + 1, 18} /\ todo' # <<>>

LEMMA BurnPlace ==
  ASSUME Where, todo # <<>>, NEW c, Head(todo) = c,
         c[1] \in {"identify", "reset", "check", "load", "initial", "write"}, Next1(c) \/ Quit
  PROVE  /\ Burning /\ Lines(script)[At] = c /\ (Next1(c) => At' = At + 1)
         /\ <<At, c[1]>> \in BurnPages
<1>0. Next1(c) \/ Quit
  OBVIOUS
<1>1. <<script, At, c[1]>> \in Book /\ At \in Nat /\ Lines(script)[At] = c
  <2>1. /\ <<script, At, Head(todo)[1]>> \in Book /\ At \in 1 .. Length[script]
        /\ Head(todo) = Lines(script)[At] /\ Length[script] \in 3 .. 19
    BY Reading
  <2> QED BY <2>1
<1>2. /\ script = "flash"
      /\ <<At, c[1]>> \in BurnPages
  BY <1>1 DEF Book, Pages, FlashPage, BurnPages
<1>3. At \in 10 .. 17
  BY <1>2 DEF BurnPages
<1>4. Next1(c) => At' = At + 1
  BY NextPlace DEF Next1
<1>5. Where' /\ At' \in {At + 1, 18} /\ script' = script /\ said' = said
  <2>1. CASE Next1(c)
    BY <2>1, NextPlace DEF Next1
  <2>2. CASE Quit
    BY <1>2, <1>3, <2>2, QuitPlace DEF Quit
  <2> QED BY <1>0, <2>1, <2>2
<1>6. todo' # <<>>
  <2>1. Length["flash"] = 19 /\ At' \in 1 .. 18 /\ script' = "flash"
    BY <1>2, <1>3, <1>5 DEF Length
  <2>2. "flash" \in DOMAIN Commands /\ "flash" # "none"
    BY ScriptNames
  <2>3. todo' = Rest("flash", At')
    BY <1>5, <2>1, <2>2, LineFacts DEF Where, Rest
  <2> QED BY <2>1, <2>2, <2>3, RestFacts
<1> QED BY <1>1, <1>2, <1>3, <1>4, <1>5, <1>6 DEF Burning

-----------------------------------------------------------------------------
(* Types.                                                                  *)

Files == {"system", "logo", "boot", "stage2", "initrd", "removed"}

Held == (SUBSET Marks) \cup {NULL}

BoardStates == [mode : {"rom", "uboot"}, locked : SUBSET {"rom", "uboot"}, part : [Parts -> Held]]

Begun == [parts : [Parts -> SUBSET Marks], image : [Parts -> Held],
          board : [Parts -> Held]]

Typed ==
  /\ tools \subseteq Tools /\ fits \in BOOLEAN /\ said \in BOOLEAN /\ marks \in 0 .. MaxMarks + 1
  /\ file \in Seq(SUBSET Marks) /\ cache \in [1 .. Len(file) -> SUBSET Marks]
  /\ mounts \in Seq(1 .. Len(file))
  /\ tree \in [system : 1 .. Len(file) \cup {NULL}, logo : Held, boot : Held,
               ramdisk : Held, stage2 : Held, initrd : Held]
  /\ part \in [Parts -> Held] /\ image \in [Parts -> Held]
  /\ made \in [Files -> SUBSET Marks]
  /\ half \subseteq BothInitrd /\ board \in BoardStates /\ began \in Begun

\* What a script has made sure of, or has done, when it is where it is.
Standing ==
  /\ todo # <<>> => ~said
  /\ tree.initrd # NULL => tree.system # NULL
  /\ Doing("unpack", 1 .. 3) => marks =< MaxMarks
  /\ script \in {"extract_initrd", "recreate", "repack", "flash"} /\ todo # <<>> => tree.system # NULL
  /\ Doing("extract_initrd", {2}) => tree.initrd # NULL

TInv == Where /\ Typed /\ Standing

LEMMA HeldFacts == NULL \in Held /\ \A m \in SUBSET Marks : m \in Held /\ m # NULL
<1>1. NULL \in Held
  BY DEF Held
<1>2. ASSUME NEW m \in SUBSET Marks PROVE m \in Held /\ m # NULL
  <2>1. m \in Held
    BY DEF Held
  <2>2. NULL # m
    BY NullIsNothing
  <2> QED BY <2>1, <2>2
<1> QED BY <1>1, <1>2

LEMMA MarkFacts == \A m \in 1 .. MaxMarks + 1 : m \in Marks /\ -m \in Marks
BY DEF Marks, Made

LEMMA BootFacts ==
  /\ \A x \in SUBSET Marks : FirstOf(x) \in Held /\ SecondOf(x) \in Held
  /\ \A m \in 1 .. MaxMarks + 1 : NewBoot(m) \subseteq SUBSET Marks
<1>1. ASSUME NEW x \in SUBSET Marks PROVE FirstOf(x) \in Held /\ SecondOf(x) \in Held
  <2>1. FirstOf(x) \in SUBSET Marks /\ {m \in x : m < 0} \in SUBSET Marks
    BY DEF FirstOf
  <2> QED BY <2>1 DEF SecondOf, Held
<1>2. \A m \in 1 .. MaxMarks + 1 : NewBoot(m) \subseteq SUBSET Marks
  BY MarkFacts DEF NewBoot
<1> QED BY <1>1, <1>2

LEMMA ContentType == ASSUME NEW x \in Held PROVE Content(x) \in SUBSET Marks
<1>1. CASE x = NULL
  BY <1>1 DEF Content
<1>2. CASE x # NULL
  BY <1>2 DEF Content, Held
<1> QED BY <1>1, <1>2

LEMMA FlushedFacts ==
  ASSUME Typed
  PROVE  /\ Flushed \in Seq(SUBSET Marks) /\ Len(Flushed) = Len(file)
         /\ \A i \in 1 .. Len(file) : Flushed[i] = IF Mounted(i) THEN cache[i] ELSE file[i]
<1>1. /\ file \in Seq(SUBSET Marks) /\ Len(file) \in Nat /\ DOMAIN file = 1 .. Len(file)
      /\ \A i \in 1 .. Len(file) : file[i] \in SUBSET Marks /\ cache[i] \in SUBSET Marks
  BY LenProperties, ElementOfSeq DEF Typed
<1>2. Flushed \in [1 .. Len(file) -> SUBSET Marks]
  BY <1>1 DEF Flushed
<1>3. \A i \in 1 .. Len(file) : Flushed[i] = IF Mounted(i) THEN cache[i] ELSE file[i]
  BY <1>1 DEF Flushed
<1> HIDE DEF Flushed
<1>4. Flushed \in Seq(SUBSET Marks) /\ Len(Flushed) = Len(file)
  BY <1>1, <1>2, SeqDef, LenProperties
<1> QED BY <1>3, <1>4

LEMMA SyncTyped == ASSUME TInv, Sync PROVE TInv'
<1>0. Moved /\ script \notin {"unpack", "cleanup", "build", "extract_initrd", "recreate_initrd"}
  BY SyncPlace DEF TInv
<1>1. Where' /\ script' = script /\ said' = said /\ At' = At + 1 /\ todo # <<>>
  BY <1>0 DEF Moved
<1>2. Typed'
  <2>1. file' \in Seq(SUBSET Marks) /\ Len(file') = Len(file)
    BY FlushedFacts DEF TInv, Sync
  <2> QED BY <1>1, <2>1 DEF TInv, Typed, Sync, dev
<1>3. Standing'
  BY <1>0, <1>1 DEF TInv, Standing, Sync, Doing
<1> QED BY <1>1, <1>2, <1>3 DEF TInv

LEMMA UmountTyped == ASSUME TInv, UmountSystem PROVE TInv'
<1>0. Moved /\ <<script, At>> \in ({"unpack", "cleanup", "build"} \X {1}) \cup ({"remount", "unmount"} \X {2})
  BY UmountSystemPlace DEF TInv
<1>1. Where' /\ script' = script /\ said' = said /\ At' = At + 1 /\ todo # <<>>
  BY <1>0 DEF Moved
<1>2. Typed'
  <2>1. file' \in Seq(SUBSET Marks) /\ Len(file') = Len(file)
    BY FlushedFacts DEF TInv, Typed, UmountSystem
  <2>2. mounts' \in Seq(1 .. Len(file))
    <3>1. mounts \in Seq(1 .. Len(file)) /\ Len(mounts) \in Nat
      BY LenProperties DEF TInv, Typed
    <3>2. \A i \in 1 .. Len(mounts) - 1 : mounts[i] \in 1 .. Len(file)
      BY <3>1, ElementOfSeq
    <3>3. SubSeq(mounts, 1, Len(mounts) - 1) \in Seq(1 .. Len(file))
      BY <3>1, <3>2, SubSeqProperties
    <3> QED BY <3>1, <3>3 DEF UmountSystem
  <2> QED BY <1>1, <2>1, <2>2 DEF TInv, Typed, UmountSystem, dev
<1>3. Standing'
  BY <1>0, <1>1 DEF TInv, Standing, UmountSystem, Doing
<1> QED BY <1>1, <1>2, <1>3 DEF TInv

LEMMA MountTyped == ASSUME TInv, Mount PROVE TInv'
<1>0. Moved /\ <<script, At>> \in {<<"unpack", 5>>, <<"remount", 3>>}
  BY MountPlace DEF TInv
<1>1. Where' /\ script' = script /\ said' = said /\ At' = At + 1 /\ todo # <<>>
  BY <1>0 DEF Moved
<1>2. Typed'
  <2>1. cache' \in [1 .. Len(file) -> SUBSET Marks] /\ mounts' \in Seq(1 .. Len(file)) /\ file' = file
    <3>1. /\ mounts \in Seq(1 .. Len(file)) /\ cache \in [1 .. Len(file) -> SUBSET Marks]
          /\ tree.system # NULL => tree.system \in 1 .. Len(file)
          /\ file \in Seq(SUBSET Marks)
      BY DEF TInv, Typed
    <3>2. CASE UNCHANGED <<mounts, cache>>
      BY <3>1, <3>2 DEF Mount
    <3>3. CASE /\ tree.system # NULL /\ mounts' = Append(mounts, tree.system)
               /\ cache' = [cache EXCEPT ![tree.system] = Live(tree.system)]
      <4>1. Live(tree.system) \in SUBSET Marks
        BY <3>1, <3>3, ElementOfSeq DEF Live
      <4> QED BY <3>1, <3>3, <4>1, AppendProperties DEF Mount
    <3> QED BY <3>2, <3>3 DEF Mount
  <2> QED BY <1>1, <2>1 DEF TInv, Typed, Mount, dev
<1>3. Standing'
  BY <1>0, <1>1 DEF TInv, Standing, Mount, Doing
<1> QED BY <1>1, <1>2, <1>3 DEF TInv

LEMMA ClearTyped == ASSUME TInv, Clear PROVE TInv'
<1>0. Moved /\ script \in {"unpack", "cleanup", "build"} /\ At = 2
  BY ClearPlace DEF TInv
<1>1. Where' /\ script' = script /\ said' = said /\ At' = At + 1 /\ todo # <<>>
  BY <1>0 DEF Moved
<1>2. Typed'
  <2>1. cache' \in [1 .. Len(file) -> SUBSET Marks]
    <3>1. cache \in [1 .. Len(file) -> SUBSET Marks] /\ mounts \in Seq(1 .. Len(file))
      BY DEF TInv, Typed
    <3>2. CASE mounts = <<>>
      BY <3>1, <3>2 DEF Clear
    <3>3. CASE mounts # <<>>
      BY <3>1, <3>3 DEF Clear
    <3> QED BY <3>2, <3>3
  <2>2. EmptyTree \in [system : 1 .. Len(file) \cup {NULL}, logo : Held, boot : Held,
                       ramdisk : Held, stage2 : Held, initrd : Held]
    BY HeldFacts DEF EmptyTree
  <2>3. NoParts \in [Parts -> Held]
    BY HeldFacts DEF NoParts
  <2>5. NoEdits \in [Files -> SUBSET Marks]
    BY DEF NoEdits, Files
  <2>4. tree' = EmptyTree /\ part' = NoParts /\ made' = NoEdits /\ half' = {}
    BY DEF Clear, Cleared
  <2> HIDE DEF EmptyTree, NoParts, NoEdits
  <2> QED BY <1>1, <2>1, <2>2, <2>3, <2>4, <2>5 DEF TInv, Typed, Clear, dev
<1>3. Standing'
  BY <1>0, <1>1 DEF TInv, Standing, Clear, Cleared, EmptyTree, Doing
<1> QED BY <1>1, <1>2, <1>3 DEF TInv

LEMMA ExtractTyped == ASSUME TInv, Extract PROVE TInv'
<1>0. Moved /\ script = "unpack" /\ At = 3
  BY ExtractPlace DEF TInv
<1>1. Where' /\ script' = script /\ said' = said /\ At' = At + 1 /\ todo # <<>>
  BY <1>0 DEF Moved
<1>2. Typed'
  <2>1. marks' \in 1 .. MaxMarks + 1
    BY <1>0, ToolkitAssumption DEF TInv, Typed, Standing, Doing, Extract
  <2>2. {marks'} \in Held /\ NULL \in Held /\ NewBoot(marks') \subseteq Held
    <3>1. marks' \in Marks /\ NewBoot(marks') \subseteq SUBSET Marks
      BY <2>1, MarkFacts, BootFacts
    <3> QED BY <3>1, HeldFacts
  <2>3. part' \in [Parts -> Held]
    <3>1. PICK boot \in NewBoot(marks'), some \in SUBSET Parts :
            part' = [p \in Parts |-> IF p \notin some THEN NULL
                                    ELSE IF p = "boot" THEN boot ELSE {marks'}]
      BY DEF Extract
    <3>2. boot \in Held
      BY <2>2
    <3> QED BY <2>2, <3>1, <3>2
  <2>4. marks' \in 0 .. MaxMarks + 1
    BY <2>1, ToolkitAssumption
  <2> HIDE DEF NewBoot
  <2>5. UNCHANGED <<tools, tree, fits, file, cache, mounts, dev, began, made, half>>
    BY DEF Extract
  <2> QED BY <1>1, <2>3, <2>4, <2>5 DEF TInv, Typed, dev
<1>3. Standing'
  BY <1>0, <1>1 DEF TInv, Standing, Extract, Doing
<1> QED BY <1>1, <1>2, <1>3 DEF TInv

LEMMA ConvertTyped == ASSUME TInv, Convert PROVE TInv'
<1>0. Moved /\ script = "unpack" /\ At = 4
  BY ConvertPlace DEF TInv
<1>1. Where' /\ script' = script /\ said' = said /\ At' = At + 1 /\ todo # <<>>
  BY <1>0 DEF Moved
<1>2. Typed'
  <2>1. CASE "simg2img" \notin tools
    BY <1>1, <2>1 DEF TInv, Typed, Convert, dev
  <2>2. CASE "simg2img" \in tools
    <3>1. PICK x \in SUBSET Marks : file' = Append(file, x)
      <4>1. Content(part.system) \in SUBSET Marks
        <5>1. part["system"] \in Held
          BY DEF TInv, Typed, Parts
        <5> QED BY <5>1, ContentType
      <4> QED BY <2>2, <4>1 DEF Convert
    <3>2. file \in Seq(SUBSET Marks) /\ Len(file) \in Nat
      BY LenProperties DEF TInv, Typed
    <3>3. file' \in Seq(SUBSET Marks) /\ Len(file') = Len(file) + 1
      BY <3>1, <3>2, AppendProperties
    <3>4. cache' \in [1 .. Len(file') -> SUBSET Marks]
      BY <2>2, <3>3, LenProperties DEF Convert
    <3>5. mounts' \in Seq(1 .. Len(file'))
      <4>1. mounts \in Seq(1 .. Len(file)) /\ 1 .. Len(file) \subseteq 1 .. Len(file')
        BY <3>2, <3>3 DEF TInv, Typed
      <4> QED BY <4>1, SeqMonotonic DEF Convert
    <3>6. tree' \in [system : 1 .. Len(file') \cup {NULL}, logo : Held, boot : Held,
                     ramdisk : Held, stage2 : Held, initrd : Held]
      <4>1. Len(file) + 1 \in 1 .. Len(file')
        BY <3>2, <3>3
      <4> QED BY <2>2, <4>1 DEF TInv, Typed, Convert
    <3> QED BY <1>1, <2>2, <3>3, <3>4, <3>5, <3>6 DEF TInv, Typed, Convert, dev
  <2> QED BY <2>1, <2>2
<1>3. Standing'
  <2>1. CASE "simg2img" \notin tools
    BY <1>0, <1>1, <2>1 DEF TInv, Standing, Convert, Doing
  <2>2. CASE "simg2img" \in tools
    <3>1. tree'.system # NULL /\ tree'.initrd = tree.initrd
      <4>1. Len(file) + 1 \in Nat
        BY LenProperties DEF TInv, Typed
      <4> QED BY <2>2, <4>1, NullIsNothing DEF TInv, Typed, Convert
    <3> QED BY <1>0, <1>1, <3>1 DEF TInv, Standing, Convert, Doing
  <2> QED BY <2>1, <2>2
<1> QED BY <1>1, <1>2, <1>3 DEF TInv

LEMMA UnpackLogoTyped == ASSUME TInv, UnpackLogo PROVE TInv'
<1>0. Moved /\ script = "unpack" /\ At = 6
  BY UnpackLogoPlace DEF TInv
<1>1. Where' /\ script' = script /\ said' = said /\ At' = At + 1 /\ todo # <<>>
  BY <1>0 DEF Moved
<1>2. Typed'
  <2>1. Content(part.logo) \in Held /\ {} \in Held
    <3>1. part["logo"] \in Held
      BY DEF TInv, Typed, Parts
    <3> QED BY <3>1, ContentType, HeldFacts
  <2>2. tree' \in [system : 1 .. Len(file) \cup {NULL}, logo : Held, boot : Held,
                   ramdisk : Held, stage2 : Held, initrd : Held]
    BY <2>1 DEF TInv, Typed, UnpackLogo
  <2> QED BY <1>1, <2>2 DEF TInv, Typed, UnpackLogo, dev
<1>3. Standing'
  <2>1. tree'.initrd = tree.initrd /\ tree'.system = tree.system
    BY DEF TInv, Typed, UnpackLogo
  <2> QED BY <1>0, <1>1, <2>1 DEF TInv, Standing, UnpackLogo, Doing
<1> QED BY <1>1, <1>2, <1>3 DEF TInv

LEMMA UnpackBootTyped == ASSUME TInv, UnpackBoot PROVE TInv'
<1>0. Moved /\ script = "unpack" /\ At = 7
  BY UnpackBootPlace DEF TInv
<1>1. Where' /\ script' = script /\ said' = said /\ At' = At + 1 /\ todo # <<>>
  BY <1>0 DEF Moved
<1>2. Typed'
  <2>1. /\ {} \in Held /\ NULL \in Held
        /\ part.boot # NULL => FirstOf(part.boot) \in Held /\ SecondOf(part.boot) \in Held
    <3>1. part["boot"] \in Held
      BY DEF TInv, Typed, Parts
    <3>2. part["boot"] # NULL => part["boot"] \in SUBSET Marks
      BY <3>1 DEF Held
    <3> QED BY <3>2, HeldFacts, BootFacts
  <2>2. tree' \in [system : 1 .. Len(file) \cup {NULL}, logo : Held, boot : Held,
                   ramdisk : Held, stage2 : Held, initrd : Held]
    BY <2>1 DEF TInv, Typed, UnpackBoot
  <2> QED BY <1>1, <2>2 DEF TInv, Typed, UnpackBoot, dev
<1>3. Standing'
  <2>1. tree'.initrd = tree.initrd /\ tree'.system = tree.system
    BY DEF TInv, Typed, UnpackBoot
  <2> QED BY <1>0, <1>1, <2>1 DEF TInv, Standing, UnpackBoot, Doing
<1> QED BY <1>1, <1>2, <1>3 DEF TInv

LEMMA PackTyped == ASSUME TInv, Pack PROVE TInv'
<1>0. Moved /\ script = "repack" /\ At = 10
  BY PackPlace DEF TInv
<1>1. Where' /\ script' = script /\ said' = said /\ At' = At + 1 /\ todo # <<>>
  BY <1>0 DEF Moved
<1>2. Typed'
  <2>1. image' \in [Parts -> Held]
    <3>1. NoParts \in [Parts -> Held]
      BY HeldFacts DEF NoParts
    <3> QED BY <3>1 DEF TInv, Typed, Pack
  <2> QED BY <1>1, <2>1 DEF TInv, Typed, Pack, tk
<1>3. Standing'
  BY <1>0, <1>1 DEF TInv, Standing, Pack, tk, Doing
<1> QED BY <1>1, <1>2, <1>3 DEF TInv

LEMMA RemoveInitrdTyped == ASSUME TInv, RemoveInitrd PROVE TInv'
<1>0. Moved /\ script = "extract_initrd" /\ At = 1
  BY RemoveInitrdPlace DEF TInv
<1>1. Where' /\ script' = script /\ said' = said /\ At' = At + 1 /\ todo # <<>>
  BY <1>0 DEF Moved
<1>2. Typed'
  <2>1. made' \in [Files -> SUBSET Marks]
    BY DEF TInv, Typed, RemoveInitrd, Files
  <2>3. half' \subseteq BothInitrd
    BY DEF TInv, Typed, RemoveInitrd, BothInitrd
  <2>2. tree' \in [system : 1 .. Len(file) \cup {NULL}, logo : Held, boot : Held,
                   ramdisk : Held, stage2 : Held, initrd : Held]
    BY HeldFacts DEF TInv, Typed, RemoveInitrd
  <2> QED BY <1>1, <2>1, <2>2, <2>3 DEF TInv, Typed, RemoveInitrd, dev
<1>3. Standing'
  <2>1. tree'.initrd # NULL /\ tree'.system = tree.system
    BY HeldFacts DEF TInv, Typed, RemoveInitrd
  <2> QED BY <1>0, <1>1, <2>1 DEF TInv, Standing, RemoveInitrd, Doing
<1> QED BY <1>1, <1>2, <1>3 DEF TInv

LEMMA GunzipTyped == ASSUME TInv, Gunzip PROVE TInv'
<1>0. Moved /\ script = "extract_initrd" /\ At = 2
  BY GunzipPlace DEF TInv
<1>1. Where' /\ script' = script /\ said' = said /\ At' = At + 1 /\ todo # <<>>
  BY <1>0 DEF Moved
<1>2. Typed'
  <2>1. tree.initrd \in SUBSET Marks /\ tree.ramdisk \in Held
    BY <1>0 DEF TInv, Typed, Standing, Doing, Held
  <2>2. tree.initrd \cup Content(tree.ramdisk) \in Held
    BY <2>1, ContentType DEF Held
  <2>3. tree' \in [system : 1 .. Len(file) \cup {NULL}, logo : Held, boot : Held,
                   ramdisk : Held, stage2 : Held, initrd : Held]
    BY <2>2 DEF TInv, Typed, Gunzip
  <2>4. half' \subseteq BothInitrd
    BY DEF TInv, Typed, Gunzip, Without
  <2> QED BY <1>1, <2>3, <2>4 DEF TInv, Typed, Gunzip, dev
<1>3. Standing'
  <2>1. tree'.system = tree.system /\ tree.system # NULL
    BY <1>0, <1>1 DEF TInv, Typed, Standing, Gunzip
  <2> QED BY <1>0, <1>1, <2>1 DEF TInv, Standing, Gunzip, Doing
<1> QED BY <1>1, <1>2, <1>3 DEF TInv

LEMMA RemoveRamdiskTyped == ASSUME TInv, RemoveRamdisk PROVE TInv'
<1>0. Moved /\ script = "recreate_initrd" /\ At = 1
  BY RemoveRamdiskPlace DEF TInv
<1>1. Where' /\ script' = script /\ said' = said /\ At' = At + 1 /\ todo # <<>>
  BY <1>0 DEF Moved
<1>2. Typed'
  <2>1. tree' \in [system : 1 .. Len(file) \cup {NULL}, logo : Held, boot : Held,
                   ramdisk : Held, stage2 : Held, initrd : Held]
    BY HeldFacts DEF TInv, Typed, RemoveRamdisk, WithoutRamdisk
  <2>2. half' \subseteq BothInitrd
    BY DEF TInv, Typed, RemoveRamdisk, BothInitrd
  <2> QED BY <1>1, <2>1, <2>2 DEF TInv, Typed, RemoveRamdisk, dev
<1>3. Standing'
  <2>1. tree'.initrd = tree.initrd /\ tree'.system = tree.system
    BY DEF TInv, Typed, RemoveRamdisk, WithoutRamdisk
  <2> QED BY <1>0, <1>1, <2>1 DEF TInv, Standing, RemoveRamdisk, Doing
<1> QED BY <1>1, <1>2, <1>3 DEF TInv

LEMMA GzipTyped == ASSUME TInv, Gzip PROVE TInv'
<1>0. Moved /\ script = "recreate_initrd" /\ At = 2
  BY GzipPlace DEF TInv
<1>1. Where' /\ script' = script /\ said' = said /\ At' = At + 1 /\ todo # <<>>
  BY <1>0 DEF Moved
<1>2. Typed'
  <2>1. half' \subseteq BothInitrd
    BY DEF TInv, Typed, Gzip, Without
  <2>2. tree' \in [system : 1 .. Len(file) \cup {NULL}, logo : Held, boot : Held,
                   ramdisk : Held, stage2 : Held, initrd : Held]
    BY HeldFacts DEF TInv, Typed, Gzip
  <2> QED BY <1>1, <2>1, <2>2 DEF TInv, Typed, Gzip, dev
<1>3. Standing'
  <2>1. tree'.initrd = tree.initrd /\ tree'.system = tree.system
    BY DEF TInv, Typed, Gzip
  <2> QED BY <1>0, <1>1, <2>1 DEF TInv, Standing, Gzip, Doing
<1> QED BY <1>1, <1>2, <1>3 DEF TInv

LEMMA CleanTyped == ASSUME TInv, Clean PROVE TInv'
<1>0. Moved /\ script \in {"cleanup", "build"} /\ At = 3
  BY CleanPlace DEF TInv
<1>1. Where' /\ script' = script /\ said' = said /\ At' = At + 1 /\ todo # <<>>
  BY <1>0 DEF Moved
<1>2. Typed'
  BY <1>1 DEF TInv, Typed, Clean, dev
<1>3. Standing'
  BY <1>0, <1>1 DEF TInv, Standing, Clean, Doing
<1> QED BY <1>1, <1>2, <1>3 DEF TInv

LEMMA CompileTyped == ASSUME TInv, Compile PROVE TInv'
<1>0. Moved /\ script = "build" /\ At = 4
  BY CompilePlace DEF TInv
<1>1. Where' /\ script' = script /\ said' = said /\ At' = At + 1 /\ todo # <<>>
  BY <1>0 DEF Moved
<1>2. Typed'
  BY <1>1 DEF TInv, Typed, Compile, dev
<1>3. Standing'
  BY <1>0, <1>1 DEF TInv, Standing, Compile, Doing
<1> QED BY <1>1, <1>2, <1>3 DEF TInv

LEMMA RemoveTyped == ASSUME TInv, NEW p \in Parts, Remove(p) PROVE TInv'
<1>0. Moved /\ script \in {"recreate", "repack", "flash"}
  BY RemovePlace DEF TInv
<1>1. Where' /\ script' = script /\ said' = said /\ At' = At + 1 /\ todo # <<>>
  BY <1>0 DEF Moved
<1>2. Typed'
  BY <1>1, HeldFacts DEF TInv, Typed, Remove, dev
<1>3. Standing'
  BY <1>0, <1>1 DEF TInv, Standing, Remove, Doing
<1> QED BY <1>1, <1>2, <1>3 DEF TInv

LEMMA InTreeType == ASSUME Typed, NEW p \in Parts PROVE InTree(p) \in SUBSET Marks
<1>1. /\ tree.logo \in Held /\ tree.boot \in Held /\ tree.ramdisk \in Held
      /\ tree.system # NULL => tree.system \in 1 .. Len(file)
      /\ \A i \in 1 .. Len(file) : file[i] \in SUBSET Marks /\ cache[i] \in SUBSET Marks
  BY ElementOfSeq DEF Typed
<1>2. CASE p = "system"
  <2>1. tree.system # NULL => Live(tree.system) \in SUBSET Marks
    BY <1>1 DEF Live
  <2> QED BY <1>2, <2>1 DEF InTree
<1>3. CASE p = "logo"
  BY <1>1, <1>3, ContentType DEF InTree
<1>4. CASE p = "boot"
  <2>1. Content(tree.boot) \in SUBSET Marks /\ Content(tree.ramdisk) \in SUBSET Marks
    BY <1>1, ContentType
  <2> QED BY <1>4, <2>1 DEF InTree
<1> QED BY <1>2, <1>3, <1>4 DEF Parts

LEMMA MakeTyped == ASSUME TInv, NEW p \in Parts, Make(p) PROVE TInv'
<1>0. Moved /\ script \in {"recreate", "repack", "flash"}
  BY MakePlace DEF TInv
<1>1. Where' /\ script' = script /\ said' = said /\ At' = At + 1 /\ todo # <<>>
  BY <1>0 DEF Moved
<1>2. Typed'
  <2>1. Input(p) \in SUBSET Marks
    <3>1. CASE p = "system"
      <4>1. tree.system \in 1 .. Len(file) /\ file \in Seq(SUBSET Marks)
        BY <1>0, <1>1 DEF TInv, Typed, Standing
      <4> QED BY <3>1, <4>1, ElementOfSeq DEF Input
    <3>2. CASE p # "system"
      BY <3>2, InTreeType DEF Input, TInv
    <3> QED BY <3>1, <3>2
  <2>2. part \in [Parts -> Held] /\ part[p] \in Held /\ {} \in Held /\ Input(p) \in Held
    BY <2>1, HeldFacts DEF TInv, Typed
  <2>3. part' \in [Parts -> Held]
    BY <2>2 DEF Make
  <2> QED BY <1>1, <2>3 DEF TInv, Typed, Make, dev
<1>3. Standing'
  BY <1>0, <1>1 DEF TInv, Standing, Make, Doing
<1> QED BY <1>1, <1>2, <1>3 DEF TInv

LEMMA DoneTyped == ASSUME TInv, Done PROVE TInv'
<1>0. /\ script \in DOMAIN Commands /\ script' = script /\ todo # <<>> /\ todo' = <<>>
      /\ At = Length[script] /\ Where' /\ At' = At + 1
  BY DonePlace DEF TInv
<1>2. Typed'
  BY DEF TInv, Typed, Done, tk, dev, hist
<1>3. Standing'
  <2>1. ~Doing("unpack", 1 .. 3)' /\ ~Doing("extract_initrd", {2})'
    BY <1>0 DEF Doing, Length
  <2> QED BY <1>0, <2>1 DEF TInv, Standing, Done, tk, dev, hist
<1> QED BY <1>0, <1>2, <1>3 DEF TInv

LEMMA StopTyped == ASSUME TInv, Stop PROVE TInv'
<1>0. /\ script \in DOMAIN Commands /\ script' = script /\ todo # <<>> /\ todo' = <<>>
      /\ Where' /\ At' = Length[script] + 1
  BY EndPlace, Reading DEF TInv, Stop
<1>2. Typed'
  BY DEF TInv, Typed, Stop, tk, dev
<1>3. Standing'
  <2>1. ~Doing("unpack", 1 .. 3)' /\ ~Doing("extract_initrd", {2})'
    BY <1>0 DEF Doing, Length
  <2> QED BY <1>0, <2>1 DEF TInv, Standing, Stop, tk, dev
<1> QED BY <1>0, <1>2, <1>3 DEF TInv

LEMMA StartTyped == ASSUME TInv, NEW s \in Scripts, Start(s) PROVE TInv'
<1>0. s \in DOMAIN Commands /\ Where' /\ At' = 1 /\ todo' # <<>> /\ script' = s
  BY ScriptsAssumption, StartPlace DEF Start
<1>2. Typed'
  <2>1. began' \in Begun
    <3>1. [p \in Parts |-> InTree(p)] \in [Parts -> SUBSET Marks]
      BY InTreeType DEF TInv
    <3>2. NotBegun \in Begun
      BY HeldFacts DEF NotBegun, Nothing, NoParts, Begun
    <3>3. image \in [Parts -> Held] /\ board.part \in [Parts -> Held]
      BY DEF TInv, Typed, BoardStates
    <3>4. Content(tree.stage2) \in SUBSET Marks
      <4>1. tree.stage2 \in Held
        BY DEF TInv, Typed
      <4> QED BY <4>1, ContentType
    <3> HIDE DEF NotBegun
    <3> QED BY <3>1, <3>2, <3>3, <3>4 DEF Start, Begun
  <2> QED BY <2>1 DEF TInv, Typed, Start, tk, dev
<1>3. Standing'
  <2>1. /\ marks' = marks /\ tree' = tree /\ said' = FALSE /\ MayRun(s)
    BY DEF Start, tk
  <2>2. s = "unpack" => marks =< MaxMarks
    BY <2>1, ToolkitAssumption DEF MayRun, TInv, Typed
  <2>3. s \in {"extract_initrd", "recreate", "repack", "flash"} => tree.system # NULL
    BY <2>1 DEF MayRun
  <2> QED BY <1>0, <2>1, <2>2, <2>3 DEF TInv, Standing, Doing
<1> QED BY <1>0, <1>2, <1>3 DEF TInv

\* What a command of aml-flash leaves alone.
LEMMA BurnTyped ==
  ASSUME TInv, NEW c, Head(todo) = c, Next1(c) \/ Quit, todo # <<>>,
         c[1] \in {"identify", "reset", "check", "load", "initial", "write"},
         UNCHANGED <<tk, image, marks, began, made, half>>,
         board' \in BoardStates
  PROVE  TInv'
<1>1. Where' /\ script' = script /\ said' = said /\ script = "flash"
  BY BurnPlace DEF TInv, Burning
<1>2. Typed'
  BY <1>1 DEF TInv, Typed, tk
<1>3. Standing'
  BY <1>1 DEF TInv, Standing, tk, Doing
<1> QED BY <1>1, <1>2, <1>3 DEF TInv

LEMMA CommandTyped ==
  ASSUME TInv, NEW c, NEW STATE ready, NEW STATE effect, Command(c, ready, effect),
         c[1] \in {"identify", "reset", "check", "load", "initial", "write"},
         effect \in BoardStates
  PROVE  TInv'
<1>1. /\ todo # <<>> /\ Head(todo) = c /\ (Next1(c) \/ Quit)
      /\ UNCHANGED <<tk, image, marks, began, made, half>> /\ board' \in {board, effect}
  BY DEF Command
<1>2. board' \in BoardStates
  BY <1>1 DEF TInv, Typed
<1> QED BY <1>1, <1>2, BurnTyped

LEMMA CheckLockTyped ==
  ASSUME TInv, NEW c, CheckLock(c), c[1] \in {"identify", "check"}
  PROVE  TInv'
<1>1. /\ todo # <<>> /\ Head(todo) = c /\ (Next1(c) \/ Quit)
      /\ UNCHANGED <<tk, image, board, marks, began, made, half>>
  BY DEF CheckLock, dev
<1>2. board \in BoardStates
  BY DEF TInv, Typed
<1> QED BY <1>1, <1>2, BurnTyped

LEMMA IdentifyTyped == ASSUME TInv, Identify PROVE TInv'
<1> DEFINE c == <<"identify">>
<1>1. CheckLock(c) /\ c[1] = "identify"
  BY DEF Identify
<1> HIDE DEF c
<1> QED BY <1>1, CheckLockTyped

LEMMA CheckTyped == ASSUME TInv, Check PROVE TInv'
<1> DEFINE c == <<"check">>
<1>1. c[1] = "check" /\ board \in BoardStates
  BY DEF TInv, Typed
<1>2. CASE CheckLock(c)
  <2> HIDE DEF c
  <2> QED BY <1>1, <1>2, CheckLockTyped
<1>3. CASE todo # <<>> /\ Head(todo) = c /\ Quit /\ UNCHANGED <<tk, dev, marks, began, made, half>>
  <2>1. UNCHANGED <<tk, image, board, marks, began, made, half>>
    BY <1>3 DEF dev
  <2> HIDE DEF c
  <2> QED BY <1>1, <1>3, <2>1, BurnTyped
<1> QED BY <1>2, <1>3 DEF Check

LEMMA ResetTyped == ASSUME TInv, Reset PROVE TInv'
<1> DEFINE c == <<"reset">>
<1>1. board \in BoardStates /\ c[1] = "reset"
  BY DEF TInv, Typed
<1>2. CASE Command(c, board.mode = "uboot", [board EXCEPT !.mode = "rom"])
  <2>1. [board EXCEPT !.mode = "rom"] \in BoardStates
    BY <1>1 DEF BoardStates
  <2> HIDE DEF c
  <2> QED BY <1>1, <1>2, <2>1, CommandTyped
<1>3. CASE Next1(c) /\ UNCHANGED <<tk, dev, marks, began, made, half>>
  <2>1. todo # <<>> /\ Head(todo) = c /\ UNCHANGED <<tk, image, board, marks, began, made, half>>
    BY <1>3 DEF Next1, dev
  <2> HIDE DEF c
  <2> QED BY <1>1, <1>3, <2>1, BurnTyped
<1> QED BY <1>2, <1>3 DEF Reset

LEMMA LoadTyped == ASSUME TInv, Load PROVE TInv'
<1> DEFINE c == <<"load">>
<1>1. [board EXCEPT !.mode = "uboot"] \in BoardStates
  BY DEF TInv, Typed, BoardStates
<1>2. Command(c, board.mode = "rom", [board EXCEPT !.mode = "uboot"]) /\ c[1] = "load"
  BY DEF Load
<1> HIDE DEF c
<1> QED BY <1>1, <1>2, CommandTyped

LEMMA InitialTyped == ASSUME TInv, Initial PROVE TInv'
<1> DEFINE c == <<"initial">>
<1>1. [board EXCEPT !.part = Nothing] \in BoardStates
  BY HeldFacts DEF TInv, Typed, Nothing, BoardStates
<1>2. Command(c, board.mode = "uboot", [board EXCEPT !.part = Nothing]) /\ c[1] = "initial"
  BY DEF Initial
<1> HIDE DEF c
<1> QED BY <1>1, <1>2, CommandTyped

LEMMA WriteTyped == ASSUME TInv, NEW p \in Parts, Write(p) PROVE TInv'
<1> DEFINE c == <<"write", p>>
<1>1. [board EXCEPT !.part[p] = part[p]] \in BoardStates
  BY DEF TInv, Typed, BoardStates
<1>2. board \in BoardStates /\ c[1] = "write"
  BY DEF TInv, Typed
<1>3. CASE part[p] # NULL
  <2>1. Command(c, board.mode = "uboot", [board EXCEPT !.part[p] = part[p]])
    BY <1>3 DEF Write
  <2> HIDE DEF c
  <2> QED BY <1>1, <1>2, <2>1, CommandTyped
<1>4. CASE part[p] = NULL
  <2>1. /\ todo # <<>> /\ Head(todo) = c /\ Quit
        /\ UNCHANGED <<tk, image, board, marks, began, made, half>>
    BY <1>4 DEF Write, dev
  <2> HIDE DEF c
  <2> QED BY <1>2, <2>1, BurnTyped
<1> QED BY <1>3, <1>4

LEMMA UnplugTyped == ASSUME TInv, Unplug PROVE TInv'
<1>1. Where' /\ At' = At
  BY Still DEF TInv, Unplug, run
<1>2. Typed'
  BY DEF TInv, Typed, Unplug, tk, run, hist
<1>3. Standing'
  BY <1>1 DEF TInv, Standing, Doing, Unplug, tk, run, hist
<1> QED BY <1>1, <1>2, <1>3 DEF TInv

LEMMA PlugTyped == ASSUME TInv, Plug PROVE TInv'
<1>1. Where' /\ At' = At
  BY Still DEF TInv, Plug, run
<1>2. Typed'
  BY DEF TInv, Typed, Plug, tk, run, hist, BoardStates
<1>3. Standing'
  BY <1>1 DEF TInv, Standing, Doing, Plug, tk, run, hist
<1> QED BY <1>1, <1>2, <1>3 DEF TInv

LEMMA RebootTyped == ASSUME TInv, Reboot PROVE TInv'
<1>1. Where' /\ At' = At
  BY Still DEF TInv, Reboot, run
<1>2. Typed'
  <2>1. file' \in Seq(SUBSET Marks) /\ Len(file') = Len(file) /\ mounts' \in Seq(1 .. Len(file))
    BY FlushedFacts DEF TInv, Reboot
  <2> QED BY <2>1 DEF TInv, Typed, Reboot, run, dev, hist
<1>3. Standing'
  BY <1>1 DEF TInv, Standing, Doing, Reboot, run, dev, hist
<1> QED BY <1>1, <1>2, <1>3 DEF TInv

LEMMA EditSystemTyped == ASSUME TInv, EditSystem PROVE TInv'
<1>1. Where' /\ At' = At /\ script' = script /\ todo' = todo /\ said' = said
  BY Still DEF TInv, EditSystem, run
<1>2. marks' \in 0 .. MaxMarks /\ marks' \in Marks
  <2>1. marks' \in 1 .. MaxMarks /\ marks' \in 1 .. MaxMarks + 1
    BY ToolkitAssumption DEF TInv, Typed, EditSystem
  <2> QED BY <2>1, MarkFacts
<1>3. Typed'
  <2>1. cache' \in [1 .. Len(file) -> SUBSET Marks]
    BY <1>2 DEF TInv, Typed, EditSystem
  <2>2. made' \in [Files -> SUBSET Marks]
    BY <1>2 DEF TInv, Typed, EditSystem, Files
  <2>3. marks' \in 0 .. MaxMarks + 1
    BY <1>2, ToolkitAssumption
  <2> QED BY <1>1, <2>1, <2>2, <2>3 DEF TInv, Typed, EditSystem, run, dev
<1>4. Standing'
  BY <1>1, <1>2 DEF TInv, Standing, Doing, EditSystem
<1> QED BY <1>1, <1>3, <1>4 DEF TInv

LEMMA MarksStay ==
  ASSUME TInv, NEW d \in {"logo", "boot", "stage2", "initrd"}, EditFiles(d)
  PROVE  marks' \in Marks
<1>1. marks' \in 1 .. MaxMarks + 1
  BY ToolkitAssumption DEF TInv, Typed, EditFiles
<1> QED BY <1>1, MarkFacts

LEMMA EditFilesTyped ==
  ASSUME TInv, NEW d \in {"logo", "boot", "stage2", "initrd"}, EditFiles(d)
  PROVE  TInv'
<1>1. Where' /\ At' = At /\ script' = script /\ todo' = todo /\ said' = said
  BY Still DEF TInv, EditFiles, run
<1>2. marks' \in 0 .. MaxMarks /\ marks' \in Marks
  <2>1. marks' \in 0 .. MaxMarks
    BY ToolkitAssumption DEF TInv, Typed, EditFiles
  <2> QED BY <2>1, MarksStay
<1>5. tree[d] \cup {marks'} \in Held
  BY <1>2 DEF TInv, Typed, Held, EditFiles
<1>6. tree' = [tree EXCEPT ![d] = tree[d] \cup {marks'}]
  BY DEF EditFiles
<1>3. Typed'
  <2>1. tree' \in [system : 1 .. Len(file) \cup {NULL}, logo : Held, boot : Held,
                   ramdisk : Held, stage2 : Held, initrd : Held]
    BY <1>5, <1>6 DEF TInv, Typed
  <2>2. made' \in [Files -> SUBSET Marks]
    BY <1>2 DEF TInv, Typed, EditFiles, Files
  <2>3. marks' \in 0 .. MaxMarks + 1
    BY <1>2, ToolkitAssumption
  <2>4. fits' \in BOOLEAN
    BY DEF EditFiles, TInv, Typed
  <2> QED BY <1>1, <2>1, <2>2, <2>3, <2>4 DEF TInv, Typed, EditFiles, run, dev
<1>4. Standing'
  <2>1. tree'.system = tree.system
    BY <1>6 DEF TInv, Typed
  <2>2. d = "initrd" => tree.initrd # NULL /\ tree'.initrd # NULL
    <3>1. tree[d] \cup {marks'} \in SUBSET Marks
      BY <1>2 DEF TInv, Typed, Held, EditFiles
    <3>2. tree[d] \cup {marks'} # NULL
      BY <3>1, HeldFacts
    <3>3. d = "initrd" => tree'.initrd = tree[d] \cup {marks'} /\ tree.initrd = tree[d]
      BY <1>6 DEF TInv, Typed
    <3>4. tree[d] # NULL
      BY DEF EditFiles
    <3> QED BY <3>2, <3>3, <3>4
  <2>3. d # "initrd" => tree'.initrd = tree.initrd
    BY <1>6 DEF TInv, Typed
  <2> QED BY <1>1, <1>2, <2>1, <2>2, <2>3 DEF TInv, Standing, Doing
<1> QED BY <1>1, <1>3, <1>4 DEF TInv

LEMMA InitTyped == ASSUME Init PROVE TInv
<1>1. Where
  BY DEF Init, Where
<1>2. Typed
  <2>1. /\ 1 \in Marks /\ 0 \in 0 .. MaxMarks + 1 /\ 1 \in 0 .. MaxMarks + 1
        /\ \A boot \in NewBoot(1) : boot \in Held /\ SecondOf(boot) \in Held
    <3>1. 1 \in 1 .. MaxMarks + 1
      BY ToolkitAssumption
    <3> QED BY <3>1, ToolkitAssumption, MarkFacts, BootFacts, HeldFacts
  <2>2. /\ tools \subseteq Tools /\ fits \in BOOLEAN /\ said \in BOOLEAN /\ marks \in 0 .. MaxMarks + 1
    BY <2>1 DEF Init
  <2>3. /\ NoParts \in [Parts -> Held] /\ NoEdits \in [Files -> SUBSET Marks]
        /\ Nothing \in [Parts -> SUBSET Marks]
        /\ \A boot \in Held : [[p \in Parts |-> {1}] EXCEPT !["boot"] = boot] \in [Parts -> Held]
    BY <2>1, HeldFacts DEF NoParts, NoEdits, Nothing, Files
  <2>4. /\ image \in [Parts -> Held] /\ part \in [Parts -> Held] /\ made \in [Files -> SUBSET Marks]
        /\ half \subseteq BothInitrd
    BY <2>1, <2>3 DEF Init
  <2>5. board \in BoardStates
    <3>1. PICK b \in Boards : board = [mode |-> b.mode, locked |-> b.locked, part |-> NoParts]
      BY DEF Init
    <3>2. b.mode \in {"rom", "uboot"} /\ b.locked \in SUBSET {"rom", "uboot"}
      BY ToolkitAssumption
    <3> QED BY <2>3, <3>1, <3>2 DEF BoardStates
  <2>6. began \in Begun
    BY <2>3 DEF Init, NotBegun, Begun
  <2>7. /\ file \in Seq(SUBSET Marks) /\ cache \in [1 .. Len(file) -> SUBSET Marks]
        /\ mounts \in Seq(1 .. Len(file))
        /\ tree \in [system : 1 .. Len(file) \cup {NULL}, logo : Held, boot : Held,
                     ramdisk : Held, stage2 : Held, initrd : Held]
    <3>1. CASE Unpacked
      <4>1. file = <<{1}>> /\ cache = <<{1}>> /\ mounts = <<1>>
        BY <3>1 DEF Init
      <4>2. file \in Seq(SUBSET Marks) /\ Len(file) = 1
        BY <2>1, <4>1
      <4>3. cache \in [1 .. Len(file) -> SUBSET Marks]
        BY <2>1, <4>1
      <4>4. mounts \in Seq(1 .. Len(file))
        BY <4>1, <4>2
      <4>5. tree \in [system : 1 .. Len(file) \cup {NULL}, logo : Held, boot : Held,
                      ramdisk : Held, stage2 : Held, initrd : Held]
        <5>1. PICK boot \in NewBoot(1) :
                tree = [EmptyTree EXCEPT !.system = 1, !.logo = {1}, !.boot = {1},
                                         !.ramdisk = {1}, !.stage2 = SecondOf(boot)]
          BY <3>1 DEF Init
        <5>2. {1} \in Held /\ NULL \in Held /\ SecondOf(boot) \in Held
          BY <2>1, HeldFacts
        <5>3. tree = [system |-> 1, logo |-> {1}, boot |-> {1}, ramdisk |-> {1},
                      stage2 |-> SecondOf(boot), initrd |-> NULL]
          BY <5>1 DEF EmptyTree
        <5>4. 1 \in 1 .. Len(file)
          BY <4>2
        <5> QED BY <5>2, <5>3, <5>4
      <4> QED BY <4>2, <4>3, <4>4, <4>5
    <3>2. CASE ~Unpacked
      <4>1. file = <<>> /\ cache = <<>> /\ mounts = <<>> /\ tree = EmptyTree
        BY <3>2 DEF Init
      <4>2. file \in Seq(SUBSET Marks) /\ Len(file) = 0
        BY <4>1
      <4>3. cache \in [1 .. Len(file) -> SUBSET Marks]
        BY <4>1, <4>2
      <4>4. mounts \in Seq(1 .. Len(file))
        BY <4>1
      <4>5. tree \in [system : 1 .. Len(file) \cup {NULL}, logo : Held, boot : Held,
                      ramdisk : Held, stage2 : Held, initrd : Held]
        BY <4>1, HeldFacts DEF EmptyTree
      <4> QED BY <4>2, <4>3, <4>4, <4>5
    <3> QED BY <3>1, <3>2
  <2> QED BY <2>2, <2>4, <2>5, <2>6, <2>7 DEF Typed
<1>3. Standing
  <2>1. tree.initrd = NULL
    <3>1. CASE Unpacked
      BY <3>1 DEF Init, EmptyTree
    <3>2. CASE ~Unpacked
      BY <3>2 DEF Init, EmptyTree
    <3> QED BY <3>1, <3>2
  <2> QED BY <2>1 DEF Standing, Init, Doing
<1> QED BY <1>1, <1>2, <1>3 DEF TInv

LEMMA TypedStep == ASSUME TInv, Next PROVE TInv'
<1>1. CASE Step
  <2>1. CASE Sync \/ UmountSystem \/ Mount \/ Clear \/ Extract \/ Convert \/ UnpackLogo \/ UnpackBoot
    BY <2>1, SyncTyped, UmountTyped, MountTyped, ClearTyped, ExtractTyped, ConvertTyped,
       UnpackLogoTyped, UnpackBootTyped
  <2>2. CASE \E p \in Parts : Remove(p) \/ Make(p) \/ Write(p)
    BY <2>2, RemoveTyped, MakeTyped, WriteTyped
  <2>3. CASE Pack \/ RemoveInitrd \/ Gunzip \/ RemoveRamdisk \/ Gzip \/ Clean \/ Compile
    BY <2>3, PackTyped, RemoveInitrdTyped, GunzipTyped, RemoveRamdiskTyped, GzipTyped, CleanTyped,
       CompileTyped
  <2>4. CASE Identify \/ Reset \/ Check \/ Load \/ Initial \/ Done
    BY <2>4, IdentifyTyped, ResetTyped, CheckTyped, LoadTyped, InitialTyped, DoneTyped
  <2> QED BY <1>1, <2>1, <2>2, <2>3, <2>4 DEF Step
<1>2. CASE (\E s \in Scripts : Start(s)) \/ Stop \/ Unplug \/ Plug \/ Reboot
  BY <1>2, StartTyped, StopTyped, UnplugTyped, PlugTyped, RebootTyped
<1>3. CASE EditSystem \/ \E d \in {"logo", "boot", "stage2", "initrd"} : EditFiles(d)
  BY <1>3, EditSystemTyped, EditFilesTyped
<1> QED BY <1>1, <1>2, <1>3 DEF Next

LEMMA TypedStutter == ASSUME TInv, UNCHANGED vars PROVE TInv'
<1>1. Where' /\ At' = At
  BY Still DEF TInv, vars, run
<1>2. Typed'
  BY DEF TInv, Typed, vars, tk, run, dev, hist
<1>3. Standing'
  BY <1>1 DEF TInv, Standing, Doing, vars, tk, run, dev, hist
<1> QED BY <1>1, <1>2, <1>3 DEF TInv

LEMMA TypedAlways == Spec => []TInv
<1>1. Init => TInv
  BY InitTyped
<1>2. TInv /\ [Next]_vars => TInv'
  BY TypedStep, TypedStutter
<1> QED BY <1>1, <1>2, PTL DEF Spec

\* Whatever a command finds and however it fails, files hold marks or are absent,
\* what is mounted and what output/ refers to exists, and a script that runs has
\* the line "done" before it.
THEOREM TypesKept == Spec => []TypeOK
<1>1. TInv => TypeOK
  <2> SUFFICES ASSUME TInv PROVE TypeOK
    OBVIOUS
  <2>1. DOMAIN file = 1 .. Len(file) /\ Len(file) \in Nat
    BY LenProperties DEF TInv, Typed
  <2>2. todo # <<>> => todo[Len(todo)] = <<"done">> /\ ~said
    BY Reading DEF TInv, Standing
  <2> QED BY <2>1, <2>2 DEF TInv, Typed, Standing, TypeOK, Held, BoardStates
<1> QED BY <1>1, TypedAlways, PTL

-----------------------------------------------------------------------------
(* The steps that leave the tree alone.                                    *)

\* A failure that the property excepts.
Umounting == \E f \in faults : f.command = "umount"

\* A script does not rely on what it has done before these of its lines.
Free ==
  \/ script \in {"none", "recreate", "repack", "flash"} \/ At = 1
  \/ script \in {"remount", "unmount"} /\ At = 2
  \/ script \in DOMAIN Commands /\ At = Length[script] + 1

\* Steps that change nothing in the tree, but for a sync, and that leave no script at
\* a line before which it has done something.
Quiet ==
  /\ UNCHANGED <<tools, tree, cache, mounts, made, half>> /\ file' \in {file, Flushed}
  /\ faults \subseteq faults'
  /\ Free' \/ (script' = script /\ At' = At)

BurnLine(c) ==
  /\ todo # <<>> /\ Head(todo) = c /\ (Next1(c) \/ Quit)
  /\ c[1] \in {"identify", "reset", "check", "load", "initial", "write"}
  /\ UNCHANGED <<tk, image, marks, began, made, half>> /\ faults \subseteq faults'

LEMMA BurnFrame ==
  ASSUME Where, Identify \/ Reset \/ Check \/ Load \/ Initial \/ (\E p \in Parts : Write(p))
  PROVE  Burning /\ UNCHANGED <<tk, image, marks, began, made, half>> /\ faults \subseteq faults'
<1>1. Identify => BurnLine(<<"identify">>)
  BY DEF Identify, CheckLock, BurnLine, dev, Works, Note
<1>8. Check => BurnLine(<<"check">>)
  BY DEF Check, CheckLock, BurnLine, dev, Works, Note
<1>2. Reset => BurnLine(<<"reset">>)
  BY DEF Reset, Command, BurnLine, Next1, dev, Works, Note
<1>3. Load => BurnLine(<<"load">>)
  BY DEF Load, Command, BurnLine, Works, Note
<1>4. Initial => BurnLine(<<"initial">>)
  BY DEF Initial, Command, BurnLine, Works, Note
<1>5. ASSUME NEW p \in Parts, Write(p) PROVE BurnLine(<<"write", p>>)
  BY <1>5 DEF Write, Command, BurnLine, dev, Works, Note
<1>6. PICK c : BurnLine(c)
  BY <1>1, <1>2, <1>3, <1>4, <1>5, <1>8
<1>7. Burning
  BY <1>6, BurnPlace DEF BurnLine
<1> QED BY <1>6, <1>7 DEF BurnLine

LEMMA QuietSync == ASSUME TInv, Sync PROVE Quiet
<1>1. /\ Moved /\ script \in {"recreate", "repack", "flash", "remount", "unmount"}
      /\ script \in {"remount", "unmount"} => At = 1
  BY SyncPlace DEF TInv
<1>2. Free'
  BY <1>1 DEF Moved, Free
<1> QED BY <1>1, <1>2 DEF Quiet, Sync, Works

LEMMA QuietMaking ==
  ASSUME TInv, Pack \/ \E p \in Parts : Remove(p) \/ Make(p)
  PROVE  Quiet
<1>1. script \in {"recreate", "repack", "flash"} /\ script' = script
  BY RemovePlace, MakePlace, PackPlace DEF TInv, Moved
<1>2. Free'
  BY <1>1 DEF Free
<1>3. UNCHANGED <<tools, tree, cache, mounts, made, half, file>> /\ faults \subseteq faults'
  BY DEF Pack, Remove, Make, Works, Fails, Note, tk
<1> QED BY <1>2, <1>3 DEF Quiet

LEMMA QuietBurning ==
  ASSUME TInv, Identify \/ Reset \/ Check \/ Load \/ Initial \/ (\E p \in Parts : Write(p))
  PROVE  Quiet
<1>1. Burning /\ UNCHANGED <<tk, image, marks, began, made, half>> /\ faults \subseteq faults'
  BY BurnFrame DEF TInv
<1>2. Free'
  BY <1>1 DEF Free, Burning
<1> QED BY <1>1, <1>2 DEF Quiet, tk

LEMMA QuietEnds == ASSUME TInv, Done \/ Stop PROVE Quiet
<1>1. /\ script \in DOMAIN Commands /\ script' = script /\ todo # <<>> /\ todo' = <<>>
      /\ At' = Length[script] + 1
  BY EndPlace, Reading DEF TInv, Stop, Done
<1>2. Free'
  BY <1>1 DEF Free
<1>3. UNCHANGED <<tools, tree, cache, mounts, made, half, file>>
  BY DEF Done, Stop, tk, hist
<1>4. faults \subseteq faults'
  BY DEF Done, Stop, hist, Fails, Note
<1> QED BY <1>2, <1>3, <1>4 DEF Quiet

LEMMA QuietStart == ASSUME TInv, NEW s \in Scripts, Start(s) PROVE Quiet
<1>1. At' = 1
  BY ScriptsAssumption, StartPlace DEF Start
<1>3. UNCHANGED <<tools, tree, cache, mounts, made, half, file, faults>>
  BY DEF Start, tk
<1> QED BY <1>1, <1>3 DEF Quiet, Free

LEMMA QuietStill == ASSUME TInv, Unplug \/ Plug \/ UNCHANGED vars PROVE Quiet
<1>1. script' = script /\ At' = At
  BY Still DEF TInv, Unplug, Plug, run, vars
<1>2. UNCHANGED <<tools, tree, cache, mounts, made, half, file, faults>>
  BY DEF Unplug, Plug, tk, hist, vars
<1> QED BY <1>1, <1>2 DEF Quiet

\* What a system image holds for the user, a sync or an umount leaves alone.
LEMMA LiveKept ==
  ASSUME Typed, file' \in {file, Flushed}, cache' = cache, NEW i \in 1 .. Len(file),
         Mounted(i)' => Mounted(i), Mounted(i)' \/ ~Mounted(i) \/ file' = Flushed
  PROVE  Live(i)' = Live(i)
<1>1. Flushed[i] = IF Mounted(i) THEN cache[i] ELSE file[i]
  BY FlushedFacts
<1> HIDE DEF Flushed
<1>2. CASE Mounted(i)'
  BY <1>2 DEF Live
<1>3. CASE ~Mounted(i)'
  BY <1>1, <1>3 DEF Live
<1> QED BY <1>2, <1>3

\* The other steps.
Loud ==
  \/ UmountSystem \/ Mount \/ Clear \/ Extract \/ Convert \/ UnpackLogo \/ UnpackBoot
  \/ RemoveInitrd \/ Gunzip \/ RemoveRamdisk \/ Gzip \/ Clean \/ Compile
  \/ Reboot \/ EditSystem \/ (\E d \in {"logo", "boot", "stage2", "initrd"} : EditFiles(d))

LEMMA QuietOrLoud == ASSUME TInv, [Next]_vars PROVE Quiet \/ Loud
<1>1. Sync => Quiet
  BY QuietSync
<1>2. (Pack \/ \E p \in Parts : Remove(p) \/ Make(p)) => Quiet
  BY QuietMaking
<1>3. (Identify \/ Reset \/ Check \/ Load \/ Initial \/ (\E p \in Parts : Write(p))) => Quiet
  BY QuietBurning
<1>4. (Done \/ Stop \/ Unplug \/ Plug \/ UNCHANGED vars \/ (\E s \in Scripts : Start(s))) => Quiet
  BY QuietEnds, QuietStart, QuietStill
<1> QED BY <1>1, <1>2, <1>3, <1>4 DEF Next, Step, Loud

LEMMA FaultsStay == ASSUME Loud PROVE faults \subseteq faults'
<1>1. (UmountSystem \/ Mount \/ Clear \/ Extract \/ Convert) => faults \subseteq faults'
  BY DEF UmountSystem, Mount, Clear, Extract, Convert, Works, Fails, Note
<1>2. (UnpackLogo \/ UnpackBoot \/ RemoveInitrd \/ Gunzip) => faults \subseteq faults'
  BY DEF UnpackLogo, UnpackBoot, RemoveInitrd, Gunzip, Works, Fails, Note
<1>3. (RemoveRamdisk \/ Gzip \/ Clean \/ Compile) => faults \subseteq faults'
  BY DEF RemoveRamdisk, Gzip, Clean, Compile, Works, Fails, Note
<1>4. (Reboot \/ EditSystem \/ \E d \in {"logo", "boot", "stage2", "initrd"} : EditFiles(d)) => faults \subseteq faults'
  BY DEF Reboot, EditSystem, EditFiles, hist
<1> QED BY <1>1, <1>2, <1>3, <1>4 DEF Loud

-----------------------------------------------------------------------------
(* What is not there between the line that clears output/ and the one that *)
(* makes it again.                                                         *)

\* What unpack, cleanup and build have removed is absent until it is made again.
Emptied ==
  /\ Doing("unpack", 3 .. 4) \/ Doing("cleanup", {3}) \/ Doing("build", {3}) => tree.system = NULL
  /\ Doing("unpack", 3 .. 6) => tree.logo = NULL
  /\ Doing("unpack", 3 .. 7) => tree.boot = NULL /\ tree.ramdisk = NULL /\ tree.stage2 = NULL

LEMMA EmptiedStep == ASSUME TInv, Emptied, [Next]_vars PROVE Emptied'
<1>1. CASE Quiet
  <2>1. CASE Free'
    <3>1. Length["unpack"] = 8 /\ Length["cleanup"] = 4 /\ Length["build"] = 5
      BY DEF Length
    <3>2. ~Doing("unpack", 3 .. 7)' /\ ~Doing("cleanup", {3})' /\ ~Doing("build", {3})'
      BY <2>1, <3>1 DEF Free, Doing
    <3>3. ~Doing("unpack", 3 .. 6)' /\ ~Doing("unpack", 3 .. 4)'
      BY <3>2 DEF Doing
    <3> QED BY <3>2, <3>3 DEF Emptied
  <2>2. CASE script' = script /\ At' = At
    BY <1>1, <2>2 DEF Emptied, Doing, Quiet
  <2> QED BY <1>1, <2>1, <2>2 DEF Quiet
<1>2. CASE UmountSystem
  <2>1. Moved /\ <<script, At>> \in ({"unpack", "cleanup", "build"} \X {1}) \cup ({"remount", "unmount"} \X {2})
    BY <1>2, UmountSystemPlace DEF TInv
  <2> QED BY <2>1 DEF Emptied, Doing, Moved
<1>3. CASE Mount
  <2>1. Moved /\ <<script, At>> \in {<<"unpack", 5>>, <<"remount", 3>>} /\ UNCHANGED <<tree, made>>
    BY <1>3, MountPlace DEF TInv, Mount
  <2> QED BY <2>1 DEF Emptied, Doing, Moved
<1>4. CASE Clear
  <2>1. tree' = EmptyTree
    BY <1>4 DEF Clear, Cleared
  <2> QED BY <2>1 DEF Emptied, EmptyTree
<1>5. CASE Extract
  <2>1. Moved /\ script = "unpack" /\ At = 3 /\ UNCHANGED <<tree, made>>
    BY <1>5, ExtractPlace DEF TInv, Extract
  <2> QED BY <2>1 DEF Emptied, Doing, Moved
<1>6. CASE Convert
  <2>1. Moved /\ script = "unpack" /\ At = 4 /\ made' = made
    BY <1>6, ConvertPlace DEF TInv, Convert
  <2>2. /\ tree'.logo = tree.logo /\ tree'.boot = tree.boot
        /\ tree'.ramdisk = tree.ramdisk /\ tree'.stage2 = tree.stage2
    BY <1>6 DEF TInv, Typed, Convert
  <2> QED BY <2>1, <2>2 DEF Emptied, Doing, Moved
<1>7. CASE UnpackLogo
  <2>1. Moved /\ script = "unpack" /\ At = 6 /\ made' = made
    BY <1>7, UnpackLogoPlace DEF TInv, UnpackLogo
  <2>2. tree'.boot = tree.boot /\ tree'.ramdisk = tree.ramdisk /\ tree'.stage2 = tree.stage2
    BY <1>7 DEF TInv, Typed, UnpackLogo
  <2> QED BY <2>1, <2>2 DEF Emptied, Doing, Moved
<1>8. CASE UnpackBoot
  <2>1. Moved /\ script = "unpack" /\ At = 7
    BY <1>8, UnpackBootPlace DEF TInv
  <2> QED BY <2>1 DEF Emptied, Doing, Moved
<1>9. CASE RemoveInitrd \/ Gunzip \/ RemoveRamdisk \/ Gzip
  <2>1. script' \in {"extract_initrd", "recreate_initrd"}
    BY <1>9, RemoveInitrdPlace, GunzipPlace, RemoveRamdiskPlace, GzipPlace DEF TInv, Moved
  <2> QED BY <2>1 DEF Emptied, Doing
<1>10. CASE Clean
  <2>1. Moved /\ script \in {"cleanup", "build"} /\ At = 3
    BY <1>10, CleanPlace DEF TInv
  <2> QED BY <2>1 DEF Emptied, Doing, Moved
<1>11. CASE Compile
  <2>1. Moved /\ script = "build" /\ At = 4
    BY <1>11, CompilePlace DEF TInv
  <2> QED BY <2>1 DEF Emptied, Doing, Moved
<1>12. CASE Reboot
  <2>1. At' = At /\ script' = script /\ UNCHANGED <<tree, made>>
    BY <1>12, Still DEF TInv, Reboot, run, hist
  <2> QED BY <2>1 DEF Emptied, Doing
<1>13. CASE EditSystem
  <2>1. At' = At /\ script' = script /\ tree' = tree
    BY <1>13, Still DEF TInv, EditSystem, run
  <2> QED BY <2>1 DEF Emptied, Doing
<1>14. ASSUME NEW d \in {"logo", "boot", "stage2", "initrd"}, EditFiles(d) PROVE Emptied'
  <2>1. At' = At /\ script' = script /\ tree[d] # NULL
    BY <1>14, Still DEF TInv, EditFiles, run
  <2>2. tree' = [tree EXCEPT ![d] = tree[d] \cup {marks'}]
    BY <1>14 DEF EditFiles
  <2>3. /\ tree'.system = tree.system /\ tree'.ramdisk = tree.ramdisk
        /\ tree.logo = NULL => tree'.logo = NULL
        /\ tree.boot = NULL => tree'.boot = NULL
        /\ tree.stage2 = NULL => tree'.stage2 = NULL
    BY <2>1, <2>2 DEF TInv, Typed
  <2> QED BY <2>1, <2>3 DEF Emptied, Doing
<1> QED BY <1>1, <1>2, <1>3, <1>4, <1>5, <1>6, <1>7, <1>8, <1>9, <1>10, <1>11, <1>12, <1>13, <1>14,
       QuietOrLoud DEF Loud

-----------------------------------------------------------------------------
(* What is mounted.                                                        *)

\* Where a script relies on its umount.
Bare ==
  Doing("unpack", 2 .. 5) \/ Doing("cleanup", {2}) \/ Doing("build", {2}) \/ Doing("remount", {3})

\* Unless umount has failed, nothing is mounted after it, so that rm -rf, a
\* conversion and a new mount find a bare directory.
Unmounted ==
  \/ Umounting
  \/ mounts \in {<<>>, <<tree.system>>} /\ (Bare => mounts = <<>>)

LEMMA UnmountedStep == ASSUME TInv, Unmounted, [Next]_vars PROVE Unmounted'
<1>0. CASE Umounting
  <2>1. faults \subseteq faults'
    BY QuietOrLoud, FaultsStay DEF Quiet
  <2> QED BY <1>0, <2>1 DEF Umounting, Unmounted
<1> SUFFICES ASSUME ~Umounting PROVE Unmounted'
  BY <1>0
<1>a. mounts \in {<<>>, <<tree.system>>} /\ (Bare => mounts = <<>>)
  BY DEF Unmounted
\* What a step that mounts nothing has to show.
<1>b. ASSUME mounts' = mounts, tree'.system = tree.system \/ mounts = <<>>,
             Bare' => Bare \/ mounts = <<>>
      PROVE  Unmounted'
  BY <1>a, <1>b DEF Unmounted
<1>1. CASE Quiet
  <2>1. CASE Free'
    <3>1. Length["unpack"] = 8 /\ Length["cleanup"] = 4 /\ Length["build"] = 5 /\ Length["remount"] = 4
      BY DEF Length
    <3>2. ~Bare'
      BY <2>1, <3>1 DEF Free, Bare, Doing
    <3> QED BY <1>1, <1>b, <3>2 DEF Quiet
  <2>2. CASE script' = script /\ At' = At
    BY <1>1, <1>b, <2>2 DEF Bare, Doing, Quiet
  <2> QED BY <1>1, <2>1, <2>2 DEF Quiet
<1>2. CASE UmountSystem
  <2>1. CASE mounts # <<>> /\ Fails("umount")
    <3>1. [script |-> script, command |-> "umount"] \in faults'
      BY <2>1 DEF Fails, Note
    <3> QED BY <3>1 DEF Unmounted, Umounting
  <2>2. CASE mounts' = IF mounts = <<>> THEN mounts ELSE SubSeq(mounts, 1, Len(mounts) - 1)
    <3>1. mounts' = <<>>
      BY <1>a, <2>2
    <3> QED BY <3>1 DEF Unmounted
  <2> QED BY <1>2, <2>1, <2>2 DEF UmountSystem
<1>3. CASE Mount
  <2>1. Moved /\ <<script, At>> \in {<<"unpack", 5>>, <<"remount", 3>>} /\ tree' = tree
    BY <1>3, MountPlace DEF TInv, Mount
  <2>2. mounts = <<>> /\ ~Bare'
    BY <1>a, <2>1 DEF Bare, Doing, Moved
  <2>3. mounts' \in {<<>>, <<tree.system>>}
    BY <1>3, <2>2 DEF Mount
  <2> QED BY <2>1, <2>2, <2>3 DEF Unmounted
<1>4. CASE Clear
  <2>1. Moved /\ script \in {"unpack", "cleanup", "build"} /\ At = 2 /\ mounts' = mounts
    BY <1>4, ClearPlace DEF TInv, Clear
  <2>2. mounts = <<>>
    BY <1>a, <2>1 DEF Bare, Doing
  <2> QED BY <1>b, <2>1, <2>2
<1>5. CASE Extract
  <2>1. Moved /\ script = "unpack" /\ At = 3 /\ UNCHANGED <<tree, mounts>>
    BY <1>5, ExtractPlace DEF TInv, Extract
  <2> QED BY <1>b, <2>1 DEF Bare, Doing
<1>6. CASE Convert
  <2>1. Moved /\ script = "unpack" /\ At = 4 /\ mounts' = mounts
    BY <1>6, ConvertPlace DEF TInv, Convert
  <2>2. mounts = <<>>
    BY <1>a, <2>1 DEF Bare, Doing
  <2> QED BY <1>b, <2>1, <2>2
<1>7. CASE UnpackLogo \/ UnpackBoot
  <2>1. Moved /\ script = "unpack" /\ At \in 6 .. 7
    BY <1>7, UnpackLogoPlace, UnpackBootPlace DEF TInv
  <2>2. ~Bare'
    BY <2>1 DEF Bare, Doing, Moved
  <2>3. mounts' = mounts
    BY <1>7 DEF UnpackLogo, UnpackBoot
  <2>4. UnpackLogo => tree'.system = tree.system
    BY DEF TInv, Typed, UnpackLogo
  <2>5. UnpackBoot => tree'.system = tree.system
    BY DEF TInv, Typed, UnpackBoot
  <2> QED BY <1>7, <1>b, <2>2, <2>3, <2>4, <2>5
<1>8. CASE RemoveInitrd \/ Gunzip \/ RemoveRamdisk \/ Gzip
  <2>1. script' \in {"extract_initrd", "recreate_initrd"}
    BY <1>8, RemoveInitrdPlace, GunzipPlace, RemoveRamdiskPlace, GzipPlace DEF TInv, Moved
  <2>2. ~Bare'
    BY <2>1 DEF Bare, Doing
  <2>3. mounts' = mounts
    BY <1>8 DEF RemoveInitrd, Gunzip, RemoveRamdisk, Gzip
  <2>4. (RemoveInitrd \/ Gunzip) => tree'.system = tree.system
    BY DEF TInv, Typed, RemoveInitrd, Gunzip
  <2>5. (RemoveRamdisk \/ Gzip) => tree'.system = tree.system
    BY DEF TInv, Typed, RemoveRamdisk, WithoutRamdisk, Gzip
  <2> QED BY <1>8, <1>b, <2>2, <2>3, <2>4, <2>5
<1>9. CASE Clean \/ Compile
  <2>1. script' \in {"cleanup", "build"} /\ At' \in {4, 5} /\ UNCHANGED <<tree, mounts>>
    BY <1>9, CleanPlace, CompilePlace DEF TInv, Moved, Clean, Compile
  <2>2. ~Bare'
    BY <2>1 DEF Bare, Doing
  <2> QED BY <1>b, <2>1, <2>2
<1>10. CASE Reboot
  BY <1>10 DEF Reboot, Unmounted
<1>11. CASE EditSystem
  <2>1. At' = At /\ script' = script /\ UNCHANGED <<tree, mounts>>
    BY <1>11, Still DEF TInv, EditSystem, run
  <2> QED BY <1>b, <2>1 DEF Bare, Doing
<1>12. ASSUME NEW d \in {"logo", "boot", "stage2", "initrd"}, EditFiles(d) PROVE Unmounted'
  <2>1. At' = At /\ script' = script /\ mounts' = mounts
    BY <1>12, Still DEF TInv, EditFiles, run
  <2>2. tree'.system = tree.system
    BY <1>12 DEF EditFiles, TInv, Typed
  <2> QED BY <1>b, <2>1, <2>2 DEF Bare, Doing
<1> QED BY <1>1, <1>2, <1>3, <1>4, <1>5, <1>6, <1>7, <1>8, <1>9, <1>10, <1>11, <1>12, QuietOrLoud DEF Loud

\* What is mounted is the image that output/ refers to, unless umount has failed:
\* each script that changes that image unmounts it first.
THEOREM MountShows == Spec => []MountShowsImage
<1>1. Init => Unmounted
  <2>1. Init => mounts \in {<<>>, <<tree.system>>} /\ ~Bare
    BY DEF Init, Bare, Doing, EmptyTree
  <2> QED BY <2>1 DEF Unmounted
<1>2. TInv /\ Unmounted /\ [Next]_vars => Unmounted'
  BY UnmountedStep
<1>3. Unmounted => MountShowsImage
  BY DEF Unmounted, Umounting, MountShowsImage
<1> QED BY <1>1, <1>2, <1>3, TypedAlways, PTL DEF Spec

-----------------------------------------------------------------------------
(* Where the edits are.                                                    *)

\* The edits that should be in the tree are in what the mounted system shows and in
\* the files.  Those of the initrd are in initrd, or, while what extract_initrd removes
\* is not made again, in the ramdisk, unless recreate_initrd has removed that.
SystemCarried ==
  /\ tree.system = NULL => made.system = {}
  /\ tree.system # NULL => made.system \subseteq Live(tree.system)

FilesCarried == \A d \in {"logo", "boot", "stage2"} : made[d] \subseteq Content(tree[d])

Edited == made.initrd \ made.removed

InitrdCarried ==
  /\ Doing("recreate_initrd", {2}) => "recreate_initrd" \in half
  /\ "extract_initrd" \notin half => Edited \subseteq Content(tree.initrd)
  /\ half # BothInitrd => Edited \subseteq Content(tree.initrd) \cup Content(tree.ramdisk)

LEMMA FrontFacts ==
  ASSUME NEW S, NEW s \in Seq(S), s # <<>>
  PROVE  LET t == SubSeq(s, 1, Len(s) - 1)
         IN  t \in Seq(S) /\ Len(t) = Len(s) - 1 /\ \A k \in 1 .. Len(s) - 1 : t[k] = s[k]
<1> DEFINE n == Len(s) - 1
           t == SubSeq(s, 1, n)
<1>1. Len(s) \in Nat /\ Len(s) # 0 /\ \A k \in 1 .. Len(s) : s[k] \in S
  BY EmptySeq, ElementOfSeq, LenProperties
<1>2. n \in Nat /\ \A k \in 1 .. n : s[k] \in S
  BY <1>1
<1> HIDE DEF n
<1>3. /\ t \in Seq(S) /\ Len(t) = IF 1 =< n THEN n - 1 + 1 ELSE 0
      /\ \A k \in 1 .. n - 1 + 1 : t[k] = s[1 + k - 1]
  BY <1>2, SubSeqProperties
<1> HIDE DEF t
<1>4. Len(t) = n
  BY <1>2, <1>3
<1>5. \A k \in 1 .. n : t[k] = s[k]
  <2>1. \A k \in 1 .. n : k \in 1 .. n - 1 + 1 /\ 1 + k - 1 = k
    BY <1>2
  <2> QED BY <1>3, <2>1
<1> QED BY <1>3, <1>4, <1>5 DEF t, n

LEMMA SystemCarriedStep ==
  ASSUME TInv, Emptied, SystemCarried, [Next]_vars
  PROVE  SystemCarried'
<1>a. tree.system # NULL => tree.system \in 1 .. Len(file)
  BY DEF TInv, Typed
<1>b. /\ file \in Seq(SUBSET Marks) /\ Len(file) \in Nat /\ cache \in [1 .. Len(file) -> SUBSET Marks]
      /\ mounts \in Seq(1 .. Len(file)) /\ Len(mounts) \in Nat
  BY LenProperties DEF TInv, Typed
\* What a step that leaves the image alone has to show.
<1>c. ASSUME tree'.system = tree.system, made'.system = made.system,
             tree.system # NULL => Live(tree.system)' = Live(tree.system)
      PROVE  SystemCarried'
  <2>1. CASE tree.system = NULL
    BY <1>c, <2>1 DEF SystemCarried
  <2>2. CASE tree.system # NULL
    <3>1. Live(tree.system)' = Live(tree.system) /\ tree'.system # NULL
      BY <1>c, <2>2
    <3> QED BY <1>c, <2>2, <3>1 DEF SystemCarried
  <2> QED BY <2>1, <2>2
<1>1. CASE Quiet
  <2>1. tree' = tree /\ made' = made /\ file' \in {file, Flushed} /\ UNCHANGED <<cache, mounts>>
    BY <1>1 DEF Quiet
  <2>2. tree.system # NULL => Live(tree.system)' = Live(tree.system)
    BY <1>a, <2>1, LiveKept DEF TInv, Mounted
  <2> QED BY <1>c, <2>1, <2>2
<1>2. CASE UmountSystem \/ Reboot
  <2>1. UNCHANGED <<tree, made, cache>>
    BY <1>2 DEF UmountSystem, Reboot, hist
  <2>2. ASSUME NEW i \in 1 .. Len(file) PROVE Live(i)' = Live(i)
    <3>1. CASE UNCHANGED <<file, mounts>>
      BY <2>1, <3>1 DEF Live, Mounted
    <3>2. CASE file' = Flushed /\ mounts' = mounts
      BY <2>1, <3>2, LiveKept DEF TInv, Mounted
    <3>3. CASE file' = Flushed /\ mounts' = <<>>
      <4>1. ~Mounted(i)'
        BY <3>3 DEF Mounted
      <4> QED BY <2>1, <3>3, <4>1, LiveKept DEF TInv
    <3>4. CASE file' = Flushed /\ mounts # <<>> /\ mounts' = SubSeq(mounts, 1, Len(mounts) - 1)
      <4>1. \A k \in DOMAIN mounts' : k \in DOMAIN mounts /\ mounts'[k] = mounts[k]
        <5>1. /\ Len(mounts') = Len(mounts) - 1
              /\ mounts' \in Seq(1 .. Len(file)) /\ \A k \in 1 .. Len(mounts) - 1 : mounts'[k] = mounts[k]
          BY <1>b, <3>4, FrontFacts
        <5>2. DOMAIN mounts' = 1 .. Len(mounts) - 1 /\ DOMAIN mounts = 1 .. Len(mounts)
          BY <1>b, <5>1, LenProperties
        <5> QED BY <1>b, <5>1, <5>2, SMTT(40)
      <4>2. Mounted(i)' => Mounted(i)
        BY <4>1 DEF Mounted
      <4> QED BY <2>1, <3>4, <4>2, LiveKept DEF TInv
    <3> QED BY <1>2, <3>1, <3>2, <3>3, <3>4 DEF UmountSystem, Reboot
  <2> QED BY <1>a, <1>c, <2>1, <2>2
<1>3. CASE Mount
  <2>1. UNCHANGED <<tree, made, file>>
    BY <1>3 DEF Mount
  <2>2. CASE UNCHANGED <<mounts, cache>>
    BY <1>c, <2>1, <2>2 DEF Live, Mounted
  <2>3. CASE /\ tree.system # NULL /\ mounts' = Append(mounts, tree.system)
             /\ cache' = [cache EXCEPT ![tree.system] = Live(tree.system)]
    <3>1. Mounted(tree.system)'
      <4>1. Len(mounts) + 1 \in DOMAIN mounts' /\ mounts'[Len(mounts) + 1] = tree.system
        BY <1>a, <1>b, <2>3
      <4> QED BY <2>1, <4>1 DEF Mounted
    <3>2. cache'[tree.system] = Live(tree.system)
      BY <1>a, <1>b, <2>3
    <3>3. Live(tree.system)' = Live(tree.system)
      BY <2>1, <3>1, <3>2 DEF Live
    <3> QED BY <1>c, <2>1, <3>3
  <2> QED BY <1>3, <2>2, <2>3 DEF Mount
<1>4. CASE Clear
  <2>1. tree'.system = NULL /\ made'.system = {}
    BY <1>4 DEF Clear, Cleared, EmptyTree, NoEdits
  <2> QED BY <2>1 DEF SystemCarried
<1>5. CASE Extract
  BY <1>5, <1>c DEF Extract, Live, Mounted
<1>6. CASE Convert
  <2>1. Moved /\ script = "unpack" /\ At = 4 /\ made' = made
    BY <1>6, ConvertPlace DEF TInv, Convert
  <2>2. made.system = {}
    BY <2>1 DEF Emptied, Doing, SystemCarried
  <2> QED BY <2>1, <2>2 DEF SystemCarried
<1>7. CASE UnpackLogo
  <2>1. UNCHANGED <<file, cache, mounts, made>> /\ tree'.system = tree.system
    BY <1>7 DEF TInv, Typed, UnpackLogo
  <2> QED BY <1>c, <2>1 DEF Live, Mounted
<1>8. CASE UnpackBoot
  <2>1. UNCHANGED <<file, cache, mounts, made>> /\ tree'.system = tree.system
    BY <1>8 DEF TInv, Typed, UnpackBoot
  <2> QED BY <1>c, <2>1 DEF Live, Mounted
<1>9. CASE RemoveInitrd \/ Gunzip
  <2>1. UNCHANGED <<file, cache, mounts>> /\ tree'.system = tree.system /\ made'.system = made.system
    BY <1>9 DEF TInv, Typed, Files, RemoveInitrd, Gunzip
  <2> QED BY <1>c, <2>1 DEF Live, Mounted
<1>10. CASE RemoveRamdisk \/ Gzip
  <2>1. UNCHANGED <<file, cache, mounts>> /\ tree'.system = tree.system /\ made'.system = made.system
    BY <1>10 DEF TInv, Typed, Files, RemoveRamdisk, WithoutRamdisk, Gzip
  <2> QED BY <1>c, <2>1 DEF Live, Mounted
<1>11. CASE Clean \/ Compile
  BY <1>11, <1>c DEF Clean, Compile, Live, Mounted
<1>12. CASE EditSystem
  <2> DEFINE i == mounts[Len(mounts)]
  <2>1. /\ UNCHANGED <<tree, file, mounts>> /\ cache' = [cache EXCEPT ![i] = cache[i] \cup {marks'}]
        /\ made' = IF i = tree.system THEN [made EXCEPT !.system = made.system \cup {marks'}] ELSE made
    BY <1>12 DEF EditSystem
  <2>2. i \in 1 .. Len(file) /\ Mounted(i)
    <3>1. Len(mounts) \in 1 .. Len(mounts) /\ Len(mounts) \in DOMAIN mounts
      BY <1>b, <1>12, EmptySeq, LenProperties DEF EditSystem
    <3> QED BY <1>b, <3>1, ElementOfSeq DEF Mounted
  <2> HIDE DEF i
  <2>3. CASE i = tree.system
    <3>1. i # NULL /\ made.system \subseteq cache[i]
      BY <1>b, <2>2, <2>3, NullIsNothing DEF SystemCarried, Live
    <3>2. made'.system = made.system \cup {marks'} /\ cache'[i] = cache[i] \cup {marks'}
      BY <1>b, <2>1, <2>2, <2>3 DEF TInv, Typed, Files
    <3>3. Live(tree.system)' = cache'[i]
      BY <2>1, <2>2, <2>3 DEF Live, Mounted
    <3> QED BY <2>1, <2>3, <3>1, <3>2, <3>3 DEF SystemCarried
  <2>4. CASE i # tree.system
    <3>1. tree.system # NULL => Live(tree.system)' = Live(tree.system)
      BY <1>a, <1>b, <2>1, <2>2, <2>4 DEF Live, Mounted
    <3> QED BY <1>c, <2>1, <2>4, <3>1
  <2> QED BY <2>3, <2>4
<1>13. ASSUME NEW d \in {"logo", "boot", "stage2", "initrd"}, EditFiles(d) PROVE SystemCarried'
  <2>1. UNCHANGED <<file, cache, mounts>> /\ tree'.system = tree.system /\ made'.system = made.system
    BY <1>13 DEF TInv, Typed, Files, EditFiles
  <2> QED BY <1>c, <2>1 DEF Live, Mounted
<1> QED BY <1>1, <1>2, <1>3, <1>4, <1>5, <1>6, <1>7, <1>8, <1>9, <1>10, <1>11, <1>12, <1>13,
       QuietOrLoud DEF Loud

LEMMA ContentFacts ==
  Content(NULL) = {} /\ \A m \in SUBSET Marks : Content(m) = m
<1>1. \A m \in SUBSET Marks : m # NULL
  BY HeldFacts
<1> QED BY <1>1 DEF Content

LEMMA FilesCarriedStep ==
  ASSUME TInv, Emptied, FilesCarried, [Next]_vars
  PROVE  FilesCarried'
<1>a. ASSUME NEW e \in {"logo", "boot", "stage2"} PROVE made[e] \subseteq Content(tree[e])
  BY DEF FilesCarried
\* What a step has to show that leaves some of the files alone.
<1>b. ASSUME \A e \in {"logo", "boot", "stage2"} :
               \/ tree'[e] = tree[e] /\ made'[e] = made[e]
               \/ made'[e] \subseteq Content(tree'[e])
      PROVE  FilesCarried'
  BY <1>a, <1>b DEF FilesCarried
<1>1. CASE Quiet \/ UmountSystem \/ Mount \/ Extract \/ Clean \/ Compile \/ Reboot
  <2>1. UNCHANGED <<tree, made>>
    BY <1>1 DEF Quiet, UmountSystem, Mount, Extract, Clean, Compile, Reboot, hist
  <2> QED BY <2>1 DEF FilesCarried
<1>2. CASE Clear
  <2>1. made' = NoEdits
    BY <1>2 DEF Clear
  <2> QED BY <2>1 DEF FilesCarried, NoEdits
<1>3. CASE Convert
  <2>1. made' = made /\ \A e \in {"logo", "boot", "stage2"} : tree'[e] = tree[e]
    BY <1>3 DEF TInv, Typed, Convert
  <2> QED BY <1>b, <2>1
<1>4. CASE UnpackLogo
  <2>1. script = "unpack" /\ At = 6
    BY <1>4, UnpackLogoPlace DEF TInv
  <2>2. made["logo"] = {}
    BY <1>a, <2>1, ContentFacts DEF Emptied, Doing
  <2>3. made' = made /\ \A e \in {"boot", "stage2"} : tree'[e] = tree[e]
    BY <1>4 DEF TInv, Typed, UnpackLogo
  <2> QED BY <1>b, <2>2, <2>3
<1>5. CASE UnpackBoot
  <2>1. script = "unpack" /\ At = 7
    BY <1>5, UnpackBootPlace DEF TInv
  <2>2. made["boot"] = {} /\ made["stage2"] = {}
    BY <1>a, <2>1, ContentFacts DEF Emptied, Doing
  <2>3. made' = made /\ tree'["logo"] = tree["logo"]
    BY <1>5 DEF TInv, Typed, UnpackBoot
  <2> QED BY <1>b, <2>2, <2>3
<1>6. CASE RemoveInitrd
  <2>1. \A e \in {"logo", "boot", "stage2"} : tree'[e] = tree[e] /\ made'[e] = made[e]
    BY <1>6 DEF TInv, Typed, Files, RemoveInitrd
  <2> QED BY <1>b, <2>1
<1>7. CASE Gunzip
  <2>1. made' = made /\ \A e \in {"logo", "boot", "stage2"} : tree'[e] = tree[e]
    BY <1>7 DEF TInv, Typed, Gunzip
  <2> QED BY <1>b, <2>1
<1>8. CASE RemoveRamdisk \/ Gzip
  <2>1. RemoveRamdisk => made' = made /\ \A e \in {"logo", "boot", "stage2"} : tree'[e] = tree[e]
    BY DEF TInv, Typed, RemoveRamdisk, WithoutRamdisk
  <2>2. Gzip => made' = made /\ \A e \in {"logo", "boot", "stage2"} : tree'[e] = tree[e]
    BY DEF TInv, Typed, Gzip
  <2> QED BY <1>8, <1>b, <2>1, <2>2
<1>9. CASE EditSystem
  <2>1. tree' = tree /\ \A e \in {"logo", "boot", "stage2"} : made'[e] = made[e]
    BY <1>9 DEF TInv, Typed, Files, EditSystem
  <2> QED BY <1>b, <2>1
<1>10. ASSUME NEW d \in {"logo", "boot", "stage2", "initrd"}, EditFiles(d) PROVE FilesCarried'
  <2>1. /\ \A e \in {"logo", "boot", "stage2"} \ {d} : tree'[e] = tree[e] /\ made'[e] = made[e]
        /\ tree'[d] = tree[d] \cup {marks'} /\ made'[d] = made[d] \cup {marks'}
    BY <1>10 DEF TInv, Typed, Files, EditFiles
  <2>2. tree[d] \in SUBSET Marks /\ tree[d] \cup {marks'} \in SUBSET Marks
    <3>1. marks' \in Marks
      BY <1>10, MarksStay
    <3> QED BY <1>10, <3>1 DEF EditFiles, TInv, Typed, Held
  <2>3. d # "initrd" => made'[d] \subseteq Content(tree'[d])
    BY <1>a, <2>1, <2>2, ContentFacts
  <2> QED BY <1>b, <2>1, <2>3
<1> QED BY <1>1, <1>2, <1>3, <1>4, <1>5, <1>6, <1>7, <1>8, <1>9, <1>10, QuietOrLoud DEF Loud

LEMMA InitrdCarriedStep ==
  ASSUME TInv, Emptied, InitrdCarried, [Next]_vars
  PROVE  InitrdCarried'
<1>a. half \subseteq BothInitrd /\ "extract_initrd" \in BothInitrd /\ "recreate_initrd" \in BothInitrd
  BY DEF TInv, Typed, BothInitrd
\* What a step that leaves both alone, and the place in recreate_initrd, has to show.
<1>b. ASSUME half' = half, Edited' = Edited, tree'.initrd = tree.initrd, tree'.ramdisk = tree.ramdisk,
             Doing("recreate_initrd", {2})' => Doing("recreate_initrd", {2})
      PROVE  InitrdCarried'
  BY <1>b DEF InitrdCarried
<1>1. CASE Quiet
  <2>1. UNCHANGED <<tree, made, half>> /\ (Free' \/ (script' = script /\ At' = At))
    BY <1>1 DEF Quiet
  <2>2. Free' => ~Doing("recreate_initrd", {2})'
    <3>1. Length["recreate_initrd"] = 3
      BY DEF Length
    <3> QED BY <3>1 DEF Free, Doing
  <2> QED BY <1>b, <2>1, <2>2 DEF Doing, Edited
<1>2. CASE UmountSystem \/ Mount \/ Extract \/ Clean \/ Compile
  <2>1. UNCHANGED <<tree, made, half>>
    BY <1>2 DEF UmountSystem, Mount, Extract, Clean, Compile
  <2>2. script' # "recreate_initrd"
    BY <1>2, UmountSystemPlace, MountPlace, ExtractPlace, CleanPlace, CompilePlace DEF TInv, Moved
  <2> QED BY <1>b, <2>1, <2>2 DEF Doing, Edited
<1>3. CASE Clear
  <2>1. made'.initrd = {}
    BY <1>3 DEF Clear, NoEdits
  <2>2. script' # "recreate_initrd"
    BY <1>3, ClearPlace DEF TInv, Moved
  <2> QED BY <2>1, <2>2 DEF InitrdCarried, Edited, Doing
<1>4. CASE Convert \/ UnpackLogo
  <2>1. Convert => tree'.initrd = tree.initrd /\ tree'.ramdisk = tree.ramdisk /\ UNCHANGED <<made, half>>
    BY DEF TInv, Typed, Convert
  <2>2. UnpackLogo => tree'.initrd = tree.initrd /\ tree'.ramdisk = tree.ramdisk /\ UNCHANGED <<made, half>>
    BY DEF TInv, Typed, UnpackLogo
  <2>3. script' = "unpack"
    BY <1>4, ConvertPlace, UnpackLogoPlace DEF TInv, Moved
  <2> QED BY <1>4, <1>b, <2>1, <2>2, <2>3 DEF Doing, Edited
<1>5. CASE UnpackBoot
  <2>1. script' = "unpack" /\ script = "unpack" /\ At = 7 /\ UNCHANGED <<made, half>>
    BY <1>5, UnpackBootPlace DEF TInv, UnpackBoot, Moved
  <2>2. tree'.initrd = tree.initrd
    BY <1>5 DEF TInv, Typed, UnpackBoot
  <2>3. Content(tree.ramdisk) = {}
    BY <2>1, ContentFacts DEF Emptied, Doing
  <2> QED BY <2>1, <2>2, <2>3 DEF InitrdCarried, Edited, Doing
<1>6. CASE RemoveInitrd
  <2>1. script' = "extract_initrd" /\ half' = half \cup {"extract_initrd"}
    BY <1>6, RemoveInitrdPlace DEF TInv, Moved, RemoveInitrd
  <2>2. /\ tree'.ramdisk = tree.ramdisk /\ made'.initrd = made.initrd
        /\ made'.removed = made.removed \cup (made.initrd \ Content(tree.ramdisk))
    BY <1>6 DEF TInv, Typed, Files, RemoveInitrd
  <2>3. Edited' \subseteq Content(tree'.ramdisk)
    BY <2>2 DEF Edited
  <2> QED BY <2>1, <2>3 DEF InitrdCarried, Doing
<1>7. CASE Gunzip
  <2>1. script = "extract_initrd" /\ At = 2 /\ script' = "extract_initrd"
    BY <1>7, GunzipPlace DEF TInv, Moved
  <2>2. made' = made
    BY <1>7 DEF Gunzip
  <2>3. CASE UNCHANGED <<tree, half>>
    BY <1>b, <2>1, <2>2, <2>3 DEF Doing, Edited
  <2>4. CASE /\ tree' = [tree EXCEPT !.initrd = tree.initrd \cup Content(tree.ramdisk)]
             /\ half' = Without("extract_initrd")
    <3>1. tree'.ramdisk = tree.ramdisk /\ tree'.initrd = tree.initrd \cup Content(tree.ramdisk)
      BY <2>4 DEF TInv, Typed
    <3>2. tree.initrd \in SUBSET Marks /\ tree.ramdisk \in Held
      BY <2>1 DEF TInv, Typed, Standing, Doing, Held
    <3>3. Content(tree.ramdisk) \in SUBSET Marks
      BY <3>2, ContentType
    <3>4. Content(tree.initrd) = tree.initrd /\ Content(tree'.initrd) = tree.initrd \cup Content(tree.ramdisk)
      BY <3>1, <3>2, <3>3, ContentFacts
    <3>5. half' # BothInitrd => half # BothInitrd
      BY <2>4 DEF Without
    <3>6. "extract_initrd" \notin half' => half # BothInitrd
      BY <1>a, <2>4 DEF Without
    <3> QED BY <2>1, <2>2, <3>4, <3>5, <3>6 DEF InitrdCarried, Edited, Doing
  <2> QED BY <1>7, <2>3, <2>4 DEF Gunzip
<1>8. CASE RemoveRamdisk
  <2>1. half' = half \cup {"recreate_initrd"} /\ made' = made
    BY <1>8 DEF RemoveRamdisk
  <2>2. tree'.initrd = tree.initrd
    BY <1>8 DEF TInv, Typed, RemoveRamdisk, WithoutRamdisk
  <2>3. half' # BothInitrd => "extract_initrd" \notin half
    BY <1>a, <2>1 DEF BothInitrd
  <2> QED BY <2>1, <2>2, <2>3 DEF InitrdCarried, Edited
<1>9. CASE Gzip
  <2>1. "recreate_initrd" \in half /\ script' = "recreate_initrd" /\ At' = 3
    BY <1>9, GzipPlace DEF TInv, Moved, InitrdCarried, Doing
  <2>2. made' = made
    BY <1>9 DEF Gzip
  <2>3. tree'.initrd = tree.initrd
    BY <1>9 DEF TInv, Typed, Gzip
  <2>4. half' = half \/ half' = Without("recreate_initrd")
    BY <1>9 DEF Gzip
  <2>5. half' # BothInitrd => "extract_initrd" \notin half
    BY <1>a, <2>1, <2>4 DEF Without, BothInitrd
  <2>6. "extract_initrd" \notin half' => "extract_initrd" \notin half
    BY <1>a, <2>4 DEF Without
  <2> QED BY <2>1, <2>2, <2>3, <2>5, <2>6 DEF InitrdCarried, Edited, Doing
<1>10. CASE Reboot
  <2>1. At' = At /\ script' = script /\ UNCHANGED <<tree, made, half>>
    BY <1>10, Still DEF TInv, Reboot, run, hist
  <2> QED BY <1>b, <2>1 DEF Doing, Edited
<1>11. CASE EditSystem
  <2>1. At' = At /\ script' = script /\ tree' = tree /\ half' = half
    BY <1>11, Still DEF TInv, EditSystem, run
  <2>2. made'.initrd = made.initrd /\ made'.removed = made.removed
    BY <1>11 DEF TInv, Typed, Files, EditSystem
  <2> QED BY <1>b, <2>1, <2>2 DEF Doing, Edited
<1>12. ASSUME NEW d \in {"logo", "boot", "stage2", "initrd"}, EditFiles(d) PROVE InitrdCarried'
  <2>1. At' = At /\ script' = script /\ half' = half
    BY <1>12, Still DEF TInv, EditFiles, run
  <2>2. tree'.ramdisk = tree.ramdisk /\ made'.removed = made.removed
    BY <1>12 DEF TInv, Typed, Files, EditFiles
  <2>3. CASE d = "initrd"
    <3>1. tree'.initrd = tree.initrd \cup {marks'} /\ made'.initrd = made.initrd \cup {marks'}
      BY <1>12, <2>3 DEF TInv, Typed, Files, EditFiles
    <3>2. tree.initrd \in SUBSET Marks /\ marks' \in Marks
      BY <1>12, <2>3, MarksStay DEF TInv, Typed, EditFiles, Held
    <3>3. Content(tree'.initrd) = tree.initrd \cup {marks'} /\ Content(tree.initrd) = tree.initrd
      BY <3>1, <3>2, ContentFacts
    <3>4. Edited' \subseteq Edited \cup {marks'}
      BY <2>2, <3>1 DEF Edited
    <3> QED BY <2>1, <2>2, <3>3, <3>4 DEF InitrdCarried, Doing
  <2>4. CASE d # "initrd"
    <3>1. tree'.initrd = tree.initrd /\ made'.initrd = made.initrd
      BY <1>12, <2>4 DEF TInv, Typed, Files, EditFiles
    <3> QED BY <1>b, <2>1, <2>2, <3>1 DEF Doing, Edited
  <2> QED BY <2>3, <2>4
<1> QED BY <1>1, <1>2, <1>3, <1>4, <1>5, <1>6, <1>7, <1>8, <1>9, <1>10, <1>11, <1>12, QuietOrLoud DEF Loud

Carried == Emptied /\ SystemCarried /\ FilesCarried /\ InitrdCarried

LEMMA CarriedAlways == Spec => []Carried
<1>1. Init => Carried
  <2> SUFFICES ASSUME Init PROVE Carried
    OBVIOUS
  <2>1. script = "none" /\ made = NoEdits /\ half = {}
    BY DEF Init
  <2>2. Emptied
    BY <2>1 DEF Emptied, Doing
  <2>3. \A d \in Files : made[d] = {}
    BY <2>1 DEF NoEdits, Files
  <2> QED BY <2>1, <2>2, <2>3 DEF Carried, SystemCarried, FilesCarried, InitrdCarried, Edited, Files, Doing
<1>2. TInv /\ Carried /\ [Next]_vars => Carried'
  BY EmptiedStep, SystemCarriedStep, FilesCarriedStep, InitrdCarriedStep DEF Carried
<1> QED BY <1>1, <1>2, TypedAlways, PTL DEF Spec

\* Whatever fails or is stopped, no script but the ones that clear output/ loses an
\* edit of the system, which the image file or what is mounted from it has, nor one of
\* the logo, the boot files and the second stage.  An edit of the initrd may go when
\* extract_initrd is run again before recreate_initrd (made.removed), or when the one has
\* removed the initrd and the other the ramdisk; else one of the two has it.
THEOREM EditsKept == Spec => []Kept
<1>1. Carried => Kept
  BY DEF Carried, SystemCarried, FilesCarried, InitrdCarried, Edited, Kept
<1> QED BY <1>1, CarriedAlways, PTL

-----------------------------------------------------------------------------
(* The programs that make the partitions.                                  *)

\* Unless a command has failed, the tools are all there or there is nothing to pack.
Equipped == faults = {} => tools = Tools \/ (tools = {} /\ tree.system = NULL)

LEMMA EquippedStep == ASSUME TInv, Emptied, Equipped, [Next]_vars PROVE Equipped'
<1> SUFFICES ASSUME faults' = {} PROVE tools' = Tools \/ (tools' = {} /\ tree'.system = NULL)
  BY DEF Equipped
<1>a. faults = {}
  BY QuietOrLoud, FaultsStay DEF Quiet
<1>b. tools = Tools \/ (tools = {} /\ tree.system = NULL)
  BY <1>a DEF Equipped
<1>1. CASE Quiet
  BY <1>1, <1>b DEF Quiet
<1>2. CASE UmountSystem \/ Mount \/ Extract \/ Reboot \/ EditSystem
  BY <1>2, <1>b DEF UmountSystem, Mount, Extract, Reboot, EditSystem
<1>3. CASE Clear
  BY <1>3, <1>b DEF Clear, Cleared, EmptyTree
<1>4. CASE Convert
  BY <1>4, <1>b DEF Convert
<1>5. CASE UnpackLogo
  <2>1. tools' = tools /\ tree'.system = tree.system
    BY <1>5 DEF UnpackLogo, TInv, Typed
  <2> QED BY <1>b, <2>1
<1>6. CASE UnpackBoot
  <2>1. tools' = tools /\ tree'.system = tree.system
    BY <1>6 DEF UnpackBoot, TInv, Typed
  <2> QED BY <1>b, <2>1
<1>7. CASE RemoveInitrd \/ Gunzip
  <2>1. tools' = tools /\ tree'.system = tree.system
    BY <1>7 DEF RemoveInitrd, Gunzip, TInv, Typed
  <2> QED BY <1>b, <2>1
<1>8. CASE RemoveRamdisk \/ Gzip
  <2>1. tools' = tools /\ tree'.system = tree.system
    BY <1>8 DEF RemoveRamdisk, WithoutRamdisk, Gzip, TInv, Typed
  <2> QED BY <1>b, <2>1
<1>9. CASE Clean
  <2>1. script \in {"cleanup", "build"} /\ At = 3 /\ tree' = tree /\ tools' = {}
    BY <1>9, CleanPlace DEF TInv, Clean
  <2> QED BY <2>1 DEF Emptied, Doing
<1>10. CASE Compile
  BY <1>10 DEF Compile, Fails, Note
<1>11. ASSUME NEW d \in {"logo", "boot", "stage2", "initrd"}, EditFiles(d)
       PROVE  tools' = Tools \/ (tools' = {} /\ tree'.system = NULL)
  <2>1. tools' = tools /\ tree'.system = tree.system
    BY <1>11 DEF EditFiles, TInv, Typed
  <2> QED BY <1>b, <2>1
<1> QED BY <1>1, <1>2, <1>3, <1>4, <1>5, <1>6, <1>7, <1>8, <1>9, <1>10, <1>11, QuietOrLoud DEF Loud

-----------------------------------------------------------------------------
(* What repack and flash have made, at each of their lines.                *)

\* While repack or flash runs, what it found in the tree when it began is still there,
\* and, by the line it is at, in the file of the system, in the partitions that are
\* made, in the image and on the board.
Packing == script \in {"repack", "flash"} /\ todo # <<>>

\* What a partition may be whatever fails, and what it is when nothing does.
MayBe(x, p) == x \in {NULL, {}} \/ began.parts[p] \subseteq x

Is(x, p) == x # NULL /\ (began.parts[p] \subseteq x \/ (p = "boot" /\ x = {}))

After == [logo |-> 4, system |-> 6, boot |-> 8]

Burnt == [logo |-> 16, boot |-> 17, system |-> 18]

TreeFresh == Packing => \A p \in Parts : began.parts[p] \subseteq InTree(p)

FileFresh == Packing /\ At > 1 => began.parts["system"] \subseteq file[tree.system]

PartFresh ==
  Packing => \A p \in Parts :
    /\ At = After[p] => part[p] = NULL
    /\ At > After[p] => MayBe(part[p], p) /\ (faults = {} => Is(part[p], p))

ImageFresh ==
  /\ Doing("repack", 1 .. 10) => image = began.image
  /\ script = "repack" /\ (At \in 11 .. 12 \/ said) =>
       /\ image # began.image => \A p \in Parts : MayBe(image[p], p)
       /\ faults = {} => \A p \in Parts : Is(image[p], p)

BoardFresh ==
  script = "flash" /\ faults = {} =>
    \A p \in Parts : At \in Burnt[p] .. 19 \/ said => Is(board.part[p], p)

\* What a partition of the board is, whatever fails.
BoardKept ==
  script = "flash" =>
    \A p \in Parts : board.part[p] = began.board[p] \/ (MayBe(board.part[p], p) /\ board.part[p] # NULL)

Burns == Identify \/ Reset \/ Check \/ Load \/ Initial \/ \E p \in Parts : Write(p)

Edits == EditSystem \/ \E d \in {"logo", "boot", "stage2", "initrd"} : EditFiles(d)

\* A step of one of the two scripts, or of the user while it runs or after it.
LEMMA PackingStep ==
  ASSUME TInv, [Next]_vars, script' \in {"repack", "flash"}, ~(\E s \in Scripts : Start(s))
  PROVE  \/ Sync \/ Pack \/ (\E p \in Parts : Remove(p) \/ Make(p)) \/ Burns \/ Done \/ Stop
         \/ Unplug \/ Plug \/ Reboot \/ Edits \/ UNCHANGED vars
<1>1. ~(UmountSystem \/ Mount \/ Clear \/ Extract)
  BY UmountSystemPlace, MountPlace, ClearPlace, ExtractPlace DEF TInv, Moved
<1>2. ~(Convert \/ UnpackLogo \/ UnpackBoot)
  BY ConvertPlace, UnpackLogoPlace, UnpackBootPlace DEF TInv, Moved
<1>3. ~(RemoveInitrd \/ Gunzip \/ RemoveRamdisk \/ Gzip)
  BY RemoveInitrdPlace, GunzipPlace, RemoveRamdiskPlace, GzipPlace DEF TInv, Moved
<1>4. ~(Clean \/ Compile)
  BY CleanPlace, CompilePlace DEF TInv, Moved
<1> QED BY <1>1, <1>2, <1>3, <1>4 DEF Next, Step, Burns, Edits

LEMMA PackingOn ==
  ASSUME TInv, [Next]_vars, script' \in {"repack", "flash"}, ~(\E s \in Scripts : Start(s))
  PROVE  /\ script' = script /\ began' = began /\ faults \subseteq faults'
         /\ Packing' => Packing
<1>1. faults \subseteq faults'
  BY QuietOrLoud, FaultsStay DEF Quiet
<1>2. CASE Sync
  BY <1>1, <1>2 DEF Sync, Next1, Packing
<1>3. CASE Pack
  BY <1>1, <1>3 DEF Pack, Next1, Packing
<1>4. CASE \E p \in Parts : Remove(p) \/ Make(p)
  BY <1>1, <1>4 DEF Remove, Make, Next1, Packing
<1>5. CASE Burns
  BY <1>1, <1>5, BurnFrame DEF Burns, Burning, Packing, TInv
<1>6. CASE Done \/ Stop
  BY <1>1, <1>6 DEF Done, Stop, hist, Packing
<1>7. CASE Unplug \/ Plug \/ Reboot \/ UNCHANGED vars
  BY <1>1, <1>7 DEF Unplug, Plug, Reboot, vars, run, hist, Packing
<1>8. CASE Edits
  BY <1>1, <1>8 DEF Edits, EditSystem, EditFiles, run, Packing
<1> QED BY <1>2, <1>3, <1>4, <1>5, <1>6, <1>7, <1>8, PackingStep

LEMMA InTreeQuiet == ASSUME TInv, Quiet, NEW p \in Parts PROVE InTree(p)' = InTree(p)
<1>1. tree' = tree /\ file' \in {file, Flushed} /\ UNCHANGED <<cache, mounts>>
  BY DEF Quiet
<1>2. tree.system # NULL => Live(tree.system)' = Live(tree.system)
  <2>1. tree.system # NULL => tree.system \in 1 .. Len(file)
    BY DEF TInv, Typed
  <2> QED BY <1>1, <2>1, LiveKept DEF TInv, Mounted
<1> QED BY <1>1, <1>2 DEF InTree, Parts

LEMMA InTreeEdits ==
  ASSUME TInv, Edits, NEW p \in Parts
  PROVE  InTree(p) \subseteq InTree(p)'
<1>1. CASE EditSystem
  <2> DEFINE i == mounts[Len(mounts)]
  <2>1. UNCHANGED <<tree, file, mounts>> /\ cache' = [cache EXCEPT ![i] = cache[i] \cup {marks'}]
    BY <1>1 DEF EditSystem
  <2>2. \A j \in 1 .. Len(file) : cache[j] \subseteq cache'[j]
    BY <2>1 DEF TInv, Typed
  <2>3. tree.system # NULL => Live(tree.system) \subseteq Live(tree.system)'
    BY <2>1, <2>2 DEF Live, Mounted, TInv, Typed
  <2> QED BY <2>1, <2>3 DEF InTree, Parts
<1>2. ASSUME NEW d \in {"logo", "boot", "stage2", "initrd"}, EditFiles(d) PROVE InTree(p) \subseteq InTree(p)'
  <2>1. /\ UNCHANGED <<file, cache, mounts>> /\ tree[d] # NULL
        /\ tree' = [tree EXCEPT ![d] = tree[d] \cup {marks'}]
    BY <1>2 DEF EditFiles
  <2>2. marks' \in Marks
    BY <1>2, MarksStay
  <2>3. tree[d] \in SUBSET Marks /\ tree[d] \cup {marks'} \in SUBSET Marks
    BY <2>1, <2>2 DEF TInv, Typed, Held
  <2>4. Content(tree[d]) = tree[d] /\ Content(tree[d] \cup {marks'}) = tree[d] \cup {marks'}
    BY <2>3, ContentFacts
  <2>5. /\ tree'.system = tree.system /\ tree'.ramdisk = tree.ramdisk
        /\ Content(tree.logo) \subseteq Content(tree'.logo) /\ Content(tree.boot) \subseteq Content(tree'.boot)
    <3>1. tree'[d] = tree[d] \cup {marks'} /\ \A e \in {"system", "logo", "boot", "ramdisk"} \ {d} : tree'[e] = tree[e]
      BY <2>1 DEF TInv, Typed
    <3> QED BY <2>4, <3>1
  <2>6. tree.system # NULL => Live(tree.system)' = Live(tree.system)
    BY <2>1, <2>5 DEF Live, Mounted
  <2> QED BY <2>5, <2>6 DEF InTree, Parts
<1> QED BY <1>1, <1>2 DEF Edits

LEMMA TreeFreshStep == ASSUME TInv, TreeFresh, [Next]_vars PROVE TreeFresh'
<1>1. CASE \E s \in Scripts : Start(s)
  <2>1. PICK s \in Scripts : Start(s)
    BY <1>1
  <2>2. script' = s /\ (s \in {"repack", "flash"} => began'.parts = [p \in Parts |-> InTree(p)])
    BY <2>1 DEF Start
  <2>3. \A p \in Parts : InTree(p)' = InTree(p)
    BY <2>1, QuietStart, InTreeQuiet
  <2> QED BY <2>2, <2>3 DEF TreeFresh, Packing
<1>2. CASE ~(\E s \in Scripts : Start(s)) /\ script' \in {"repack", "flash"}
  <2>1. began' = began /\ (Packing' => Packing)
    BY <1>2, PackingOn
  <2>2. CASE Quiet
    BY <2>1, <2>2, InTreeQuiet DEF TreeFresh
  <2>3. CASE Edits
    BY <2>1, <2>3, InTreeEdits DEF TreeFresh
  <2>4. CASE Reboot
    BY <2>4 DEF Reboot, run, TreeFresh, Packing
  <2> QED BY <1>2, <2>2, <2>3, <2>4, PackingStep, QuietSync, QuietMaking, QuietBurning, QuietEnds,
             QuietStill DEF Burns
<1>3. CASE script' \notin {"repack", "flash"}
  BY <1>3 DEF TreeFresh, Packing
<1> QED BY <1>1, <1>2, <1>3

LEMMA FileFreshStep == ASSUME TInv, TreeFresh, FileFresh, [Next]_vars PROVE FileFresh'
<1>1. CASE \E s \in Scripts : Start(s)
  <2>1. At' = 1
    BY <1>1, StartPlace, ScriptsAssumption DEF Start
  <2> QED BY <2>1 DEF FileFresh
<1>2. CASE ~(\E s \in Scripts : Start(s)) /\ script' \in {"repack", "flash"}
  <2>1. script' = script /\ began' = began /\ (Packing' => Packing)
    BY <1>2, PackingOn
  <2>2. CASE Sync
    <3>1. file' = Flushed /\ tree' = tree
      BY <2>2 DEF Sync
    <3>2. ASSUME Packing PROVE began.parts["system"] \subseteq Flushed[tree.system]
      <4>1. tree.system # NULL /\ tree.system \in 1 .. Len(file)
        BY <3>2 DEF TInv, Typed, Standing, Packing
      <4>2. Flushed[tree.system] = InTree("system")
        BY <4>1, FlushedFacts DEF InTree, Live, TInv
      <4> QED BY <3>2, <4>2 DEF TreeFresh, Parts
    <3> QED BY <2>1, <3>1, <3>2 DEF FileFresh
  <2>3. CASE Pack \/ Burns \/ \E p \in Parts : Remove(p) \/ Make(p)
    <3>1. At > 1
      <4>1. Pack => At > 1
        BY PackPlace DEF TInv
      <4>2. Burns => At > 1
        BY BurnFrame DEF Burns, Burning, TInv
      <4>3. ASSUME NEW p \in Parts, Remove(p) \/ Make(p) PROVE At > 1
        BY <1>2, <2>1, <4>3, RemovePlace, MakePlace DEF TInv
      <4> QED BY <2>3, <4>1, <4>2, <4>3
    <3>2. UNCHANGED <<file, tree>>
      BY <2>3, BurnFrame DEF Pack, Remove, Make, Burns, tk, TInv
    <3> QED BY <2>1, <3>1, <3>2 DEF FileFresh
  <2>4. CASE Done \/ Stop \/ Reboot
    BY <2>4 DEF Done, Stop, Reboot, run, FileFresh, Packing
  <2>5. CASE Unplug \/ Plug \/ EditSystem \/ UNCHANGED vars
    <3>1. At' = At /\ UNCHANGED <<file, tree>>
      BY <2>5, Still DEF TInv, Unplug, Plug, EditSystem, vars, run, tk
    <3> QED BY <2>1, <3>1 DEF FileFresh
  <2>6. ASSUME NEW d \in {"logo", "boot", "stage2", "initrd"}, EditFiles(d) PROVE FileFresh'
    <3>1. At' = At /\ file' = file
      BY <2>6, Still DEF TInv, EditFiles, run
    <3>2. tree'.system = tree.system
      BY <2>6 DEF TInv, Typed, EditFiles
    <3> QED BY <2>1, <3>1, <3>2 DEF FileFresh
  <2> QED BY <1>2, <2>2, <2>3, <2>4, <2>5, <2>6, PackingStep DEF Edits
<1>3. CASE script' \notin {"repack", "flash"}
  BY <1>3 DEF FileFresh, Packing
<1> QED BY <1>1, <1>2, <1>3

LEMMA AfterFacts ==
  /\ After["logo"] = 4 /\ After["system"] = 6 /\ After["boot"] = 8
  /\ \A p \in Parts : After[p] \in {4, 6, 8}
  /\ Burnt["logo"] = 16 /\ Burnt["boot"] = 17 /\ Burnt["system"] = 18
  /\ \A p \in Parts : Burnt[p] \in {16, 17, 18}
BY DEF After, Burnt, Parts

\* What the program that makes a partition makes.
LEMMA MakeFresh ==
  ASSUME TInv, TreeFresh, FileFresh, PartFresh, Equipped, NEW p \in Parts, Make(p),
         script \in {"repack", "flash"}
  PROVE  MayBe(part'[p], p) /\ (faults' = {} => Is(part'[p], p)) /\ At = After[p]
<1>1. Moved /\ <<At, p>> \in {<<4, "logo">>, <<6, "system">>, <<8, "boot">>}
  BY MakePlace DEF TInv
<1>2. At = After[p] /\ At > 1 /\ Packing
  BY <1>1, AfterFacts DEF Packing, Moved
<1>3. part[p] = NULL /\ part \in [Parts -> Held]
  BY <1>2 DEF PartFresh, TInv, Typed
<1>4. began.parts[p] \subseteq InTree(p)
  BY <1>2 DEF TreeFresh
<1>5. began.parts[p] \subseteq Input(p) /\ Input(p) # NULL
  <2>1. CASE p = "system"
    <3>1. file[tree.system] \in SUBSET Marks
      <4>1. tree.system \in 1 .. Len(file) /\ file \in Seq(SUBSET Marks)
        BY <1>2 DEF TInv, Typed, Standing, Packing
      <4> QED BY <4>1, ElementOfSeq
    <3>2. Input(p) = file[tree.system]
      BY <2>1 DEF Input
    <3> QED BY <1>2, <2>1, <3>1, <3>2, HeldFacts DEF FileFresh
  <2>2. CASE p # "system"
    <3>1. Input(p) = InTree(p)
      BY <2>2 DEF Input
    <3>2. InTree(p) # NULL
      BY InTreeType, HeldFacts DEF TInv
    <3> QED BY <1>4, <3>1, <3>2
  <2> QED BY <2>1, <2>2
<1>6. {} # NULL
  BY HeldFacts
<1>7. CASE ~HasMaker(p) /\ Works /\ UNCHANGED part
  <2>1. faults' # {}
    <3>1. tree.system # NULL
      BY <1>2 DEF TInv, Standing, Packing
    <3>2. tools # Tools
      BY <1>7 DEF HasMaker, Maker, Tools
    <3> QED BY <1>7, <3>1, <3>2 DEF Equipped, Works
  <2> QED BY <1>2, <1>3, <1>7, <2>1 DEF MayBe
<1>8. CASE Works /\ part' = [part EXCEPT ![p] = IF CanMake(p) THEN Input(p) ELSE {}]
  <2>1. part'[p] = IF CanMake(p) THEN Input(p) ELSE {}
    BY <1>3, <1>8
  <2>2. CASE CanMake(p)
    BY <1>2, <1>5, <2>1, <2>2 DEF MayBe, Is
  <2>3. CASE ~CanMake(p)
    <3>1. part'[p] = {}
      BY <2>1, <2>3
    <3>2. p = "boot" \/ began.parts[p] \subseteq {}
      <4>1. p # "system"
        BY <2>3 DEF CanMake
      <4>2. p = "logo" => InTree(p) = {}
        BY <2>3 DEF CanMake, InTree
      <4> QED BY <1>4, <4>1, <4>2 DEF Parts
    <3> QED BY <1>2, <1>6, <3>1, <3>2 DEF MayBe, Is
  <2> QED BY <2>2, <2>3
<1>9. CASE Fails("make") /\ \E left \in {part[p], {}} : part' = [part EXCEPT ![p] = left]
  <2>1. part'[p] \in {NULL, {}}
    BY <1>3, <1>9
  <2>2. faults' # {}
    BY <1>9 DEF Fails, Note
  <2> QED BY <1>2, <2>1, <2>2 DEF MayBe
<1> QED BY <1>7, <1>8, <1>9 DEF Make

LEMMA PartFreshStep ==
  ASSUME TInv, TreeFresh, FileFresh, Equipped, PartFresh, [Next]_vars
  PROVE  PartFresh'
<1>1. CASE \E s \in Scripts : Start(s)
  <2>1. At' = 1
    BY <1>1, StartPlace, ScriptsAssumption DEF Start
  <2> QED BY <2>1, AfterFacts DEF PartFresh
<1>2. CASE ~(\E s \in Scripts : Start(s)) /\ script' \in {"repack", "flash"}
  <2>1. /\ script' = script /\ began' = began /\ (Packing' => Packing)
        /\ faults' = {} => faults = {}
    BY <1>2, PackingOn
  <2>2. At \in Int
    <3>1. script \in {"repack", "flash"} => script # "none"
      OBVIOUS
    <3> QED BY <1>2, <2>1, <3>1, WhereFacts DEF TInv
\* What a step that makes no partition has to show.
  <2>3. ASSUME part' = part, \A p \in Parts : At' = After[p] => At = After[p],
               \A p \in Parts : At' > After[p] => At > After[p]
        PROVE  PartFresh'
    BY <2>1, <2>3 DEF PartFresh, MayBe, Is
  <2>4. CASE Sync
    <3>1. At \in {1, 2, 9, 11, 18} /\ At' = At + 1 /\ part' = part
      BY <1>2, <2>1, <2>4, SyncPlace DEF TInv, Moved, Sync
    <3> QED BY <2>3, <3>1, AfterFacts
  <2>5. CASE Pack
    <3>1. At = 10 /\ At' = 11 /\ part' = part
      BY <2>5, PackPlace DEF TInv, Moved, Pack, tk
    <3> QED BY <2>3, <3>1, AfterFacts
  <2>6. CASE Burns
    <3>1. At \in 10 .. 17 /\ At' \in {At + 1, 18} /\ part' = part
      BY <2>6, BurnFrame DEF Burns, Burning, TInv, tk
    <3> QED BY <2>3, <3>1, AfterFacts
  <2>7. ASSUME NEW q \in Parts, Remove(q) PROVE PartFresh'
    <3>1. At' = At + 1 /\ <<At, q>> \in {<<3, "logo">>, <<5, "system">>, <<7, "boot">>}
      BY <1>2, <2>1, <2>7, RemovePlace DEF TInv, Moved
    <3>2. part'[q] = NULL /\ \A p \in Parts \ {q} : part'[p] = part[p]
      BY <2>7 DEF Remove, TInv, Typed
    <3>3. At' = After[q]
      BY <3>1, AfterFacts
    <3>4. \A p \in Parts : At # After[p]
      BY <3>1, AfterFacts
    <3>5. \A p \in Parts : At' = After[p] => p = q
      BY <3>1, <3>3, AfterFacts DEF Parts
    <3>6. \A p \in Parts : At' > After[p] => At > After[p]
      BY <3>1, <3>4, AfterFacts
    <3>7. ~(At' > After[q])
      BY <2>2, <3>1, <3>3
    <3>8. ASSUME NEW p \in Parts, Packing', At' > After[p]
          PROVE  MayBe(part[p], p)' /\ (faults' = {} => Is(part[p], p)')
      <4>1. p # q /\ Packing /\ At > After[p]
        BY <2>1, <3>6, <3>7, <3>8
      <4>2. MayBe(part[p], p) /\ (faults = {} => Is(part[p], p)) /\ part'[p] = part[p]
        BY <3>2, <4>1 DEF PartFresh
      <4> QED BY <2>1, <4>2 DEF MayBe, Is
    <3> QED BY <3>2, <3>5, <3>8 DEF PartFresh
  <2>8. ASSUME NEW q \in Parts, Make(q) PROVE PartFresh'
    <3>1. At' = At + 1 /\ At = After[q] /\ MayBe(part'[q], q) /\ (faults' = {} => Is(part'[q], q))
      BY <1>2, <2>1, <2>8, MakePlace, MakeFresh DEF TInv, Moved
    <3>2. \A p \in Parts \ {q} : part'[p] = part[p]
      <4>1. part \in [Parts -> Held]
        BY DEF TInv, Typed
      <4>2. UNCHANGED part \/ \E x : part' = [part EXCEPT ![q] = x]
        BY <2>8 DEF Make
      <4> QED BY <4>1, <4>2
    <3>3. \A p \in Parts : At' # After[p]
      BY <3>1, AfterFacts
    <3>4. \A p \in Parts \ {q} : At' > After[p] => At > After[p]
      BY <3>1, AfterFacts DEF Parts
    <3>5. ASSUME NEW p \in Parts, Packing', At' > After[p]
          PROVE  MayBe(part[p], p)' /\ (faults' = {} => Is(part[p], p)')
      <4>1. CASE p = q
        BY <2>1, <3>1, <4>1 DEF MayBe, Is
      <4>2. CASE p # q
        <5>1. Packing /\ At > After[p] /\ part'[p] = part[p]
          BY <2>1, <3>2, <3>4, <3>5, <4>2
        <5>2. MayBe(part[p], p) /\ (faults = {} => Is(part[p], p))
          BY <5>1 DEF PartFresh
        <5> QED BY <2>1, <5>1, <5>2 DEF MayBe, Is
      <4> QED BY <4>1, <4>2
    <3> QED BY <3>3, <3>5 DEF PartFresh
  <2>9. CASE Done \/ Stop \/ Reboot
    BY <2>9 DEF Done, Stop, Reboot, run, PartFresh, Packing
  <2>10. CASE Unplug \/ Plug \/ Edits \/ UNCHANGED vars
    <3>1. At' = At /\ part' = part
      BY <2>10, Still DEF TInv, Unplug, Plug, Edits, EditSystem, EditFiles, vars, run, tk
    <3> QED BY <2>3, <3>1
  <2> QED BY <1>2, <2>4, <2>5, <2>6, <2>7, <2>8, <2>9, <2>10, PackingStep
<1>3. CASE script' \notin {"repack", "flash"}
  BY <1>3 DEF PartFresh, Packing
<1> QED BY <1>1, <1>2, <1>3

LEMMA ImageFreshStep == ASSUME TInv, PartFresh, ImageFresh, [Next]_vars PROVE ImageFresh'
<1>1. CASE \E s \in Scripts : Start(s)
  <2>1. PICK s \in Scripts : Start(s)
    BY <1>1
  <2>2. At' = 1 /\ script' = s /\ said' = FALSE /\ image' = image
    BY <2>1, StartPlace, ScriptsAssumption DEF Start, dev
  <2>3. s = "repack" => began'.image = image
    BY <2>1 DEF Start
  <2> QED BY <2>2, <2>3 DEF ImageFresh, Doing
<1>2. CASE ~(\E s \in Scripts : Start(s)) /\ script' = "repack"
  <2>1. /\ script = "repack" /\ script' = "repack" /\ began' = began /\ (Packing' => Packing)
        /\ faults' = {} => faults = {}
    BY <1>2, PackingOn
  <2>2. At \in 1 .. 13 /\ (todo = <<>> <=> At = 13)
    <3>1. script # "none" /\ Length["repack"] = 12
      BY <2>1 DEF Length
    <3> QED BY <2>1, <3>1, WhereFacts DEF TInv
\* What a step that packs nothing has to show.
  <2>3. ASSUME image' = image, At' \in 1 .. 10 => At \in 1 .. 10,
               At' \in 11 .. 12 \/ said' => At \in 11 .. 12 \/ said
        PROVE  ImageFresh'
    BY <2>1, <2>3 DEF ImageFresh, Doing, MayBe, Is
  <2>4. CASE Sync \/ \E p \in Parts : Remove(p) \/ Make(p)
    <3>1. /\ At' = At + 1 /\ said' = said /\ image' = image /\ At # 10
      <4>1. Sync => At' = At + 1 /\ said' = said /\ image' = image /\ At # 10
        BY <2>1, SyncPlace DEF TInv, Moved, Sync, dev
      <4>2. ASSUME NEW p \in Parts, Remove(p) \/ Make(p)
            PROVE  At' = At + 1 /\ said' = said /\ image' = image /\ At # 10
        BY <2>1, <4>2, RemovePlace, MakePlace DEF TInv, Moved, Remove, Make, dev
      <4> QED BY <2>4, <4>1, <4>2
    <3> QED BY <2>2, <2>3, <3>1
  <2>5. CASE Pack
    <3>1. At = 10 /\ At' = 11 /\ said' = said /\ Packing
      BY <2>5, PackPlace DEF TInv, Moved, Packing
    <3>2. image = began.image
      BY <2>1, <3>1 DEF ImageFresh, Doing
    <3>3. \A p \in Parts : MayBe(part[p], p) /\ (faults = {} => Is(part[p], p))
      BY <3>1, AfterFacts DEF PartFresh
    <3>4. CASE Works /\ image' = IF \E p \in Parts : part[p] = NULL THEN image ELSE part
      <4>1. CASE \E p \in Parts : part[p] = NULL
        <5>1. image' = began'.image /\ faults' # {}
          BY <2>1, <3>2, <3>3, <3>4, <4>1 DEF Is, Works
        <5> QED BY <3>1, <5>1 DEF ImageFresh, Doing
      <4>2. CASE ~\E p \in Parts : part[p] = NULL
        <5>1. \A p \in Parts : MayBe(image'[p], p) /\ (faults = {} => Is(image'[p], p))
          BY <3>3, <3>4, <4>2
        <5> QED BY <2>1, <3>1, <5>1 DEF ImageFresh, Doing, MayBe, Is
      <4> QED BY <4>1, <4>2
    <3>5. CASE Fails("pack") /\ \E left \in {image, NoParts} : image' = left
      <4>1. faults' # {}
        BY <3>5 DEF Fails, Note
      <4>2. image' # began'.image => \A p \in Parts : image'[p] = NULL
        BY <2>1, <3>2, <3>5 DEF NoParts
      <4> QED BY <3>1, <4>1, <4>2 DEF ImageFresh, Doing, MayBe
    <3> QED BY <2>5, <3>4, <3>5 DEF Pack
  <2>6. CASE Burns
    BY <2>1, <2>6, BurnFrame DEF Burns, Burning, TInv
  <2>7. CASE Done
    <3>1. At = 12 /\ At' = 13 /\ image' = image
      <4>1. Length["repack"] = 12
        BY DEF Length
      <4> QED BY <2>1, <2>7, <4>1, DonePlace DEF TInv, Done, dev
    <3> QED BY <2>3, <3>1
  <2>8. CASE Stop
    <3>1. At' = 13 /\ image' = image /\ said' = said
      <4>1. Length["repack"] = 12
        BY DEF Length
      <4> QED BY <2>1, <2>8, <4>1, EndPlace DEF TInv, Stop, dev
    <3> QED BY <2>3, <3>1
  <2>9. CASE Unplug \/ Plug \/ Reboot \/ Edits \/ UNCHANGED vars
    <3>1. At' = At /\ image' = image /\ said' = said
      BY <2>9, Still DEF TInv, Unplug, Plug, Reboot, Edits, EditSystem, EditFiles, vars, run, dev
    <3> QED BY <2>3, <3>1
  <2> QED BY <1>2, <2>4, <2>5, <2>6, <2>7, <2>8, <2>9, PackingStep
<1>3. CASE script' # "repack"
  BY <1>3 DEF ImageFresh, Doing
<1> QED BY <1>1, <1>2, <1>3

\* What a command of aml-flash does to the board when nothing fails.
LEMMA BurnFresh ==
  ASSUME TInv, PartFresh, BoardFresh, Burns, began' = began
  PROVE  BoardFresh'
<1>1. Burning
  BY BurnFrame DEF Burns, TInv
<1>2. script = "flash" /\ script' = "flash" /\ At \in 10 .. 17 /\ said' = FALSE /\ Packing
  BY <1>1 DEF Burning, Packing, TInv, Standing, Typed
<1> SUFFICES ASSUME faults' = {}, NEW p \in Parts, At' \in Burnt[p] .. 19
             PROVE  Is(board.part[p], p)'
  BY <1>2 DEF BoardFresh
<1>3. faults = {}
  BY BurnFrame DEF Burns, TInv
<1>4. At \in Burnt[p] .. 19 => Is(board.part[p], p)
  BY <1>2, <1>3 DEF BoardFresh
\* No command has failed.
<1>5. ~Note("burn")
  BY DEF Note
<1>6. CASE Identify \/ Reset \/ Check \/ Load \/ Initial
  <2>1. At \in 10 .. 14 /\ At' = At + 1
    <3>1. PICK c : /\ todo # <<>> /\ Head(todo) = c /\ Next1(c)
                   /\ c[1] \in {"identify", "reset", "check", "load", "initial"}
      <4>1. Identify => Next1(<<"identify">>)
        BY <1>5 DEF Identify, CheckLock
      <4>5. Check => Next1(<<"check">>)
        BY <1>5 DEF Check, CheckLock
      <4>2. Reset => Next1(<<"reset">>)
        BY <1>5 DEF Reset, Command
      <4>3. Load => Next1(<<"load">>)
        BY <1>5 DEF Load, Command
      <4>4. Initial => Next1(<<"initial">>)
        BY <1>5 DEF Initial, Command
      <4> QED BY <1>6, <4>1, <4>2, <4>3, <4>4, <4>5 DEF Next1
    <3>2. /\ Next1(c) => At' = At + 1
          /\ <<At, c[1]>> \in BurnPages
      BY <3>1, BurnPlace DEF TInv
    <3> QED BY <3>1, <3>2 DEF BurnPages
  <2> QED BY <2>1, AfterFacts
<1>7. ASSUME NEW q \in Parts, Write(q) PROVE Is(board.part[p], p)'
  <2>1. /\ part[q] # NULL /\ Next1(<<"write", q>>) /\ todo # <<>> /\ Head(todo) = <<"write", q>>
        /\ board' = [board EXCEPT !.part[q] = part[q]]
    BY <1>5, <1>7 DEF Write, Command
  <2>2. At' = At + 1 /\ Lines(script)[At] = <<"write", q>> /\ At \in {15, 16, 17}
    <3> DEFINE c == <<"write", q>>
    <3>1. c[1] = "write"
      OBVIOUS
    <3>2. Next1(c) /\ todo # <<>> /\ Head(todo) = c
      BY <2>1
    <3> HIDE DEF c
    <3>3. /\ At' = At + 1 /\ Lines(script)[At] = c
          /\ <<At, c[1]>> \in BurnPages
      BY <3>1, <3>2, BurnPlace DEF TInv
    <3>4. At \in {15, 16, 17}
      BY <3>1, <3>3 DEF BurnPages
    <3> QED BY <3>3, <3>4 DEF c
  <2>3. At + 1 = Burnt[q]
    <3>1. Lines(script)[At][2] = q
      BY <2>2
    <3>2. <<At, q>> \in {<<15, "logo">>, <<16, "boot">>, <<17, "system">>}
      BY <1>2, <2>2, <3>1, BurnLines
    <3> QED BY <3>2, AfterFacts
  <2>4. Is(part[q], q)
    BY <1>2, <1>3, AfterFacts DEF PartFresh
  <2>5. board'.part[q] = part[q] /\ \A r \in Parts \ {q} : board'.part[r] = board.part[r]
    BY <2>1 DEF TInv, Typed, BoardStates
  <2>6. CASE p = q
    BY <2>4, <2>5, <2>6 DEF Is
  <2>7. CASE p # q
    <3>1. At \in Burnt[p] .. 19
      BY <1>2, <2>2, <2>3, <2>7, AfterFacts DEF Parts
    <3> QED BY <1>4, <2>5, <2>7, <3>1 DEF Is
  <2> QED BY <2>6, <2>7
<1> QED BY <1>6, <1>7 DEF Burns

LEMMA BoardFreshStep == ASSUME TInv, PartFresh, BoardFresh, [Next]_vars PROVE BoardFresh'
<1>1. CASE \E s \in Scripts : Start(s)
  <2>1. At' = 1 /\ said' = FALSE
    BY <1>1, StartPlace, ScriptsAssumption DEF Start
  <2> QED BY <2>1, AfterFacts DEF BoardFresh
<1>2. CASE ~(\E s \in Scripts : Start(s)) /\ script' = "flash"
  <2>1. /\ script = "flash" /\ script' = "flash" /\ began' = began /\ (Packing' => Packing)
        /\ faults' = {} => faults = {}
    BY <1>2, PackingOn
  <2>2. At \in 1 .. 20 /\ (todo = <<>> <=> At = 20)
    <3>1. script # "none" /\ Length["flash"] = 19
      BY <2>1 DEF Length
    <3> QED BY <2>1, <3>1, WhereFacts DEF TInv
\* What a step that writes no partition has to show.
  <2>3. ASSUME \A p \in Parts : board'.part[p] = board.part[p],
               \A p \in Parts : At' \in Burnt[p] .. 19 \/ said' => At \in Burnt[p] .. 19 \/ said
        PROVE  BoardFresh'
    BY <2>1, <2>3 DEF BoardFresh, Is
  <2>4. CASE Sync \/ Pack \/ \E p \in Parts : Remove(p) \/ Make(p)
    <3>1. /\ At' = At + 1 /\ said' = said /\ board' = board /\ (At = 18 \/ At =< 11)
      <4>1. Sync => At' = At + 1 /\ said' = said /\ board' = board /\ (At = 18 \/ At =< 11)
        BY <2>1, SyncPlace DEF TInv, Moved, Sync, dev
      <4>2. ASSUME NEW p \in Parts, Remove(p) \/ Make(p)
            PROVE  At' = At + 1 /\ said' = said /\ board' = board /\ (At = 18 \/ At =< 11)
        BY <2>1, <4>2, RemovePlace, MakePlace DEF TInv, Moved, Remove, Make, dev
      <4>3. ~Pack
        BY <2>1, PackPlace DEF TInv
      <4> QED BY <2>4, <4>1, <4>2, <4>3
    <3> QED BY <2>2, <2>3, <3>1, AfterFacts
  <2>5. CASE Burns
    BY <2>1, <2>5, BurnFresh DEF Burns
  <2>6. CASE Done
    <3>1. At = 19 /\ board' = board
      <4>1. Length["flash"] = 19
        BY DEF Length
      <4> QED BY <2>1, <2>6, <4>1, DonePlace DEF TInv, Done, dev
    <3> QED BY <2>3, <3>1, AfterFacts
  <2>7. CASE Stop
    <3>1. At' = 20 /\ board' = board /\ said' = said
      <4>1. Length["flash"] = 19
        BY DEF Length
      <4> QED BY <2>1, <2>7, <4>1, EndPlace DEF TInv, Stop, dev
    <3> QED BY <2>3, <3>1, AfterFacts
  <2>8. CASE Plug
    <3>1. At' = At /\ said' = said /\ board' \in {board, [board EXCEPT !.mode = "rom"]}
      BY <2>8, Still DEF TInv, Plug, run
    <3>2. board'.part = board.part
      BY <3>1 DEF TInv, Typed, BoardStates
    <3> QED BY <2>3, <3>1, <3>2
  <2>9. CASE Unplug \/ Reboot \/ Edits \/ UNCHANGED vars
    <3>1. At' = At /\ board' = board /\ said' = said
      BY <2>9, Still DEF TInv, Unplug, Reboot, Edits, EditSystem, EditFiles, vars, run, dev
    <3> QED BY <2>3, <3>1
  <2> QED BY <1>2, <2>4, <2>5, <2>6, <2>7, <2>8, <2>9, PackingStep
<1>3. CASE script' # "flash"
  BY <1>3 DEF BoardFresh
<1> QED BY <1>1, <1>2, <1>3

LEMMA BoardKeptStep == ASSUME TInv, PartFresh, BoardKept, [Next]_vars PROVE BoardKept'
<1>1. CASE \E s \in Scripts : Start(s)
  <2>1. PICK s \in Scripts : Start(s)
    BY <1>1
  <2>2. script' = s /\ board' = board /\ (s = "flash" => began'.board = board.part)
    BY <2>1 DEF Start, dev
  <2> QED BY <2>2 DEF BoardKept
<1>2. CASE ~(\E s \in Scripts : Start(s)) /\ script' = "flash"
  <2>1. script = "flash" /\ script' = "flash" /\ began' = began
    BY <1>2, PackingOn
\* What a step that writes no partition has to show.
  <2>2. ASSUME \A p \in Parts : board'.part[p] = board.part[p] \/ board'.part[p] = {}
        PROVE  BoardKept'
    BY <2>1, <2>2, HeldFacts DEF BoardKept, MayBe
  <2>3. CASE Sync \/ Pack \/ (\E p \in Parts : Remove(p) \/ Make(p)) \/ Done \/ Stop
    BY <2>2, <2>3 DEF Sync, Pack, Remove, Make, Done, Stop, dev
  <2>4. CASE Identify \/ Check
    BY <2>2, <2>4 DEF Identify, Check, CheckLock, dev
  <2>5. CASE Reset \/ Load
    <3>1. \/ board' \in {board, [board EXCEPT !.mode = "rom"], [board EXCEPT !.mode = "uboot"]}
      BY <2>5 DEF Reset, Load, Command, dev
    <3>2. board'.part = board.part
      BY <3>1 DEF TInv, Typed, BoardStates
    <3> QED BY <2>2, <3>2
  <2>6. CASE Initial
    <3>1. board' = board \/ board' = [board EXCEPT !.part = Nothing]
      BY <2>6 DEF Initial, Command
    <3>2. board'.part = board.part \/ board'.part = Nothing
      BY <3>1 DEF TInv, Typed, BoardStates
    <3> QED BY <2>2, <3>2 DEF Nothing
  <2>7. ASSUME NEW q \in Parts, Write(q) PROVE BoardKept'
    <3>1. CASE board' = board
      BY <2>2, <3>1
    <3>2. CASE board' = [board EXCEPT !.part[q] = part[q]] /\ part[q] # NULL
      <4>1. At \in 10 .. 17 /\ Packing
        BY <2>7, BurnFrame DEF TInv, Burning, Packing
      <4>2. MayBe(part[q], q)
        BY <4>1, AfterFacts DEF PartFresh
      <4>3. board'.part[q] = part[q] /\ \A r \in Parts \ {q} : board'.part[r] = board.part[r]
        BY <3>2 DEF TInv, Typed, BoardStates
      <4> QED BY <2>1, <3>2, <4>2, <4>3 DEF BoardKept, MayBe
    <3> QED BY <2>7, <3>1, <3>2 DEF Write, Command, dev
  <2>8. CASE Plug
    <3>1. board' \in {board, [board EXCEPT !.mode = "rom"]}
      BY <2>8 DEF Plug
    <3>2. board'.part = board.part
      BY <3>1 DEF TInv, Typed, BoardStates
    <3> QED BY <2>2, <3>2
  <2>9. CASE Unplug \/ Reboot \/ Edits \/ UNCHANGED vars
    BY <2>2, <2>9 DEF Unplug, Reboot, Edits, EditSystem, EditFiles, vars, dev
  <2> QED BY <1>2, <2>3, <2>4, <2>5, <2>6, <2>7, <2>8, <2>9, PackingStep DEF Burns
<1>3. CASE script' # "flash"
  BY <1>3 DEF BoardKept
<1> QED BY <1>1, <1>2, <1>3

Fresh ==
  /\ Equipped /\ TreeFresh /\ FileFresh /\ PartFresh
  /\ ImageFresh /\ BoardFresh /\ BoardKept

LEMMA FreshAlways == Spec => []Fresh
<1>1. Init => Fresh
  <2> SUFFICES ASSUME Init PROVE Fresh
    OBVIOUS
  <2>1. tools = Tools /\ script = "none"
    BY DEF Init
  <2> QED BY <2>1 DEF Fresh, Equipped, TreeFresh, FileFresh, PartFresh, ImageFresh, BoardFresh,
                      BoardKept, Packing, Doing
<1>2. TInv /\ Carried /\ Fresh /\ [Next]_vars => Fresh'
  BY EquippedStep, TreeFreshStep, FileFreshStep, PartFreshStep, ImageFreshStep, BoardFreshStep,
     BoardKeptStep DEF Fresh, Carried
<1> QED BY <1>1, <1>2, TypedAlways, CarriedAlways, PTL DEF Spec

\* A repack or a flash that says "Done" has packed or flashed every edit that was there
\* when it began, but for those of a second stage, of which recreate makes nothing.  If
\* a command has failed, or the board has not answered, an image that is packed and a
\* board that is written have partitions that are broken or missing, the board those it
\* had, but no stale one of the tree: each is removed before it is made.
THEOREM NothingStale == Spec => []Packed
<1>1. Fresh => Packed
  <2> SUFFICES ASSUME Fresh, said PROVE Packed
    BY DEF Packed
  <2>1. script = "repack" /\ image # began.image => \A p \in Parts : MayBe(image[p], p)
    BY DEF Fresh, ImageFresh
  <2>2. script = "repack" /\ faults = {} => \A p \in Parts : Is(image[p], p)
    BY DEF Fresh, ImageFresh
  <2>3. script = "flash" /\ faults = {} => \A p \in Parts : Is(board.part[p], p)
    BY DEF Fresh, BoardFresh
  <2>4. script = "flash" =>
          \A p \in Parts : board.part[p] = began.board[p] \/ (MayBe(board.part[p], p) /\ board.part[p] # NULL)
    BY DEF Fresh, BoardKept
  <2> QED BY <2>1, <2>2, <2>3, <2>4 DEF Packed, MayBe, Is
<1> QED BY <1>1, FreshAlways, PTL
=============================================================================
