------------------------------ MODULE Toolkit ------------------------------
(***************************************************************************)
(* The scripts of bin/ on the tree under output/, with a board to flash.   *)
(* A script is the list of its commands.  None looks at the exit status of *)
(* the one before; any may fail, and the user may stop the script, edit    *)
(* files while it runs, and unplug the board.                              *)
(*                                                                         *)
(* What a file or a directory holds is the set of the marks of the unpack  *)
(* and the edits that made it: empty is broken, NULL is absent.            *)
(***************************************************************************)
EXTENDS Integers, Sequences, FiniteSets

CONSTANTS
  Scripts,                   \* the scripts that the user runs
  Unpacked,                  \* has an image been unpacked, to begin with?
  Boards,                    \* the boards: in which mode, and in which modes locked
  MaxMarks,                  \* bound: unpacks and edits
  MaxScripts,                \* bound: scripts that are run
  MaxFaults,                 \* bound: commands that fail
  NULL

ASSUME ToolkitAssumption ==
  /\ Unpacked \in BOOLEAN /\ {MaxMarks, MaxScripts, MaxFaults} \subseteq Nat
  /\ Boards \subseteq [mode : {"rom", "uboot"}, locked : SUBSET {"rom", "uboot"}]

\* An unpack that has begun may make one mark more.  An image unpacked as m has m
\* all over, but for a second stage behind its kernel, if it has one, which has -m.
Made == 1 .. MaxMarks + 1

Marks == Made \cup {-m : m \in Made}

ASSUME NullIsNothing == NULL \notin Nat /\ \A m \in SUBSET Marks : NULL # m

Parts == {"system", "logo", "boot"}         \* the partitions recreate makes
Tools == {"simg2img", "img2simg", "abootimg"}

VARIABLES
  tools,                     \* the programs that build has put in bin/
  tree,                      \* output/: system (the inode of image/system.img), logo,
                             \* boot (config and kernel), ramdisk and stage2 (in boot), initrd
  fits,                      \* does bootimg.cfg leave the ramdisk its room?
  part,                      \* output/image/*.PARTITION
  file,                      \* the inodes: what each system.img holds
  cache,                     \* ... and what its file system shows when it is mounted
  mounts,                    \* the inodes mounted on output/system, the top last
  script, todo, said,        \* the last script, its commands to come; said it "Done"?
  image,                     \* the last image that was packed
  plugged, board,            \* the board: its mode, lock and partitions
  marks, scripts,            \* counters
  faults,                    \* the commands that failed
  began, made, half          \* history: what repack or flash has found, the edits that
                             \* should be in the tree, and what extract_initrd and
                             \* recreate_initrd have removed and not made
tk   == <<tools, tree, fits, part, file, cache, mounts>>
run  == <<script, todo, said, scripts>>
dev  == <<image, plugged, board>>
hist == <<marks, faults, began, made, half>>
vars == <<tk, run, dev, hist>>

EmptyTree == [system |-> NULL, logo |-> NULL, boot |-> NULL, ramdisk |-> NULL,
              stage2 |-> NULL, initrd |-> NULL]

NoParts == [p \in Parts |-> NULL]

Nothing == [p \in Parts |-> {}]

Mounted(i) == \E k \in DOMAIN mounts : mounts[k] = i

\* What a user finds in a system image.
Live(i) == IF Mounted(i) THEN cache[i] ELSE file[i]

NotBegun == [parts |-> Nothing, image |-> NoParts, board |-> NoParts]

Content(x) == IF x = NULL THEN {} ELSE x

\* The files recreate makes a partition of: of boot, no second stage.
InTree(p) ==
  CASE p = "system" -> IF tree.system = NULL THEN {} ELSE Live(tree.system)
    [] p = "logo"   -> Content(tree.logo)
    [] p = "boot"   -> Content(tree.boot) \cup Content(tree.ramdisk)

\* removed: those that extract_initrd has removed and that were in no ramdisk.
NoEdits == [p \in {"system", "logo", "boot", "stage2", "initrd", "removed"} |-> {}]

\* What abootimg -x makes of a boot image, with and without a second stage.
FirstOf(marks_) == {m \in marks_ : m > 0}

SecondOf(marks_) == IF \E m \in marks_ : m < 0 THEN {m \in marks_ : m < 0} ELSE NULL

NewBoot(m) == {{m}, {m, -m}}

\* bin/build has run, and perhaps bin/unpack.
Init ==
  /\ script = "none" /\ todo = <<>> /\ said = FALSE /\ scripts = 0 /\ faults = {}
  /\ tools = Tools /\ fits = TRUE /\ image = NoParts /\ plugged = TRUE
  /\ \E b \in Boards : board = [mode |-> b.mode, locked |-> b.locked, part |-> NoParts]
  /\ IF Unpacked
       THEN /\ \E boot \in NewBoot(1) :
                 /\ tree = [EmptyTree EXCEPT !.system = 1, !.logo = {1}, !.boot = {1},
                                             !.ramdisk = {1}, !.stage2 = SecondOf(boot)]
                 /\ part = [[p \in Parts |-> {1}] EXCEPT !["boot"] = boot]
            /\ file = <<{1}>> /\ cache = <<{1}>>
            /\ mounts = <<1>> /\ marks = 1
       ELSE /\ tree = EmptyTree /\ part = NoParts /\ file = <<>> /\ cache = <<>>
            /\ mounts = <<>> /\ marks = 0
  /\ began = NotBegun /\ made = NoEdits /\ half = {}
-----------------------------------------------------------------------------
NoUmount == <<>>                            \* mutant

Umount == <<<<"umount">>>>
Unpack == Umount \o <<<<"clear">>, <<"extract">>, <<"convert">>, <<"mount">>, <<"unlogo">>, <<"unboot">>>>

\* Mutant: the old partitions stay until the new ones are made.
RecreateOver ==
  <<<<"sync">>, <<"make", "logo">>, <<"make", "system">>, <<"make", "boot">>, <<"sync">>>>

Recreate ==
  <<<<"sync">>, <<"rm", "logo">>, <<"make", "logo">>, <<"rm", "system">>, <<"make", "system">>,
    <<"rm", "boot">>, <<"make", "boot">>, <<"sync">>>>

Burn ==
  <<<<"identify">>, <<"reset">>, <<"check">>, <<"load">>, <<"initial">>,
    <<"write", "logo">>, <<"write", "boot">>, <<"write", "system">>>>

FlashFirst == <<<<"sync">>>> \o Burn \o Recreate \o <<<<"sync">>>>    \* mutant

Flash == <<<<"sync">>>> \o Recreate \o Burn \o <<<<"sync">>>>

Cleanup == Umount \o <<<<"clear">>, <<"clean">>>>

Commands == [
  unpack          |-> Unpack,
  recreate        |-> Recreate,
  repack          |-> <<<<"sync">>>> \o Recreate \o <<<<"pack">>, <<"sync">>>>,
  flash           |-> Flash,
  remount         |-> <<<<"sync">>>> \o Umount \o <<<<"mount">>>>,
  unmount         |-> <<<<"sync">>>> \o Umount,
  extract_initrd  |-> <<<<"rm_initrd">>, <<"gunzip">>>>,
  recreate_initrd |-> <<<<"rm_ramdisk">>, <<"gzip">>>>,
  cleanup         |-> Cleanup,
  build           |-> Cleanup \o <<<<"compile">>>>]

ASSUME ScriptsAssumption == Scripts \subseteq DOMAIN Commands

\* The tests that a script begins with.
MayRun(s) ==
  CASE s = "unpack" -> "simg2img" \in tools /\ marks < MaxMarks
    [] s \in {"recreate", "repack", "flash", "extract_initrd"} -> tree.system # NULL
    [] s = "recreate_initrd" -> tree.initrd # NULL
    [] OTHER -> TRUE

\* One script runs at a time.
Start(s) ==
  /\ todo = <<>> /\ scripts < MaxScripts /\ MayRun(s)
  /\ script' = s /\ todo' = Commands[s] \o <<<<"done">>>> /\ said' = FALSE
  /\ scripts' = scripts + 1
  /\ began' = IF s \in {"repack", "flash"}
              THEN [parts |-> [p \in Parts |-> InTree(p)], image |-> image, board |-> board.part]
              ELSE NotBegun
  /\ UNCHANGED <<tk, dev, marks, faults, made, half>>

Next1(c) == todo # <<>> /\ Head(todo) = c /\ todo' = Tail(todo) /\ UNCHANGED <<script, said, scripts>>

Works == UNCHANGED faults

Note(c) == faults' = faults \cup {[script |-> script, command |-> c]}

Fails(c) == Cardinality(faults) < MaxFaults /\ Note(c)

Done ==
  /\ todo # <<>> /\ Head(todo) = <<"done">>
  /\ todo' = <<>> /\ said' = TRUE
  /\ UNCHANGED <<tk, dev, hist, script, scripts>>

\* The user stops the script.
Stop ==
  /\ todo # <<>> /\ todo' = <<>> /\ Fails("stop")
  /\ UNCHANGED <<tk, dev, script, said, scripts, marks, began, made, half>>
-----------------------------------------------------------------------------
Flushed == [i \in DOMAIN file |-> IF Mounted(i) THEN cache[i] ELSE file[i]]

Sync ==
  /\ Next1(<<"sync">>) /\ Works
  /\ file' = Flushed
  /\ UNCHANGED <<tools, tree, fits, part, cache, mounts, dev, marks, began, made, half>>

\* umount fails when a file or directory of the mount is in use.
UmountSystem ==
  /\ Next1(<<"umount">>)
  /\ \/ Works /\ file' = Flushed
        /\ mounts' = IF mounts = <<>> THEN mounts ELSE SubSeq(mounts, 1, Len(mounts) - 1)
     \/ mounts # <<>> /\ Fails("umount") /\ UNCHANGED <<file, mounts>>
  /\ UNCHANGED <<tools, tree, fits, part, cache, dev, marks, began, made, half>>

\* mount puts a second file system over one that is still mounted.
Mount ==
  /\ Next1(<<"mount">>)
  /\ LET i == tree.system
     IN \/ /\ Works
           /\ IF i # NULL /\ file[i] # {}
              THEN mounts' = Append(mounts, i) /\ cache' = [cache EXCEPT ![i] = Live(i)]
              ELSE UNCHANGED <<mounts, cache>>
        \/ Fails("mount") /\ UNCHANGED <<mounts, cache>>
  /\ UNCHANGED <<tools, tree, fits, part, file, dev, marks, began, made, half>>

ClearedImage == [EmptyTree EXCEPT !.initrd = tree.initrd]     \* mutant

Cleared == EmptyTree

\* rm -rf output, which also removes what is in a file system that is still
\* mounted there.
Clear ==
  /\ Next1(<<"clear">>) /\ Works
  /\ tree' = Cleared /\ part' = NoParts /\ fits' = TRUE /\ made' = NoEdits /\ half' = {}
  /\ cache' = IF mounts = <<>> THEN cache ELSE [cache EXCEPT ![mounts[Len(mounts)]] = {}]
  /\ UNCHANGED <<tools, file, mounts, dev, marks, began>>

\* aml_image_v2_packer -d on an image that was not seen before.
Extract ==
  /\ Next1(<<"extract">>)
  /\ marks' = marks + 1
  /\ \E boot \in NewBoot(marks'), some \in SUBSET Parts :
       /\ \/ Works /\ some = Parts
          \/ Fails("extract")
       /\ part' = [p \in Parts |-> IF p \notin some THEN NULL
                                   ELSE IF p = "boot" THEN boot ELSE {marks'}]
  /\ UNCHANGED <<tools, tree, fits, file, cache, mounts, dev, began, made, half>>

\* simg2img opens its output before it looks at its input.
Convert ==
  /\ Next1(<<"convert">>)
  /\ IF "simg2img" \notin tools
     THEN Works /\ UNCHANGED <<tree, file, cache>>
     ELSE /\ tree' = [tree EXCEPT !.system = Len(file) + 1]
          /\ \/ Works /\ file' = Append(file, Content(part.system))
             \/ Fails("convert") /\ file' = Append(file, {})
          /\ cache' = file'
  /\ UNCHANGED <<tools, fits, part, mounts, dev, marks, began, made, half>>

\* logo_img_packer -d.
UnpackLogo ==
  /\ Next1(<<"unlogo">>)
  /\ \/ Works /\ tree' = [tree EXCEPT !.logo = Content(part.logo)]
     \/ Fails("unlogo") /\ tree' = [tree EXCEPT !.logo = {}]
  /\ UNCHANGED <<tools, fits, part, file, cache, mounts, dev, marks, began, made, half>>

\* abootimg -x.
UnpackBoot ==
  /\ Next1(<<"unboot">>)
  /\ LET whole == "abootimg" \in tools /\ part.boot # NULL
     IN \/ Works /\ tree' = [tree EXCEPT !.boot = IF whole THEN FirstOf(part.boot) ELSE {},
                                         !.ramdisk = IF whole THEN FirstOf(part.boot) ELSE NULL,
                                         !.stage2 = IF whole THEN SecondOf(part.boot) ELSE NULL]
        \/ Fails("unboot") /\ tree' = [tree EXCEPT !.boot = {}, !.ramdisk = NULL, !.stage2 = NULL]
  /\ UNCHANGED <<tools, fits, part, file, cache, mounts, dev, marks, began, made, half>>
-----------------------------------------------------------------------------
Remove(p) ==
  /\ Next1(<<"rm", p>>) /\ Works
  /\ part' = [part EXCEPT ![p] = NULL]
  /\ UNCHANGED <<tools, tree, fits, file, cache, mounts, dev, marks, began, made, half>>

\* The program that makes a partition, whether it can, and from what: img2simg
\* reads the image file, not the file system that is mounted from it.
Maker == [system |-> "img2simg", boot |-> "abootimg"]

HasMaker(p) == p \in DOMAIN Maker => Maker[p] \in tools

CanMake(p) ==
  CASE p = "system" -> TRUE
    [] p = "logo" -> Content(tree.logo) # {}
    [] p = "boot" -> Content(tree.boot) # {} /\ Content(tree.ramdisk) # {} /\ fits

Input(p) == IF p = "system" THEN file[tree.system] ELSE InTree(p)

\* A maker that fails or refuses leaves what there was, or a file that is cut
\* short: abootimg and img2simg open it before.
Make(p) ==
  /\ Next1(<<"make", p>>)
  /\ IF ~HasMaker(p) THEN Works /\ UNCHANGED part
     ELSE \/ Works /\ part' = [part EXCEPT ![p] = IF CanMake(p) THEN Input(p) ELSE {}]
          \/ Fails("make") /\ \E left \in {part[p], {}} : part' = [part EXCEPT ![p] = left]
  /\ UNCHANGED <<tools, tree, fits, file, cache, mounts, dev, marks, began, made, half>>

\* aml_image_v2_packer -r.  It fails when a file is missing.
Pack ==
  /\ Next1(<<"pack">>)
  /\ \/ /\ Works
        /\ image' = IF \E p \in Parts : part[p] = NULL THEN image ELSE part
     \/ Fails("pack") /\ \E left \in {image, NoParts} : image' = left
  /\ UNCHANGED <<tk, plugged, board, marks, began, made, half>>

\* Once the initrd and the ramdisk are both gone, no script brings them back.
BothInitrd == {"extract_initrd", "recreate_initrd"}

Without(s) == IF half = BothInitrd THEN half ELSE half \ {s}

\* extract_initrd: rm -rf output/initrd, mkdir; gunzip and cpio.
RemoveInitrd ==
  /\ Next1(<<"rm_initrd">>) /\ Works
  /\ tree' = [tree EXCEPT !.initrd = {}]
  /\ made' = [made EXCEPT !.removed = @ \cup (made.initrd \ Content(tree.ramdisk))]
  /\ half' = half \cup {"extract_initrd"}
  /\ UNCHANGED <<tools, fits, part, file, cache, mounts, dev, marks, began>>

Gunzip ==
  /\ Next1(<<"gunzip">>)
  /\ \/ Works /\ tree' = [tree EXCEPT !.initrd = @ \cup Content(tree.ramdisk)] /\ half' = Without("extract_initrd")
     \/ Fails("gunzip") /\ UNCHANGED <<tree, half>>
  /\ UNCHANGED <<tools, fits, part, file, cache, mounts, dev, marks, began, made>>

WithoutRamdiskOrInitrd == [tree EXCEPT !.ramdisk = NULL, !.initrd = {}]      \* mutant

WithoutRamdisk == [tree EXCEPT !.ramdisk = NULL]

\* recreate_initrd: rm -f boot/initrd.img; cpio and gzip, whose result may need
\* more or less room than before.
RemoveRamdisk ==
  /\ Next1(<<"rm_ramdisk">>) /\ Works
  /\ tree' = WithoutRamdisk /\ half' = half \cup {"recreate_initrd"}
  /\ UNCHANGED <<tools, fits, part, file, cache, mounts, dev, marks, began, made>>

Gzip ==
  /\ Next1(<<"gzip">>)
  /\ \/ Works /\ tree' = [tree EXCEPT !.ramdisk = tree.initrd] /\ half' = Without("recreate_initrd")
     \/ Fails("gzip") /\ tree' = [tree EXCEPT !.ramdisk = {}] /\ UNCHANGED half
  /\ fits' \in BOOLEAN
  /\ UNCHANGED <<tools, part, file, cache, mounts, dev, marks, began, made>>

\* rm -f and make clean; make and cp.
Clean ==
  /\ Next1(<<"clean">>) /\ Works
  /\ tools' = {}
  /\ UNCHANGED <<tree, fits, part, file, cache, mounts, dev, marks, began, made, half>>

Compile ==
  /\ Next1(<<"compile">>)
  /\ \/ Works /\ tools' = Tools
     \/ Fails("compile") /\ tools' \in SUBSET Tools \ {Tools}
  /\ UNCHANGED <<tree, fits, part, file, cache, mounts, dev, marks, began, made, half>>
-----------------------------------------------------------------------------
\* aml-flash --soc=gxl --wipe --reset=n --parts=all.  A command that gets no
\* answer at all is taken for done; "ERR" ends aml-flash, and not bin/flash.
Quit == todo' = SubSeq(todo, Len(todo) - 1, Len(todo)) /\ UNCHANGED <<script, said, scripts>>

Locked == board.mode \in board.locked

Command(c, ready, effect) ==
  /\ todo # <<>> /\ Head(todo) = c
  /\ \/ plugged /\ ~Locked /\ ready /\ Next1(c) /\ Works /\ board' = effect
     \/ Note("burn") /\ UNCHANGED board /\ (Next1(c) \/ Quit)
  /\ UNCHANGED <<tk, image, plugged, marks, began, made, half>>

IdentifiedUnlocked == plugged /\ ~Locked                   \* mutant

\* The loop waits for an answer with "firmware".
Identified == plugged

\* A locked board ends the program, if it answers.
CheckLock(c) ==
  /\ todo # <<>> /\ Head(todo) = c
  /\ IF plugged /\ Locked THEN (Quit \/ Next1(c)) /\ Note("burn") ELSE Next1(c) /\ Works
  /\ UNCHANGED <<tk, dev, marks, began, made, half>>

Identify == Identified /\ CheckLock(<<"identify">>)

\* A board that was not locked in u-boot may be so in its rom.  The program ends, too,
\* if the board wants a signed boot loader, or a file of the image is missing.
Check ==
  \/ CheckLock(<<"check">>)
  \/ /\ todo # <<>> /\ Head(todo) = <<"check">> /\ Quit /\ Note("burn")
     /\ UNCHANGED <<tk, dev, marks, began, made, half>>

\* A board in u-boot is sent back to its rom, one in its rom says "ERR" and is left
\* there; u-boot is loaded into it, and disk_initial 1 empties the partitions.
Reset ==
  \/ Command(<<"reset">>, board.mode = "uboot", [board EXCEPT !.mode = "rom"])
  \/ /\ board.mode = "rom" /\ Next1(<<"reset">>) /\ Works
     /\ UNCHANGED <<tk, dev, marks, began, made, half>>

Load == Command(<<"load">>, board.mode = "rom", [board EXCEPT !.mode = "uboot"])

Initial == Command(<<"initial">>, board.mode = "uboot", [board EXCEPT !.part = Nothing])

Write(p) ==
  IF part[p] # NULL
  THEN Command(<<"write", p>>, board.mode = "uboot", [board EXCEPT !.part[p] = part[p]])
  ELSE /\ todo # <<>> /\ Head(todo) = <<"write", p>> /\ Quit /\ Note("burn")
       /\ UNCHANGED <<tk, dev, marks, began, made, half>>

\* Before, the board might as well not be there.
Unplug == plugged /\ script = "flash" /\ todo # <<>> /\ plugged' = FALSE /\ UNCHANGED <<tk, run, image, board, hist>>

Plug ==
  /\ ~plugged /\ plugged' = TRUE
  /\ board' \in {board, [board EXCEPT !.mode = "rom"]}
  /\ UNCHANGED <<tk, run, image, hist>>
-----------------------------------------------------------------------------
EditSystem ==
  /\ marks < MaxMarks /\ mounts # <<>>
  /\ marks' = marks + 1
  /\ LET i == mounts[Len(mounts)]
     IN /\ cache' = [cache EXCEPT ![i] = @ \cup {marks'}]
        /\ made' = IF i = tree.system THEN [made EXCEPT !.system = @ \cup {marks'}] ELSE made
  /\ UNCHANGED <<tools, tree, fits, part, file, mounts, run, dev, faults, began, half>>

\* With bootimg.cfg the user may make room for the ramdisk.
EditFiles(d) ==
  /\ marks < MaxMarks /\ tree[d] # NULL
  /\ marks' = marks + 1
  /\ tree' = [tree EXCEPT ![d] = @ \cup {marks'}]
  /\ made' = [made EXCEPT ![d] = @ \cup {marks'}]
  /\ fits' \in IF d = "boot" THEN {fits, TRUE} ELSE {fits}
  /\ UNCHANGED <<tools, part, file, cache, mounts, run, dev, faults, began, half>>

\* The computer is shut down and started again.
Reboot ==
  /\ todo = <<>> /\ mounts # <<>>
  /\ file' = Flushed /\ mounts' = <<>>
  /\ UNCHANGED <<tools, tree, fits, part, cache, run, dev, hist>>

Step ==
  \/ Sync \/ UmountSystem \/ Mount \/ Clear
  \/ Extract \/ Convert \/ UnpackLogo \/ UnpackBoot
  \/ \E p \in Parts : Remove(p) \/ Make(p) \/ Write(p)
  \/ Pack \/ RemoveInitrd \/ Gunzip \/ RemoveRamdisk \/ Gzip \/ Clean \/ Compile
  \/ Identify \/ Reset \/ Check \/ Load \/ Initial \/ Done

Next ==
  \/ Step
  \/ \E s \in Scripts : Start(s)
  \/ Stop \/ Unplug \/ Plug \/ Reboot
  \/ EditSystem \/ \E d \in {"logo", "boot", "stage2", "initrd"} : EditFiles(d)

\* The shell goes on with the next command.
Spec == Init /\ [][Next]_vars /\ WF_vars(Step)
-----------------------------------------------------------------------------
\* Files hold marks or are absent; what is mounted and what output/ refers to
\* exists, a ramdisk is only extracted where an image is unpacked, and a script has
\* not said "Done" before its end.
TypeOK ==
  /\ tools \subseteq Tools /\ {fits, said} \subseteq BOOLEAN /\ marks \in 0 .. MaxMarks + 1
  /\ file \in Seq(SUBSET Marks) /\ cache \in [DOMAIN file -> SUBSET Marks]
  /\ mounts \in Seq(DOMAIN file)
  /\ tree \in [system : DOMAIN file \cup {NULL},
               logo : (SUBSET Marks) \cup {NULL}, boot : (SUBSET Marks) \cup {NULL},
               ramdisk : (SUBSET Marks) \cup {NULL}, stage2 : (SUBSET Marks) \cup {NULL},
               initrd : (SUBSET Marks) \cup {NULL}]
  /\ part \in [Parts -> (SUBSET Marks) \cup {NULL}] /\ image \in [Parts -> (SUBSET Marks) \cup {NULL}]
  /\ board \in [mode : {"rom", "uboot"}, locked : SUBSET {"rom", "uboot"},
                part : [Parts -> (SUBSET Marks) \cup {NULL}]]
  /\ tree.initrd # NULL => tree.system # NULL
  /\ todo # <<>> => todo[Len(todo)] = <<"done">> /\ ~said

\* A packed image or a flashed board has every edit that was made before the
\* script began, also the ones in the mounted system, but for those of a second
\* stage, which recreate leaves out.  When a command fails, or an answer of the board is lost,
\* an image that is packed all the same and a board that is written in part have
\* partitions that are broken or absent, the board also those it had, and none of
\* an earlier state of the tree.
Packed ==
  LET Fresh(x, p) == x[p] # NULL /\ began.parts[p] \subseteq x[p]
      target == IF script = "repack" THEN image ELSE board.part
  IN said =>
       /\ script = "repack" /\ image # began.image =>
            \A p \in Parts : image[p] \in {NULL, {}} \/ Fresh(image, p)
       /\ script = "flash" =>
            \A p \in Parts : board.part[p] \in {{}, began.board[p]} \/ Fresh(board.part, p)
       /\ script \in {"repack", "flash"} /\ faults = {} =>
            \A p \in Parts : Fresh(target, p) \/ (p = "boot" /\ target[p] = {})

\* No script but the ones that clear output/ loses an edit, whichever command
\* fails or is not reached, but for one of the initrd that was in no ramdisk when
\* extract_initrd was run again.  A failure of one of the initrd's scripts
\* loses nothing yet: the other has to be run on what it has left.
Kept ==
  LET initrd == made.initrd \ made.removed
  IN /\ tree.system # NULL => made.system \subseteq Live(tree.system)
     /\ \A d \in {"logo", "boot", "stage2"} : made[d] \subseteq Content(tree[d])
     /\ "extract_initrd" \notin half => initrd \subseteq Content(tree.initrd)
     /\ half # BothInitrd => initrd \subseteq Content(tree.initrd) \cup Content(tree.ramdisk)

\* Unless umount has failed, output/system shows output/image/system.img or is
\* not mounted: no rm -rf reaches into an image, and no edit into a lost one.
MountShowsImage ==
  \/ mounts \in {<<>>, <<tree.system>>}
  \/ \E f \in faults : f.command = "umount"

\* Every script ends, flash if the board is plugged in at last and stays so.
Ends == <>[]plugged => []<>(todo = <<>>)

\* "you can repack the image, let it fail and read the logs": a repack that could
\* not make a partition does not pack it.
RepackFails == said /\ script = "repack" => \A p \in Parts : image[p] # {}
=============================================================================
