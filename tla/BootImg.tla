------------------------------ MODULE BootImg ------------------------------
(***************************************************************************)
(* abootimg: a boot image is created, updated in place and extracted.  One *)
(* step is one function of main, and in write_bootimg one part; the tool   *)
(* may be killed between any two.                                          *)
(*                                                                         *)
(* An image is a sequence of cells.  Cell 1 holds the header, and the      *)
(* parts begin at page boundaries.  A part is a sequence of cells          *)
(* <<name, k>>; what is left of a page is filled with Zero.                *)
(***************************************************************************)
EXTENDS Integers, Sequences

CONSTANTS
  Arguments,                 \* the commands that write, with their arguments
  DefaultPage,               \* page_size of a new header
  Devices,                   \* the lengths of block devices, in cells
  MaxCommands,               \* bound: commands that write, and kills
  NULL, Zero

ASSUME BootAssumption ==
  /\ DefaultPage \in Nat \ {0} /\ Devices \subseteq Nat \ {0} /\ MaxCommands \in Nat
  /\ \A a \in Arguments :
       /\ a.command \in {"create", "update"} /\ a.bad \in BOOLEAN
       /\ {a.bootsize, a.pagesize} \subseteq Nat \cup {NULL}
       /\ \A part \in {a.kernel, a.ramdisk, a.second} \ {NULL} : part.len \in Nat

Headers == [page_size : Nat, kernel_size : Nat, ramdisk_size : Nat, second_size : Nat,
            info : {a.info : a \in Arguments} \cup {NULL}]

\* What begins an image; what else there is in one.
First == ({"header"} \X Headers) \cup ({"garbage"} \X Nat)

Cell ==
  LET names == {part.name : part \in UNION {{a.kernel, a.ramdisk, a.second} \ {NULL} : a \in Arguments}}
  IN {Zero} \cup First \cup (names \X Nat)

ASSUME NullIsNoData == NULL \notin Headers \cup Seq(Cell)

VARIABLES
  file,                      \* the image, or NULL
  device,                    \* is it a block device?
  args,                      \* the command and its arguments
  img,                       \* the t_abootimg
  pc, status,                \* what comes next; how the last command ended
  tail,                      \* what stdio may not have written yet: [at, cells]
  out,                       \* the files -x has written
  commands,
  before, given              \* history: the image when the command began, and
                             \* what the parts and the header should be
vars == <<file, device, args, img, pc, status, tail, out, commands, before, given>>

PagesFloor(len, page) == len \div page           \* mutant: a part fills its pages

Pages(len, page) == (len + page - 1) \div page

\* The offsets of the parts by the sizes in a header, and the whole.
RamdiskAt(h) == (1 + Pages(h.kernel_size, h.page_size)) * h.page_size
SecondAt(h) == RamdiskAt(h) + Pages(h.ramdisk_size, h.page_size) * h.page_size
TotalSize(h) == SecondAt(h) + Pages(h.second_size, h.page_size) * h.page_size

Content(part) == [k \in 1 .. part.len |-> <<part.name, k>>]

Zeros(n) == [k \in 1 .. n |-> Zero]

\* A device keeps its length, a file grows, with a hole if need be, but not when
\* nothing is written.
WriteAt(d, at, cells) ==
  LET grown == IF cells # <<>> /\ at + Len(cells) > Len(d) THEN at + Len(cells) ELSE Len(d)
  IN [k \in 1 .. IF device THEN Len(d) ELSE grown |->
        IF at < k /\ k =< at + Len(cells) THEN cells[k - at]
        ELSE IF k =< Len(d) THEN d[k] ELSE Zero]

\* ftruncate fails on a device, which nobody looks at.
Truncate(d, n) ==
  IF device THEN d ELSE [k \in 1 .. n |-> IF k =< Len(d) THEN d[k] ELSE Zero]

Readable(at, n) == n > 0 /\ at + n =< Len(file)

ReadAt(at, n) == SubSeq(file, at + 1, at + n)

HeaderOf(d) == IF d # NULL /\ d # <<>> /\ d[1][1] = "header" THEN d[1][2] ELSE NULL

\* check_boot_img_header.
ValidHeader(h, size) ==
  /\ h.kernel_size # 0 /\ h.ramdisk_size # 0 /\ h.page_size # 0
  /\ TotalSize(h) =< size

NoTail == [at |-> 0, cells |-> <<>>]

NoImage == [size |-> 0, kernel |-> NULL, ramdisk |-> NULL, second |-> NULL,
            header |-> [page_size |-> DefaultPage, kernel_size |-> 0, ramdisk_size |-> 0,
                        second_size |-> 0, info |-> NULL]]

NoArgs == [command |-> "none", kernel |-> NULL, ramdisk |-> NULL, second |-> NULL,
           bootsize |-> NULL, pagesize |-> NULL, info |-> NULL, bad |-> FALSE]

Garbage(n) == [k \in 1 .. n |-> <<"garbage", k>>]

Init ==
  /\ \/ device = FALSE /\ file \in {NULL, Garbage(1)}
     \/ device = TRUE /\ file \in {Garbage(n) : n \in Devices}
  /\ args = NoArgs /\ img = NoImage /\ pc = "exited" /\ status = "ok"
  /\ tail = NoTail /\ out = NULL /\ commands = 0
  /\ before = file /\ given = NULL
-----------------------------------------------------------------------------
End(how) == pc' = "exited" /\ status' = how

\* Arguments: kernel, ramdisk and second are files [name, len], bootsize, pagesize
\* and info entries of a configuration, each of them or NULL; bad says that the
\* configuration has an entry that is refused.
\* create: main prints the usage unless it is given a kernel and a ramdisk.  A
\* device is refused if blkid finds a file system on it, and a file that does not
\* exist yet leaves the stat buffer of check_if_block_device uninitialised, so that
\* it may be taken for a device it cannot open.
Create(a) ==
  /\ pc = "exited" /\ commands < MaxCommands
  /\ a.command = "create" /\ a.kernel # NULL /\ a.ramdisk # NULL
  /\ args' = a /\ commands' = commands + 1 /\ before' = file
  /\ img' = [NoImage EXCEPT !.size = IF device THEN Len(file) ELSE 0]
  /\ \/ /\ pc' = "config" /\ status' = "running"
        /\ file' = IF device THEN file ELSE <<>>
        /\ given' = IF device THEN given ELSE NULL
     \/ (file = NULL \/ device) /\ End("refused") /\ UNCHANGED <<file, given>>
  /\ UNCHANGED <<device, tail, out>>

OpenedEmpty == <<>>                         \* mutant: mode "w+"

\* Mode "r+".
Opened == file

\* update: open and read_header.
Update(a) ==
  /\ pc = "exited" /\ commands < MaxCommands
  /\ a.command = "update" /\ file # NULL
  /\ args' = a /\ commands' = commands + 1 /\ before' = file
  /\ file' = Opened
  /\ IF HeaderOf(Opened) # NULL /\ ValidHeader(HeaderOf(Opened), Len(Opened))
     THEN /\ img' = [NoImage EXCEPT !.size = Len(file), !.header = HeaderOf(file)]
          /\ pc' = "config" /\ status' = "running"
     ELSE End("refused") /\ UNCHANGED img
  /\ UNCHANGED <<device, tail, out, given>>

Given(new, old) == IF new = NULL THEN old ELSE new

\* update_header: the entries of the file of -f, then those of -c.
UpdateHeader ==
  /\ pc = "config"
  /\ IF args.bad \/ (args.bootsize # NULL /\ device /\ args.bootsize # img.size)
     THEN End("refused") /\ UNCHANGED img
     ELSE /\ img' = [img EXCEPT !.size = Given(args.bootsize, @),
                                !.header.page_size = Given(args.pagesize, @),
                                !.header.info = Given(args.info, @)]
          /\ pc' = "images" /\ UNCHANGED status
  /\ UNCHANGED <<file, device, args, tail, out, commands, before, given>>

Sized(h, k, r, s) ==
  [h EXCEPT !.kernel_size  = IF k = NULL THEN @ ELSE Len(k),
            !.ramdisk_size = IF r = NULL THEN @ ELSE Len(r),
            !.second_size  = IF s = NULL THEN @ ELSE Len(s)]

\* update_images, apart from what it refuses: a new kernel makes it copy the
\* ramdisk, and a ramdisk the second stage, from the image.  They are found by the
\* sizes in its header, and by the page size update_header has just put there.
Loaded ==
  LET Load(part) == IF part = NULL THEN NULL ELSE Content(part)
      h == img.header
      k == Load(args.kernel)
      r == IF args.ramdisk = NULL /\ k # NULL THEN ReadAt(RamdiskAt(h), h.ramdisk_size)
           ELSE Load(args.ramdisk)
      s == IF args.second = NULL /\ r # NULL /\ h.second_size # 0
           THEN ReadAt(SecondAt(h), h.second_size)
           ELSE Load(args.second)
  IN [img EXCEPT !.kernel = k, !.ramdisk = r, !.second = s, !.header = Sized(@, k, r, s)]

\* The reads of the image that update_images makes succeed.
CanCopy ==
  LET h == img.header
  IN /\ args.kernel # NULL /\ args.ramdisk = NULL => Readable(RamdiskAt(h), h.ramdisk_size)
     /\ args.second = NULL /\ (args.kernel # NULL \/ args.ramdisk # NULL) /\ h.second_size # 0
          => Readable(SecondAt(h), h.second_size)

EmptyInput == \E part \in {args.kernel, args.ramdisk, args.second} \ {NULL} : part.len = 0

TooBigData(h, size) == TotalSize(h) - h.page_size > size     \* mutant: without the header

TooBig(h, size) == TotalSize(h) > size

UpdateImages ==
  /\ pc = "images"
  /\ IF img.header.page_size = 0 \/ EmptyInput \/ ~CanCopy
     THEN End("refused") /\ UNCHANGED img
     ELSE LET size == IF img.size = 0 THEN TotalSize(Loaded.header) ELSE img.size
          IN /\ img' = [Loaded EXCEPT !.size = size]
             /\ IF TooBig(Loaded.header, size)
                THEN End("refused") ELSE pc' = "header" /\ UNCHANGED status
  /\ UNCHANGED <<file, device, args, tail, out, commands, before, given>>
-----------------------------------------------------------------------------
\* write_bootimg.  A part is followed by zeros up to the next page, a whole page
\* of them when it ends at one.  Only a seek makes stdio write what it holds.
PaddedPart(part, page) == part \o Zeros(page - (Len(part) % page))

Flushed == WriteAt(file, tail.at, tail.cells)

Put(at, cells, next) ==
  /\ file' = Flushed /\ tail' = [at |-> at, cells |-> cells] /\ pc' = next
  /\ UNCHANGED <<device, args, img, status, out, commands, before>>

WriteHeader ==
  /\ pc = "header"
  /\ LET head == <<<<"header", img.header>>>> \o Zeros(img.header.page_size - 1)
     IN Put(0, IF img.kernel = NULL THEN head ELSE head \o PaddedPart(img.kernel, img.header.page_size),
            "ramdisk")
  /\ UNCHANGED given

WriteRamdisk ==
  /\ pc = "ramdisk"
  /\ IF img.ramdisk # NULL
     THEN Put(RamdiskAt(img.header), PaddedPart(img.ramdisk, img.header.page_size), "second")
     ELSE pc' = "second" /\ UNCHANGED <<file, device, args, img, status, tail, out, commands, before>>
  /\ UNCHANGED given

\* What the image should hold after the command: the parts that were given, the
\* others as before.  repaged: the page size changed under a part that was kept.
Promise ==
  LET new  == args.command = "create"
      Keep(part, old) == IF part # NULL THEN Content(part) ELSE old
  IN [kernel  |-> Keep(args.kernel, IF new THEN NULL ELSE given.kernel),
      ramdisk |-> Keep(args.ramdisk, IF new THEN NULL ELSE given.ramdisk),
      second  |-> Keep(args.second, IF new THEN <<>> ELSE given.second),
      info    |-> Given(args.info, IF new THEN NULL ELSE given.info),
      page    |-> Given(args.pagesize, IF new THEN DefaultPage ELSE given.page),
      repaged |-> ~new /\ (\/ given.repaged
                           \/ /\ args.pagesize \notin {NULL, given.page}
                              /\ \/ args.kernel = NULL \/ args.ramdisk = NULL
                                 \/ args.second = NULL /\ given.second # <<>>)]

\* The second stage is written when the header has one, loaded or not.  Without
\* one fwrite is given the null pointer: it crashes on copying from it or, when the
\* second stage is longer than its buffer, hands it to write, which refuses it.  By
\* then the header is in the file.
WriteSecond ==
  /\ pc = "second"
  /\ IF img.header.second_size = 0
     THEN /\ pc' = "truncate"
          /\ UNCHANGED <<file, device, args, img, status, tail, out, commands, before, given>>
     ELSE IF img.second = NULL
     THEN /\ file' = Flushed /\ tail' = NoTail
          /\ \E how \in {"crashed", "refused"} : End(how)
          /\ given' = IF given = NULL THEN NULL ELSE Promise
          /\ UNCHANGED <<device, args, img, out, commands, before>>
     ELSE /\ Put(SecondAt(img.header), PaddedPart(img.second, img.header.page_size), "truncate")
          /\ UNCHANGED given

\* ftruncate, then exit writes the last n cells stdio still holds.  Padding that
\* does not fit a device is an error only if it is noticed before.
Finish ==
  /\ pc = "truncate"
  /\ \E n \in 0 .. Len(tail.cells) :
       LET early == SubSeq(tail.cells, 1, Len(tail.cells) - n)
           late  == SubSeq(tail.cells, Len(tail.cells) - n + 1, Len(tail.cells))
           noticed == device /\ tail.at + Len(early) > Len(file)
       IN /\ file' = WriteAt(Truncate(WriteAt(file, tail.at, early), img.size),
                             tail.at + Len(early), late)
          /\ End(IF noticed THEN "refused" ELSE "ok")
  /\ given' = IF args.command = "update" /\ given = NULL THEN NULL ELSE Promise
  /\ tail' = NoTail
  /\ UNCHANGED <<device, args, img, out, commands, before>>

\* The tool is killed: stdio has written some of what it held.
Kill ==
  /\ pc # "exited" /\ args.command \in {"create", "update"}
  /\ End("killed")
  /\ \E n \in 0 .. Len(tail.cells) : file' = WriteAt(file, tail.at, SubSeq(tail.cells, 1, n))
  /\ tail' = NoTail /\ commands' = commands + 1
  /\ given' = IF file' = before THEN given ELSE NULL
  /\ UNCHANGED <<device, args, img, out, before>>
-----------------------------------------------------------------------------
NoOut == [config |-> NULL, kernel |-> NULL, ramdisk |-> NULL, second |-> NULL]

\* extract: read_header and write_bootimg_config.
Extract ==
  /\ pc = "exited" /\ file # NULL
  /\ LET h == HeaderOf(file)
     IN IF h # NULL /\ ValidHeader(h, Len(file))
        THEN /\ img' = [NoImage EXCEPT !.size = Len(file), !.header = h]
             /\ out' = [NoOut EXCEPT !.config = [bootsize |-> Len(file), pagesize |-> h.page_size, info |-> h.info]]
             /\ pc' = "extract" /\ status' = "running"
        ELSE End("refused") /\ UNCHANGED <<img, out>>
  /\ args' = [NoArgs EXCEPT !.command = "extract"] /\ before' = file
  /\ UNCHANGED <<file, device, tail, commands, given>>

SecondAtUnpadded(h) == h.page_size + Pages(h.kernel_size + h.ramdisk_size, h.page_size) * h.page_size

\* extract_second rounds both sizes to pages.
ExtractSecondAt(h) ==
  (1 + Pages(h.ramdisk_size, h.page_size) + Pages(h.kernel_size, h.page_size)) * h.page_size

\* extract_kernel, _ramdisk and _second.  The buffer for the second stage has the
\* size of the kernel: a longer one may kill the tool.
ExtractParts ==
  /\ pc = "extract"
  /\ LET h == img.header
     IN /\ out' = [out EXCEPT !.kernel  = ReadAt(h.page_size, h.kernel_size),
                              !.ramdisk = ReadAt(RamdiskAt(h), h.ramdisk_size),
                              !.second  = ReadAt(ExtractSecondAt(h), h.second_size)]
        /\ \/ End("ok")
           \/ h.second_size > h.kernel_size /\ End("crashed")
  /\ UNCHANGED <<file, device, args, img, tail, commands, before, given>>

Next ==
  \/ \E a \in Arguments : Create(a) \/ Update(a)
  \/ UpdateHeader \/ UpdateImages
  \/ WriteHeader \/ WriteRamdisk \/ WriteSecond \/ Finish
  \/ Extract \/ ExtractParts
  \/ Kill

Spec == Init /\ [][Next]_vars
-----------------------------------------------------------------------------
\* A file that was ever made is made of cells and begins with one that says what it
\* is.  A header that is written has room for what it announces, and a device keeps
\* its length.
TypeOK ==
  /\ pc \in {"exited", "config", "images", "header", "ramdisk", "second", "truncate", "extract"}
  /\ status \in {"ok", "refused", "crashed", "killed", "running"}
  /\ (pc = "exited") <=> (status # "running")
  /\ pc \in {"header", "ramdisk", "second", "truncate"} =>
       img.header.page_size > 0 /\ img.size >= TotalSize(img.header)
  /\ file = NULL \/ (file \in Seq(Cell) /\ (file # <<>> => file[1] \in First))
  /\ device => Len(file) \in Devices

\* The parts and the header entries that a boot loader finds in an image.
Holds(d, g) ==
  LET h == HeaderOf(d)
      PartAt(at, len) == IF at + len =< Len(d) THEN SubSeq(d, at + 1, at + len) ELSE NULL
  IN /\ h # NULL /\ h.page_size = g.page /\ h.info = g.info
     /\ PartAt(h.page_size, h.kernel_size) = g.kernel
     /\ PartAt(RamdiskAt(h), h.ramdisk_size) = g.ramdisk
     /\ PartAt(SecondAt(h), h.second_size) = g.second

Settled == pc = "exited" /\ given # NULL

\* Whatever commands were given, refused, crashed or killed before they wrote: an image
\* holds, whole and where its header says, the parts it was last given and those
\* it had before, however these grew, shrank or moved, and of the padding none
\* lies over a part.  The page size is the exception: see PartsUntouched.
Stored == Settled /\ ~given.repaged => Holds(file, given)

\* Whenever an update is killed, is refused or crashes, and whatever stdio has written by
\* then: behind the header page, every cell in front of the first part that the
\* update was given is the one that was there before, and there to the end of the
\* parts if it was given none.  Again, the page size has to stay.
InFront ==
  LET h == HeaderOf(before)
      end == IF args.kernel # NULL THEN h.page_size
             ELSE IF args.ramdisk # NULL THEN RamdiskAt(h)
             ELSE IF args.second # NULL THEN SecondAt(h) ELSE TotalSize(h)
  IN args.command = "update" /\ h # NULL /\ ValidHeader(h, Len(before))
       /\ args.pagesize \in {NULL, h.page_size} =>
       \A k \in h.page_size + 1 .. end : k \in DOMAIN file /\ file[k] = before[k]

\* "will update the configuration without touching the kernel nor the ramdisk".
PartsUntouched ==
  Settled /\ status = "ok" /\ args.command = "update" => Holds(file, given)

\* -x finds the parts where -u and --create put them, also the second stage
\* behind two parts that end inside a page.
Extracted ==
  Settled /\ ~given.repaged /\ args.command = "extract" /\ status = "ok" =>
    out.kernel = given.kernel /\ out.ramdisk = given.ramdisk /\ out.second = given.second

\* An update that is refused leaves the image as it was, but for two that are
\* refused too late: of a device that has no room for a last page of padding, which
\* has been made, and of the entries alone where there is a second stage, which has
\* written the header and its padding, and nothing behind them.
RefusedUpdateKeeps ==
  pc = "exited" /\ status = "refused" /\ args.command = "update" =>
    \/ file = before
    \/ device /\ Len(file) < TotalSize(img.header) + img.header.page_size
    \/ /\ img.header.second_size # 0 /\ {args.kernel, args.ramdisk, args.second} = {NULL}
       /\ \A k \in DOMAIN before : k > img.header.page_size => file[k] = before[k]

\* A file is as long as it was asked to be or, when its last part ends at a page
\* and the next page is not all in the image, longer by what the padding adds.
SizeAsAsked ==
  pc = "exited" /\ status = "ok" /\ args.command \in {"create", "update"} /\ ~device =>
    \/ Len(file) = img.size
    \/ /\ Len(file) = TotalSize(img.header) + img.header.page_size
       /\ Len(file) > img.size
=============================================================================
