# A formal model of linux-amlogic-toolkit

TLA+ modules, TLC configurations and TLAPS proofs for the programs in this
repository that have logic of their own. The repository unpacks, edits, repacks
and flashes firmware images of Amlogic boards: shell scripts in `bin/` drive a C
library for Android sparse images (`bin/src/simg2img`), a boot image editor
(`bin/src/abootimg`), a USB burning script (`bin/aml-linux-usb-burn/aml-flash`)
and a few prebuilt programs. Paths below without a directory are those of
`bin/src/simg2img/`.

## The system

| Part | State | Operations | Talks to | Model |
|---|---|---|---|---|
| Backed block list, `backed_block.c` | a linked list of extents `(block, len, source)`, the cached pointer `last_used` | add data / file / fd / fill, merge neighbours, split, move a run of extents to another list | used by every cookie | `BlockList` |
| Sparse file cookie, `sparse.c` | block size, length of the image, one list | `add_*`, count chunks, length, write, callback, resparse | list below, output file above | `Resparse`, `SparseWriter` |
| Output file, `output_file.c` | file position, running crc, header | open, data / fill / skip chunks, end, close, each for the sparse and the plain format and for fd, gzip and callback outputs | `write`, `lseek`, `ftruncate`, `mmap` | `SparseWriter` |
| Sparse reader, `sparse_read.c` | file position, current block, running crc | parse chunks into a cookie, sparse a plain file, import, import_auto | list, input file | `SparseReader` |
| `simg2img`, `img2simg`, `simg2simg`, `append2simg` | files | one pass of reader, (resparse,) writer each | the library | `Toolchain` |
| `abootimg.c` | header, kernel, ramdisk, second stage, page size | info, extract, update, create | files, block devices | `BootImg` |
| Scripts in `bin/` | the tree `output/`, a loop mount | build, cleanup, unpack, repack, recreate, flash, remount, unmount, extract/recreate initrd | all programs | `Toolkit` |
| `aml-flash` | what it believes of the board: mode, lock | identify, reset, load, partition, wipe, write | the `update` tool, the board | `Toolkit` |
| `aml_image_extractor.c`, `simg_dump.py`, initrd helpers of abootimg | none between steps | one pass over a file | files | |
| `aml_image_v2_packer`, `logo_img_packer`, `update` | binaries without source | external | | |

What is hard in it, and what has to hold:

* **Lists.** Extents arrive in any order, are merged, split, and moved between
  cookies, while a cached pointer into the list shortcuts the search. The list
  must stay sorted and disjoint, the pointer must never dangle, an assert in the
  middle must never fail, and none of it may change the image. Lengths are
  `unsigned int` bytes, positions are blocks.
* **Resparse.** One function measures with a reserve, another writes. The tool
  runs it twice, first to count; the first pass cuts the extents of the second.
  The parts must make up the image, be small enough, be as many as counted, and
  there must be finitely many of them, also when a mapping or a split fails.
* **Writing.** The header announces what is not yet written; any call may fail;
  images and extents may end inside a block.
* **Reading.** Input that stops early or lies about its sizes; extents that are
  added before their data were seen; a fallback that takes what the first reader
  refused for something else.
* **Tools.** They keep offsets into files and read those again when they write.
  An image may change in between, a tool may be killed and run again, several
  parts are written over each other into one image.
* **Boot images.** They are updated in place. Parts move when one before them
  grows, padding is longer than the room it is for, and all offsets depend on a
  page size that an update may change.
* **Scripts and flashing.** Long sequences of steps whose failures are not looked
  at, on a file whose file system is mounted, and a board that may be unplugged.

`PROJECT.json` lists each hazard at its line with the properties that cover it, or why none does.

## Modules

| Module | Models |
|---|---|
| `Extents` | extents, whole-block arithmetic of `sparse_defs.h`, `unsigned int` width (`UIntMod`), what content a block receives (`CellOf`) |
| `BlockMap` | abstract specification of a cookie: a map from blocks to contents; adding fills unused blocks |
| `BackedBlocks` | the algorithms of `backed_block.c` as operators on a record `[list, last_used]` |
| `BlockList` | one cookie under `sparse_file_add_*` and `backed_block_split`; refines `BlockMap` |
| `SparseFormat` | sizes of the file format, `sparse_file_len`, the bytes of the image of a cookie |
| `Resparse` | `simg2simg`'s two passes of `sparse_file_resparse` |
| `SparseWriter` | `sparse_file_write` over the fd outputs of `output_file.c` |
| `SparseReader` | `sparse_file_import`, `_import_auto`, `_read` over a file of words |
| `Toolchain` | the four tools on shared files: instances of reader and writer |
| `BootImg` | `abootimg`: create, update and extract over an image of cells |
| `Toolkit` | the scripts and `aml-flash` over the work tree, the mount and the board |
| `Sums` | the sum of a sequence of numbers, which lengths of files are |
| `ListLemmas` | lemmas on sequences, sums, rounding and products |
| `BackedBlocksProofs` | lemmas on the operators of `BackedBlocks`: search, merge, split, move |
| `BlockListProofs` | the proofs about `BlockList`, and that it implements `BlockMap` |
| `ResparseProofs`, `SparseWriterProofs`, `SparseReaderProofs`, `BootImgProofs`, `ToolkitProofs` | the proofs about `Resparse`, `SparseWriter`, `SparseReader`, `BootImg` and `Toolkit` |
| `MC*` | instances for TLC |

`Extents` and `BackedBlocks` are under everything that handles cookies;
`Toolchain` composes `SparseReader` and `SparseWriter` by two instances that share
its variables, and takes from `Resparse` what that module establishes (a cookie is cut
at a block border into cookies as long as the image). `BootImg` and the programs
of the sparse library appear in `Toolkit` as commands that make a partition,
refuse, or fail.

**List.** A node is a record with the fields of `struct backed_block` and the
address `id` it was allocated at; the chain along `next` is a sequence; the union
is folded into `src` and `off`. `Add` is `calloc`, the field assignments and the
whole of `queue_bb` with both calls of `merge_bb`, in one step, since the program
has one thread. An assert that fails makes `status = "aborted"`. The caller keeps
the rule of `sparse.h:62-64` (`Unused`): a region is not added twice.

**Resparse.** A step looks at one extent (one round of the loop of
`move_chunks_up_to_len`). The steps that end a file include everything up to the
next extent that is looked at: the split, the move to the new cookie, handing it
out or moving it to `tmp`, and at the end of a pass giving `tmp` back to `in_s`
(`FinishFile`). The list a pass starts with may have any `last_used`. `MapFails`
is `mmap` or `open` failing when the output counter measures an extent,
`SplitFails` is `backed_block_split` without memory.

**Writer.** A step writes one chunk, or seeks over one gap. Of the calls a step
makes the first `n` succeed; the effect of those stays in the file, as it does in
the code. `file` is the header and the chunks in the sparse format, and the bytes
of the image in the plain one. Bytes are named by their origin, and the checksum
is the sequence of bytes it was computed from: equal sequences have equal
checksums, and different ones are what a checksum is there to tell apart.

**Reader.** A file is a sequence of words: data, words of a header, words of a
chunk header, a checksum. What is read at a position is a header only if its
words are all there (`Record`); anything else is a chunk of unknown type, as it is
to the code. A step reads the file header, one chunk, or one block of a plain
file. `Refuse` is every error path: the cookie is destroyed, and `import_auto`
starts again from the beginning of the file. `origin` keeps the image of the file
before it was cut short or a word of its data rotted.

**Toolchain.** The reader leaves a cookie that refers to the input by offset, the
writer a file of those references; they are looked up (`Byte`) when the tool is
done, is killed, or, for `img2simg`, when the mounted file system writes to
the image (`Touch`), so that a byte has the value it had when it was written.
`want` says what each file should stand for. A tool that is killed, or
whose write fails, leaves the first `n` words of what it was to write. Nothing empties the temporary file of
`append2simg`: what an earlier run left stays behind what the next one writes.
While a tool writes, `FitToWrite` relates three things that different actors changed: the cookie or
parts it is to write, where the part before ends, and the files that the
bytes are still to be read from.

**BootImg.** A step is one function of `main`, and in `write_bootimg` one part;
the tool may be killed between any two. What stdio holds back (`tail`) reaches the
file at the next seek, or when the program exits; of the last part any prefix may
be written before `ftruncate`, and the rest after it. Cell 1 is the header.
`given` is what the image was last told to hold. An update of entries alone of an image with
a second stage hands `fwrite` a null pointer (`WriteSecond`): it crashes copying from it,
or the `write` that stdio passes it to refuses it (`abootimg.c:688`), according to the
size of the second stage and of the buffer, of which the model has neither, so it may do both; the
header is in the file by then.

**Toolkit.** A script is the list of its commands, and a step one of them. One
script runs at a time. Files hold sets of marks: every unpack and every edit makes a
new one. A mounted image has the content of its file and that of its file system
(`cache`); `sync` and `umount` are when the second certainly reaches the first. A
command may fail, the user may stop the script, edit while it runs, reboot in
between (an orderly shutdown), and unplug the board. Every command of `aml-flash` may get no
answer, which `run_update` takes for success, or an answer with `ERR`.

A boot image unpacked as mark `m` holds `m`, and `-m` as well if it has a second stage.
`UnpackBoot` is `abootimg -x`, which writes the one to `boot` and `ramdisk` and the other to
`stage2`; `Make` is `recreate:17`, which takes `boot` and `ramdisk` and has no `-s`. `made` is what
was edited since `output/` was last cleared, and `made.removed` those edits of the initrd that
`extract_initrd:4` has removed before any ramdisk had them. `half` is what the
two initrd scripts have removed and not yet made again.

A board is in its rom or in u-boot and may be locked in either. `Identify` is the wait for the board and
the first look at its lock (`aml-flash:208-256`), `Reset` the way back to the rom, where `Check` looks
again (`295-324`): a board that was unlocked in u-boot may be locked there, and the program ends.
`Check` may also end it for what is asked of the boot loader files (`501-523`), which depends on
the board and the image. `Load` is the commands of `525-603` as one: each ends the program on
the same answers, and none before the last takes the board out of its rom.

## Runs

| Run | Shows | Bounds |
|---|---|---|
| `block_list` | sorted, disjoint, no dangling pointer, no failed assert, refinement of `BlockMap` | 4 blocks of 2 bytes, 4 addresses, lengths with and without a partial block, sources that do and do not continue each other. Merging involves three neighbours, splitting two; four extents show every position of a node |
| `resparse` | parts are complete, in order, small enough, as many as counted, at least 7/8 full; it ends; a failure loses no block | images of up to 3 extents shorter and longer than a part, with and without gaps; two limits, with and without a remainder; one failing mapping or split in either pass. An extent is cut up to three times |
| `sparse_writer` | the file stands for the image; header, sizes, checksum and `sparse_file_len` agree with it; the assert holds | 4 blocks of 4 bytes, up to 3 extents of every type, gaps at every place, data that ends inside a block, one failing call |
| `sparse_reader` | what is accepted stands for the image of the file and is fit to be written; the assert holds | files of up to 3 chunks of every type, empty and unknown ones too, headers of another version, too short or longer, a wrong block count; plain files of up to 5 words; each file whole, cut at any word or with one rotten word; with and without checksum, import and import_auto; one failing allocation |
| `toolchain` | what a tool that exited with 0 has made stands for what it was made of; what is about to be written is in order, inside the image and still readable | images of 2 blocks of 2 words and one of 3 words, three commands, one kill, one write by the mounted file system. Three commands are enough for a cut, its parts put together in either order, and what is built on top; and for a killed run, a second one, and a reader |
| `boot_img` | parts are stored, kept and extracted whole; what a refused, crashed or killed update may have changed; sizes as asked | pages of 2 and 4 cells, parts that end inside a page and at its end, empty ones, files and devices without a size of their own and of two lengths, two writing commands or kills, any number of extracts. Two commands are an image and an update of it; a third meets an image of the same kinds |
| `toolkit` | no edit of the tree is lost, nothing stale is packed, the mount shows the image | boot images with and without a second stage; all scripts but `flash` (and `recreate`, `cleanup`, which others begin with), four in a row, three marks, one failure. The loss of an initrd takes three scripts in a row, a failure and an edit; a fourth shows what is packed then |
| `flash` | the board gets what recreate makes of the tree, and nothing stale whatever it answers; every flash ends | `flash` twice or after a remount, two marks, one failure, any number of lost answers, unpluggings and plugs; a board in its rom, in u-boot, and in u-boot but locked in its rom |
| `block_list_wide` | *violation*: merged lengths wrap | an `unsigned int` of 4 bits, 9 blocks of 2 bytes |
| `reader_auto` | *violation*: a damaged sparse file is read as a plain one | the files of `sparse_reader` |
| `boot_config` | *violation*: an update of the page size loses the parts | the arguments of `boot_img` |
| `repack_fails` | *violation*: an image with an empty boot partition is packed | three scripts, no failure |

The configurations of `resparse` and `sparse_writer` use the true sizes of the
headers (28, 12 and 4 bytes) and small blocks; those of `sparse_reader` and
`toolchain` count in words, with headers of two. `SevenEighths` is the promise of
the comment at `sparse.c:316-320`, made precise: of the room left beside the
overhead, up to the one chunk header that is added before the comparison. It and
`SizeBound` need room for a block (`RoomForEight` asks for eight); the code does
not ask. A limit below the overhead of 56 bytes wraps around in `sparse.c:294`
and bounds nothing. With a crc chunk and an end skip a part can reach `max_len`
exactly where `sparse.h` says less: the overhead counts both, but the comparison
is not strict; without the crc chunk, as `simg2simg` writes, 16 bytes are to spare.

Properties that leave a case out say so, and the case is one where the code does
otherwise (next section): `Complete` and `InOrder` a failed mapping, `SizeBound` a
failed split, `Faithful` failures of gaps and of the end, `CrcOfData` gaps and long
fills, `Exact` a failed allocation, `NoAbort` and `ReadyToWrite` of the reader a
chunk of no blocks, `FitToWrite` and `Preserved` images that end inside a block, `Stored` and `InFront`
a changed page size, `RefusedUpdateKeeps` the padding of a device that is too short for
it and the header of an image with a second stage that is not loaded, `SizeAsAsked` one
page more than asked, `Packed` a boot partition that does not fit and the second stage, `Kept` edits
of the initrd that `extract_initrd` removes, `MountShowsImage`
a failed `umount`.

Every property of a passing run has a mutant in `PROJECT.json`: a definition of
the model changed the way a bug would, defined next to it and marked *mutant*.

**Fairness.** `Terminates` of `Resparse`: one sequential call, weak fairness of its
next-state relation says that the process keeps running. `Ends` of `Toolkit`:
weak fairness of `Step`, the shell going on with the next command; the wait of
`aml-flash` for a board (`aml-flash:216`) has no limit, so the property assumes that the
board is in the end plugged in for good. Nothing is assumed of the user, of
failures or of the answers of the board.

**Deadlock** is not checked: every model ends, when the arguments, addresses or
bounds are used up or the call has returned.

## Where the code and its documentation part

Shown by a run:

* Extents merge past 2^32 bytes and lose their length (`backed_block.c:236`; `block_list_wide`).
* `sparse_file_import_auto` reads any file the sparse reader refuses as a plain one (`sparse_read.c:482`; `reader_auto`).
* An update that changes the page size touches kernel and ramdisk: they are not moved, are looked for elsewhere, and padding may overwrite them (`abootimg.c:440`; `boot_config`).
* A repack whose boot image is too small does not fail (`bin/recreate:17`; `repack_fails`).

Seen while modelling; the properties leave these cases out:

* A failing mapping ends resparse early with a plausible count (`sparse.c:311`).
* A size limit with no room for one block makes resparse split off empty extents for ever (`sparse.c:323`).
* A failing split goes unnoticed, and a part is larger than asked (`sparse.c:323`).
* Failing skips, crc chunks and truncations are not reported (`sparse.c:134`, `145`, `output_file.c:459`, `537`).
* The crc covers one block of a fill and no gaps (`output_file.c:392`), which the reader of this library does not agree with (`sparse_read.c:165`, `188`).
* Partial fills are not padded with zeros (`output_file.c:376`, `505`).
* An image that ends inside a block fails the assert at `sparse.c:143`. If it ends in a gap the header counts one chunk too many, since `write_sparse_skip_chunk` refuses the gap (`output_file.c:349`).
* `append2simg` tests the length of its input and not that of the image it appends to (`append2simg.c:101`): appended to a plain image that ends inside a block, the input lies over its last block.
* A block of a plain file whose extent cannot be allocated becomes a gap (`sparse_read.c:392`).
* A raw chunk of no blocks adds an empty extent, and one of unknown type shifts what is read after it (`sparse_read.c:115`, `265`).
* A repack or a flash drops the second stage of a boot image: `unpack` extracts it to `output/boot/stage2.img` (`unpack:32`), which `README.md:33` of the repository says may be edited, and `recreate` gives `abootimg --create` no `-s` (`recreate:17`).
* `extract_initrd`, run a second time, deletes without a word what was edited in `output/initrd` and not yet put into the ramdisk (`extract_initrd:4`).
* An update of the configuration alone of an image with a second stage writes from a null pointer (`abootimg.c:687`): it crashes, or ends with an error after the header has changed.
* `abootimg --create` looks at a `struct stat` that was not filled when the file does not exist (`abootimg.c:330`); the second stage is extracted into a buffer of the size of the kernel (`abootimg.c:851`); a file gets one page longer than asked when the last part ends at a page and fills the image (`abootimg.c:678`, `696`).

## Proofs

The theorems hold for every value of the constants, under the assumptions named
with each. Every module of proofs has an inductive invariant, the conjunction of
what the theorems state and of what they need of one another, built up in layers
where one part rests on another.

### List

`BlockListProofs` proves, for every block size, number of blocks, set of inputs,
addresses and split limits, that the list is always well typed (`TypeCorrect`),
sorted and disjoint (`AlwaysOrdered`), inside the image (`AlwaysPlaced`), that
`last_used` never dangles (`LastUsedAlwaysLive`), that the assert of
`merge_bb` holds (`AssertHolds`), and that every step is one of the map from blocks
to contents, or leaves it as it is (`ImplementsMap`, the refinement of `BlockMap`).

Assumptions: sizes are positive numbers; inputs are not empty, end inside the
image and a fill has no offset (`InputsAssumption`); split limits hold at least a block
(`SplitsAssumption`); null is not an address; and the image, with a block to
spare, is shorter than an `unsigned int` can count (`ImageFits`). The last one is a
real limit of the code, not a convenience: without it `block_list_wide` is a
counterexample.

The inductive invariant is `IInv == TypeOK /\ Placed /\ Ordered /\ LastUsedLive /\
NeverAborts`. None of the parts stands alone: that the search stops at the right
place needs the order and a `last_used` that is in the list; that the assert
holds needs the order and extents that are not empty; that the order survives a
merge needs lengths that did not wrap, hence the placement of every extent. The
argument goes bottom up, in `BackedBlocksProofs`: rounding and division (`DivFacts` to
`PlacedFacts`), a list with one extent more, one merged pair or one split extent is
still good and has the blocks it should have (`InsertGood`, `MergeGood`, `SplitFacts`),
the search finds the one place (`PredecessorFacts`), and `QueueFacts` puts these
together for `queue_bb`. `ListLemmas` has what the library lacks on `InsertAt` and
`RemoveAt`, and the least number principle used for the search.

### Resparse

`ResparseProofs` proves, for every set of images, limits, headers and number of
failing calls, that the lists and locals of resparse keep their types
(`TypeCorrect`) and that no list it moves extents between keeps a cached pointer
to an extent of another one (`CacheAlwaysLive`); and, when a file has room for eight
blocks, which is a hypothesis of the theorem (`RoomForEightBlocks`) and not of the
model, that no extent becomes empty (`NeverEmptyExtent`). These three do
without `ImageFits`: none of them depends on what wraps around.

The invariant says of every list that it is in `Heaps`: its nodes have their
types, and its cached pointer is null or one of its nodes. It also has to say that the
scan is inside the list, since a chain of `scan.bb` or `scan.last` extents is
cut off, and that nothing is counted before the first extent (`ScanGood`), so
that the first one, which is always split, is not split at nothing. `FinishGood`
is the argument for the end of a file, whichever of the five ways leads there; it
rests on `MoveToGood` (the search of `backed_block_list_move` ends in the list),
`MoveFromGood`, `SplitGood` (a split takes no node away) and `CountFacts`. A split that
allocates is a step only while there is an address to return; without one it is
`SplitFails`.

The second part, which does use `ImageFits`, proves that no block is lost or
doubled whatever fails (`ImageKept`) and that, unless a mapping fails, the image is handed
out in its own order (`OrderKept`). Both look at one list, what was handed out, then
`tmp`, then `in_s` (`Everything`): `KInv` says that it is the image, cut up, in any
order, and `OInv` that, without a failed mapping, it ascends, which is why a move to the
end of a list is one (`MoveToEnd`). A failed mapping takes the order away and not the
blocks, so the two are separate.

It also proves that every file is as small as asked (`EveryFileFits`) and
that all but the last use seven eighths of their room (`SevenEighthsUsed`). Both need
`RoomForEightBlocks`, since a limit without room bounds nothing, and `FillFits`: the 4
bytes of a fill are not more than a block (`img2simg.c:64` asks for at least 1024). The invariant `SInv` says that the running `file_len` of the scan is the
length of the chunks of the extents it has passed, and `last_block` where they end;
what was handed out has the sizes claimed (`Short`, `Long`).

The last part is about the two passes, which share one list: the first cuts extents
in it and gives everything back, and the second walks over the pieces. With no failed call
it returns the same number of files (`SameCount`), for which `simg2simg` has made room, and
leaves nothing behind (`AllHandedOut`), under the same two hypotheses. `FileEnds` says of the front of
any list where a file made from it ends: behind an extent that does not fit and need
not be cut, or before one that does not fit. Both passes end files there; a list has at
most one such place (`EndFound`), and none if it fits (`EndOverflows`). A cut of the first
pass makes one (`SplitEndsAt`): the piece is as long as the room, up to a block, so either it does
not fit itself, with the header of a gap before it, or what follows does not and there is less than an
eighth left. The invariant `PInv` keeps the ends of the files of the first pass as marks in the list
`Everything`. A later cut leaves them (`SameTo`, `MarkMore`): what it changes is behind
them, but for the extent before which the last file ended, and of that enough
is left not to fit either (`NextStillTooLong`). The second pass is always at a mark (`AtMark`), so it
never cuts and ends its files at the marks, one after the other.

### Writer

`SparseWriterProofs` proves that the walk over the list never leaves it, whatever
call fails (`TypesKept`), and for cookies of whole blocks (`WholeBlocks`) that the file a
successful write leaves stands for the image, in both formats (`ImageWritten`), that
headers announce what is written (`HeaderTrue`), that the assert holds
(`NeverAborts`), that the checksum covers the data where it can (`DataSummed`), and that
`sparse_file_len` measures the file that is written (`LengthTrue`).

`WholeBlocks` is what the code needs and does not check: an image that ends inside a
block fails the assert at `sparse.c:143`, a fill that ends inside one is not
padded, and a length within a block of 2^32 rounds up to nothing. `LengthTrue` needs
`WholeImages` too, cookies of the one length that the model of resparse measures with. Of the
cookie it is assumed what `BlockListProofs`, `SparseReaderProofs` and `ResparseProofs` establish: its
extents are ascending, not empty and inside the image (`WriterAssumption`).

The invariant `IInv` adds to the types where the walk stands; `PInv` adds, by the
place of the walk, what is in the file so far: the bytes of the image up to there, as many
chunks as were counted up to there, and their checksum; `QInv` adds that they are as long
as the summands of `sparse_file_len` up to there. The lemmas on `ByteAt` (`HoleBytes`, `ExtentBytes`,
`GapImage`, `ExtentImage`) say that the bytes of a chunk are those of its extent or gap,
since extents are ascending and whole blocks do not share a byte.

### Reader

`SparseReaderProofs` proves that whatever file is read, whole, cut short or rotten, with
allocations that fail or not, the locals keep their types (`TypesKept`), a cookie
that is returned is one the writer and resparse can take (`ReadyForWriter`), and the assert
of `merge_bb` holds (`NeverAsserts`); the last two unless the file has a chunk of no
blocks, where the code does otherwise. With `BlockListProofs`, `ResparseProofs` and
`SparseWriterProofs` this closes the chain from a file read to a file written.

It proves too that what is accepted is read exactly (`ImageRead`, for `Exact`), of a file
as its writer meant it or what damage left of one (`FromRegular`): `Regular` asks of
a sparse file what `sparse_format.h` says of one, that chunks of known types follow
each other inside the file and that a checksum is the last word of its chunk and right. The files of
`sparse_reader` that are written that way are (`MeantIsRegular`, evaluated by TLC); the others, with a
chunk of no blocks or of unknown type, `Exact` is only model-checked for. The theorem needs
`HoleApart` as well: the constant `Hole` is none of the bytes an extent has.

A file may hold anything: headers and chunk headers of any sizes, at any place, also where
the reader does not expect one. The one thing assumed (`FilesAssumption`) is that
the chunk headers in it announce no more blocks than the image has, and that a plain file is
no longer than it, so that `ImageFits` covers what is read; the code checks neither, and
beyond it lengths wrap as in `block_list_wide`.

The reader compares `cur_block` with the header only at the end, so nothing it has read so
far bounds it. The invariant `RInv` bounds it by the file: `cur_block` is at most the number of
blocks announced by the words already passed (`InChunks`), since a chunk header is left
behind as a whole and is counted once, by its first word. The list is `Good` and ends where
the reader is (`Ordered`), so that every extent goes to the end and `QueueFacts` applies; in a
plain file the position is the block (`AtBlock`). A chunk of no blocks adds an extent that is
empty, after which nothing is said of the list but its type.

What a file stands for is a walk along its chunk headers (`StartOf`, `Expansion`), defined
without the reader and over the file before the damage. `XInv` adds to `RInv` that the reader is at the
same chunk of that walk (`ReadSoFar`) and that the list reads as the image of the chunks
passed (`SparseUpTo`), with `NULL` for data that are missing; that with a checksum it reads as
the words summed, whatever has rotted; and that a checksum just passed was the right one, so that the two
agree (`CheckedToEnd`). A step adds the bytes of one chunk: `AddBytes` says that
`queue_bb`, whatever it merges, puts the bytes of the new extent behind those of the list
and changes none of them, since what a byte is depends only on the cell its block is given
(`ByteOfCell`, over `QueueHolds` of `BackedBlocksProofs`); `NothingBehind` that blocks that are skipped are holes.
Damage makes no header, and a header that is left is as it was (`SameRecord`).

### Boot images

`BootImgProofs` proves that parts are stored whole (`PartsStored`) and extracted whole
(`PartsExtracted`), what a refused update leaves of the image (`RefusalKeeps`), that nothing in front of the
parts an update is given changes, whenever it stops (`FrontKept`), sizes
(`SizeKept`) and types (`TypesKept`), for all pages, parts, devices and any number of
commands and kills. It is assumed that headers and parts are made of cells
(`BootAssumption`) and that a null pointer is none of them (`NullIsNoData`).

`BInv` says of each point of `main` what the steps before it have established: what the
command asks for (`Commanded`), that sizes in the header are those of the parts in memory
and fit the image (`Prepared`, `Announced`), that what was read is what was stored
(`PartsLoaded`), which parts are already in the file (`Written`), that what stdio
holds back is the padding behind the last part (`TailFits`), and that outside of a
command the image holds what was given (`Kept`). The heart is that a write between two
parts disturbs neither (`InPlaceKept`), because parts lie behind one another
(`Offsets`), and that the late rest of the last part lands where it would have
landed early (`LateWriteFacts`).

`FInv` is about what an update leaves alone, also where it is killed or crashes and `BInv` has nothing to
say of the image. It adds where the next write may go (`Untouched`): what stdio holds back
is the header page, or lies behind the first part that the update was given. That
the header page ends before the kernel needs the page size to stay, and that the
sizes in the old header still bound the parts needs it to be `ValidHeader`.

### Scripts

`ToolkitProofs` proves, for any set of scripts, any number of edits, scripts and
failures, any boards, and with or without an image to begin with, which edits are kept (`EditsKept`),
that nothing stale is packed or flashed, also by a flash that fails half way (`NothingStale`), that what is mounted is the
image of the tree unless `umount` fails (`MountShows`), and types (`TypesKept`). It is assumed
that the scripts are those of `Commands` (`ScriptsAssumption`) and that an absent file is not
taken for a content (`NullIsNothing`).

A script does not look at what the command before it did, so each of these properties rests
on where a script is. `Where` says that what is left of it is its lines from `At`; the
lemmas `...Place` read off `Commands` at which lines a command may run. Each invariant then says
what is so at which lines: `Standing` what a script has checked at its start, `Emptied` what
has been removed and not been made again, `Unmounted` that nothing is mounted where a script
is about to remove, convert or mount, `Carried` where each edit is while ramdisk and initrd
are made from each other: one of the initrd that is not in `made.removed` is in the initrd unless
`extract_initrd` has not made what it removed, and then in the ramdisk, until `recreate_initrd` has removed that
as well (`InitrdCarried`). `Fresh` says what of the tree at the start of `repack` or `flash` is
in the partitions, the image and the board by which line. They build on each other in that
order: that an edit of the system survives `unpack` needs the mount to be gone, and that a
partition is not stale needs that no edit of the tree was lost on the way. The hard case is
a failure: `MayBe` is what is left of `Is` after one, and it holds because each partition is
removed by a line of its own before it is made; for the board, `BoardKept` says that
a partition is the one it had, or one that `MayBe`.

### Only model-checked

* `Toolchain`: its reader and writer are the ones proved about, taken as they are when a tool
  exits, but its commands work on files made by one another, which would each have to be shown
  `Regular`; `Exact` of files that are not; that scripts end.
* Liveness, which is out of the reach of the prover, and with it that resparse ends.

## Not modelled

* Freeing lists; gzip and callback outputs and `sparse_file_foreach_chunk`, which
  no program here uses or which serve only to measure; partial writes below the
  size of one call, which `file_write` completes or reports.
* The values of bytes and of the checksum: they are named by their origin.
* Sizes beyond an `unsigned int`, but for those of the list; block sizes other than
  the one of the model, so also that `append2simg` takes a plain image to have 4096.
* A `sparse_file_new` of resparse that returns null (`sparse.c:349-357`): nothing is claimed of that case.
* `abootimg -i`, which only prints; pages
  smaller than the header; the entries of a configuration apart from page size,
  image size and one that stands for the others.
* `aml-flash` for other chips than gxl, with passwords, efuses or
  single partitions: `bin/flash` never calls it so. Of the secure boot check (`aml-flash:353-376`) only
  that it may end the program; which boot loader is loaded makes no difference to the partitions.
* Two scripts at once; power cuts (the order in which a file system writes its pages);
  what a user does as root besides editing.
* `aml_image_extractor.c`, `simg_dump.py` and the initrd helpers are straight passes
  over a file. The prebuilt programs have no source.

## Plan

1. *(done)* `BlockList` with its proofs, `Resparse`, `SparseWriter`.
2. *(done)* `SparseReader`, `Toolchain`, `BootImg`, `Toolkit` with `aml-flash`.
3. *(done)* Proofs of `BlockList`, its refinement of `BlockMap`, the single steps of
   `Resparse`, `SparseWriter`, `SparseReader`, `BootImg` and `Toolkit`.
