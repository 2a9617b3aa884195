# Project X-Ray in TLA+

Project X-Ray documents the bitstream of Xilinx 7-series FPGAs. Fuzzers build
many small designs with Vivado, `segmatch` correlates the features of the
designs with the bits of their bitstreams, and the results are pushed into a
database of *segbits*. With that database `fasm2frames` turns a textual
description of a design (FASM) into configuration frames, `xc7frames2bit` turns
frames into a bitstream, and `bitread` and `bit2fasm` go the other way.

This directory has TLA+ models of the parts in which that can go wrong, TLC
configurations that check them on small instances, and TLAPS proofs of the
properties that matter most for every instance. All paths are relative to the
root of the repository, all line numbers are those of the commit beside which
this directory stands; `PROJECT.json` maps each definition to its lines.

    tlc -config SafeFileSerial.cfg MCSafeFile      # one run
    tlapm SafeFileProofs.tla                       # one module of proofs

## 1. Inventory

What each part keeps, does, and has to get right, and the modules that model
it. What is left out, and why, is at the end of this section; what is left out
*within* a modelled part is in section 6.

### Shared files and the database

**OpenSafeFile** (`prjxray/util.py:30-73`) - the context manager through which
fuzzers and database tools open shared files. State: the file, its flock, for
each process the descriptor's offset and the buffer of the Python file object.
Operations: `open`, `flock` with an alarm, the body, unlock, `close`.
Interaction: any number of processes under `make -j`. Hard: `open(.., "w")`
truncates *before* the lock is taken and `close` flushes *after* it is released;
bodies raise, processes are killed, waits time out. Right if: no reader sees two
texts mixed, the file ends as one text, nobody waits forever. `SafeFile`.

**Pushes into the segbits database** (`utils/mergedb.sh`, `mergedb.py`,
`parsedb.py`) - every fuzzer pushes its result into files that all share. State:
`segbits_*.db`, `segbits_*.origin_info.db`, a lock file in `/tmp`. Operations:
test, lock with timeout, check, merge into the origin file, merge into the
database. Hard: the test for the lock is made before the lock, and on another
name than the file that is written for `mask_*`; a push can fail or be killed at
any step. Right if: no accepted entry is lost, no tag has two bit sets, the origin
file is never behind. `MergeDb`, against the abstract `DbStore`.

### From a design to entries of the database

**segmaker** (`prjxray/segmaker.py`) - the bits and recorded features of one
design become segments, one for each place in the configuration memory.
**segmatch** (`tools/segmatch.cc`) - the candidate bits of a tag over many
segments, with the options that decide when it is resolved.
**dbfixup** (`utils/dbfixup.py`) - adds the bits that must be clear and drops
what is not resolved or not told apart. No state beyond one run of the program;
hard is what they do to each other's results: features that share bits, too few
specimens, modes that are lost. Right if: what is pushed about a feature has all
its bits, explains every specimen, and excludes what the group excludes.
`Segmaker`, `Segmatch`, `DbFixup`: operators, on which the next part stands.

**Makefiles of the fuzzers** (`fuzzers/fuzzer.mk`, `clb.mk`, `clb_ext.mk`,
`int_loop.sh` and the rules around it) - specimens, a database of their own,
the push, `run.ok`. State: the build directory, `run.ok`, todo lists, a private
copy of the database. Hard: `clb.mk` runs the whole fuzzer again in a nested
`make` when the result does not pass, and pushes once more at every level on the
way out; the interconnect loop must end although some pips are never solved, and
may take back what fewer specimens said. `FuzzerMake`, `ClbRun`, `IntLoop`.

**run_fuzzer** (`fuzzers/run_fuzzer.py`) - runs the above as a child: skips what
has a `run.ok`, retries, reaps on Ctrl-C or a signal. Right if: exit code 0
means that everything is in the database. `RunFuzzer`, composed with all of the
above.

**tilegrid fuzzers** (`fuzzers/005-tilegrid/add_tdb.py`, `generate_full.py`) -
the fuzzers solve the address of a tile here and there; pass after pass over the
grid gives the others theirs. State: the tilegrid. Hard: half a dozen walks along
columns that have to agree where they meet, and half tiles that borrow the
segbits of another type at an offset (`prjxray/grid.py`,
`tile_segbits_alias.py`). Right if: each tile gets the address it has, or none.
`TilegridFull`.

**tilegrid model** (`utils/tilegrid_model.py`, `tilegrid_derive.py`) - for a
device without fuzzing: learns an address law from reference devices by vote, and
applies it. Hard: ties, references that disagree, columns that are hidden; the
order on the command line must not matter. `TilegridModel`, `TilegridDerive`.

### From frames to bitstreams (C++)

**Part** (`lib/xilinx/xc7series/`) - the frame addresses of a device: block type,
half, row, column, minor. Five nested maps, each with `IsValidFrameAddress` and
`GetNextFrameAddress`. Hard: each level hands over to the next at its end; rows,
buses or columns may be missing. Right if: the walk skips nothing, repeats
nothing and ends. `Part`.

**Frames** (`lib/include/prjxray/xilinx/frames.h`) - a map from addresses to
words; `addMissingFrames` completes it along the part. `Frames`.

**Configuration** (`configuration.h`, `configuration.cc`) - puts the frames in one
long FDRI packet *without their addresses* among the packets of a configuration
sequence; `InitWithPackets` replays the configuration registers and puts each
frame at an address again. Hard: both sides have to agree on order, padding and
when a new write starts. Right if: what is written is what is read.
`Configuration`, composed with `Frames` in `Frames2Bit`, the whole of
`tools/xc7frames2bit.cc` up to the packets.

**Bitstream words and packets** (`bitstream_reader.h`, `bitstream_writer.h`,
`configuration_packet.cc`, `big_endian_span.h`) - iterators that turn packets into
words and words into packets. Hard: only the counts tell headers from data, a
type 2 packet takes the register of the packet before it, a packet that is cut
off ends the stream without an error. `Packets`, against the abstract
`PacketStream`.

**xc7patch, gen_part_base_yaml** (`tools/`) - `xc7patch` overwrites frames of a
bitstream and writes it again; unlike `xc7frames2bit` it does not add the frames
that lack. `gen_part_base_yaml` finds the addresses of a part in a debug
bitstream. `Xc7Patch`.

### FASM (Python)

**Segbits of tiles** (`prjxray/tile_segbits.py`, `segment_map.py`, `grid.py`) - for
each feature of a tile the bits it needs set or clear, for each frame the
segments with words in it. `TileSegbits`.

**FASM assembler** (`prjxray/fasm_assembler.py`) - sets and clears the bits of each
line, in any order of lines; two lines that need one bit differently end the run,
unknown features end it after the last line. Right if: the image is what the lines
say whatever their order, conflicts are real and found, frames of configured tiles
are written whole. `FasmAssembler`.

**FASM disassembler** (`prjxray/fasm_disassembler.py`) - a generator that takes frames
from a set, looks at each tile once, and removes what it has explained from the
very data it matches later tiles with. Right if: result and unknown bits do not
depend on the order. `FasmDisassembler`, composed with the assembler in
`FasmRoundTrip`.

**fasm2frames** (`utils/fasm2frames.py`) - adds lines of its own to those of the
file: PUDC_B, STEPDOWN of unused IOBs of a bank, bank glue, the region of
interest. State: the features set so far, as a callback sees them. Hard: the
tile of the package may have another name than that of the fabric; lines that are
added meet those of the file. Right if: they never contradict a good file.
`Fasm2Frames`, composed with assembler and disassembler.

### Left out

- `checkdb` (no two tiles use one bit): one sequential check of a finished
  database, in which the interesting part is the size of the real one.
- Database queries (`prjxray/db.py`, `connections.py`, ...): views of JSON files;
  nothing changes after it is read.
- Timing and its solver: real numbers.
- Spartan6 and UltraScale variants, ECC: the structure of the 7-series with
  other constants; a checksum that no other component reads.
- The C++ segbits reader: used by its tests only.
- Viewers, converters, HTML: they print.
- Designs, generators and Tcl scripts of fuzzers, minitests and experiments: the
  better part of the repository's lines; their subject is Vivado, and there is
  one of them for each kind of primitive. What they hand on is the input of
  `Segmaker`.

## 2. Plan

Done, in this order:

1. `SafeFile`, then `DbStore` and `MergeDb`: the only shared mutable state that
   processes race for.
2. `Part` > `Frames` > `Configuration` > `Frames2Bit` > `Xc7Patch` (each EXTENDS
   the one before), and `Packets` against `PacketStream`.
3. `TileSegbits` > `FasmAssembler`, `FasmDisassembler` > `FasmRoundTrip` >
   `Fasm2Frames`.
4. `Segmaker` > `Segmatch` > `DbFixup` > `FuzzerMake` > `ClbRun`, `IntLoop` >
   `RunFuzzer`.
5. `TilegridModel` > `TilegridDerive`, and `TilegridFull` > `TilegridSilicon` (the laws of a device).
6. Proofs, in `*Proofs.tla`, of `SafeFile`, `MergeDb`, `Part` to `Frames2Bit`
   (`FramesProofs`), `Xc7Patch`, `Packets`, the FASM modules with `Fasm2Frames`
   (`FasmProofs`), `RunFuzzer` with all that it stands on, `TilegridDerive` and `TilegridFull`.

Every safety property that a passing run checks is also proved. What is left, most
important first: `checkdb`; Spartan6 as an instance of `Configuration`.

## 3. The models

### SafeFile

A process is a pc: *start, opened, locked, unlocked, done, dead*. Each of
`__enter__`'s and `__exit__`'s calls is an action (`OpenToRead/OpenToWrite`, `LockFile`,
`LockTimeout`, `UnlockFile`, `CloseReader/CloseWriter`); the body is any number of
`ReadChunk`, `WriteChunk` and `FlushBuffer` (a full buffer) steps and may raise at any
point, `UnlockFile` in the middle of it; `Kill` may come anywhere. A text is a sequence of chunks marked
with its writer, so that a mix of two texts shows. Writes go to the offset of the
descriptor, as the kernel has it, and leave holes where the file was cut meanwhile.
`Serial` says that callers let one writer in at a time, as `mergedb.sh` does with
its lock file.

### MergeDb and DbStore

`CheckDb` is the test at `mergedb.sh:33`, made once and before `Lock`. The steps after it
follow the script under `set -e`: each check that fails is an `Exit`, which drops
the lock with the descriptor. The rewriting of a file is three actions - `CutFile`
(open for writing), `FlushPart` (a buffer), `WriteFile` (close) - because a kill or
another push may come between. Two pushes that have one file open for writing
leave any mix of their lines (`Leaves`). An entry is a pair of a tag and its bits;
the tile prefixes that the script rewrites and the origin names are left out.

`DbStore` is what the database promises: a set of entries, to which `Merge` adds all
entries of a push at once if they contradict nothing, and from which only `Crash`, a
push killed in mid-rewrite, takes any. The refinement mapping takes a push to
happen at `CutFile` of the database: from then until `WriteFile`, `Store` is what the
push is about to write.

### Part, Frames, Configuration, Frames2Bit

`Part` has no state. A part is a function from <<block type, half, row, column>> to a
frame count; `PartOf` builds one from a list of addresses as the constructors do.
`GetNextFrameAddress` is translated level by level (`ColumnNext`, `BusNext`, `RegionNext`
and the tail of `part.cc`), an optional address being a set of at most one.
`WellFormed(p)` says what the walk relies on without testing it: columns start at 0
on every bus, rows with a bus come before rows without it, a block type that is
anywhere is at the start of its half and of the top half. Several properties have
it as a premise; `frames_gap` shows what happens without.

`Frames`: one action, `AddMissingFrame`, one turn of the loop. Frame data is the address
that the file had it for, or empty, so a frame that comes back elsewhere shows.

`Configuration`: `ConfigurationPackage` is the list of packets as the code makes it
(of several NOPs in a row one is kept), `ReaderNext` has one action for each case of
`InitWithPackets` and for each turn of its loop over FDRI data. Of MASK and CTL1
the one bit that is used is kept.

`Frames2Bit`: `Fill`, `StartCopy`, `CopyFrame`, `WritePackage`, then `ReadBack`, the reader on the
packets just written. `InStep(p, S)` - the order of the map of frames is the order of the walk -
is what makes it right to drop the addresses.

### Packets and PacketStream

A word is the record of the fields that a header has, and data words are such
records too, so that they can look like headers. The writer is an iterator of
words (`WriteWord`) over an iterator of packets (`Advance`); `CloseFile` may come at
any byte, which is a full disk, a killed tool or a truncated copy. `Open` looks for
the sync word; `Parsed` is `InitWithWords`, `Increment` the reader's `operator++`. The counts
of type 1 and type 2 headers have widths `Limit1` and `Limit2` and are taken
modulo them, as in the header. `PacketStream` is what a file of packets
promises: what is delivered is a prefix of what was sent, all of it unless the
file was cut, and the reader ends.

### Xc7Patch

A bitstream is the one that `Frames2Bit` has written, or one with DEBUGBITSTREAM that
writes frame by frame and need not have them all (`LoadDebug`, `DebugFrame`). It goes
through the reader, `PatchFrames` overwrites those of the patch that it has,
`WritePatched` writes, and the reader reads again. `Louts` is what
`gen_part_base_yaml` makes of a debug bitstream.

### TileSegbits, FasmAssembler, FasmDisassembler, FasmRoundTrip, Fasm2Frames

A segment is a tile and a block type; a bit is <<frame, word, index>>. `Found` is
`feature_to_bits` with its look-up by name and then by name and address,
`Matches` is `match_bitdata`.
`FasmAssembler`: a line that is added is one action with all the bits it sets and clears;
the exceptions are actions of their own that end the run. Lines come in any order
and any number of times. `GetFrames` is the sparse and the full image.
`FasmDisassembler`: `PopFrame` from the set, `SkipTile` or `CheckTile` for each segment of the
frame, `EndFrame`, which removes solved bits in place and reports the rest. The order
of frames and of tiles is a nondeterministic choice, because the code takes frames from a set and tiles
from the set that a query of the interval tree returns.

`Fasm2Frames`: the lines come in phases, *file, pudc, stepdown, glue, frames*. In each,
`LinesOf` is computed once from the features that the callback has seen by then, and
its lines are added in any order, as they come from sets and dicts. `TileToBank`,
`BankToTile` and `Package` are the tables after `add_fabric_tilename_aliases`;
`PackageAssumption` says of a part what these rely on: an IOB tile with another name in
the package shares its place with no other, all sites of an IOB33 tile are of one bank,
and only IOBs have STEPDOWN. `IobAssumption` says of a database what keeps lines apart: which
of the lines that the tool may add share no bit, set by one and cleared by the other,
with which lines. A line
with the value 0 (`ZeroLine`) sets no bit and is seen by the callback all the same.

### Segmaker, Segmatch, DbFixup, FuzzerMake, ClbRun, IntLoop, RunFuzzer

The first three are pure: `Compile` takes a design (bits, recorded features) to
segments, `Match` segments to lines, `Fixup` lines to entries. A tile may have blocks
of several types, of which `BlockOf` takes the one of the design's default; `CompileFails` has the assertions
of `compile`, and a batch with a design that fails one gives no database (`Compilable`). They are not assumed
to be right: `Truth` has the bits that each feature really has, in which the
designs of an instance are written, and properties compare the entries with it. Two
assumptions connect them: what a design records of a feature is true of its bits
(`TruthAssumption`), and what the Makefiles give as `--groups` and `--zero-db` is true of the
device (`ClearAssumption`): where a feature is on, the bits that dbfixup is told to clear
with it are clear, but for its own, and where one without bits is off, one of them is set.

A run of `make` is a stage: *clean, specimens, database, check, push, touch*, with
a failure possible at each. `ClbRun` adds the level of nesting: `CheckDb` starts a
nested run with more specimens, or goes on; on the way out (`unwinding`) each outer
level pushes the files it finds. `IntLoop` has the list of todo lists, the verdict of
`int_loop_check.py` with its tests in their order, and the private copy of the
database. A check that ends the loop in its first turn leaves nothing to push, and the push fails
(`NothingToPush`). A push is atomic here, which is what `MergeDb` shows; other fuzzers do
not push between (they would add entries of other tags).

`RunFuzzer` calls, retries, interrupts: `Spawn` starts a child, `KillChild` is any signal it
dies of, `Interrupt` is Ctrl-C on the parent, `Reap` waits, terminates and kills.
`CallAgain` is the next `make` of the user, which finds the `run.ok` of the last.

### TilegridModel, TilegridDerive

`Observations(d)` is what a device teaches, in the order in which the code comes to it;
a model keeps them as a sequence, because in a tie the order can decide. `Resolve` is
the vote with its four rules, `Apply` writes the law onto a grid. `TilegridDerive` first learns
the devices of other families (`LearnElsewhere`), whose model is the fallback, then the
references in the order of the command line (`ReferenceLists`; the target itself may be among them, and
a device be named twice, as in `cmd_derive`), or without a list its siblings; it refuses what is not settled
(`RefuseConflicts`) and writes. Tile and device names are their ranks, since only their order
matters. `LawAssumption` is the shape that the documentation gives every address of a
tilegrid: the row's and the column's part plus an offset, the frames capped by those of
the column. Grids in `Astray` do not have it, and are told by their column counts.

### TilegridFull

One action per tile of each pass of `generate_full.py`, and one per step of a walk
along a column (`WalkColumn`, `WalkInterface`), with the assertions of the code: a failed
assertion or look-up sets `failed` and the program stops. `Silicon` has where the bits of
each tile really are; `add_tdb.py` is a choice of which tiles the fuzzers have solved,
and what a pass derives is compared with it. `Order[p]` is the order in which
the loop of pass p takes the tiles, that of `tilegrid.json`, of the names, or of `XRAY_IOI3_TILES`; that each tile comes once
is all that is assumed of it. `Interfaces` are the types that
begin with one of three names, and apart from the types that the code names in full. The calls for GTP, GTX and PCIE, whose types are
disjoint, are one pass with their tiles one after the other. An alias does two things to a feature: `WordsSeen`
are the words in which `match_filter` lets the disassembler look, `WordsWritten` those in which the assembler, without a
filter, sets its bits.

`TilegridSilicon` has the laws of a device on which the passes rely, as an assumption. They are read off
the comments, assertions and constants of `generate_full.py`, and weaken none of its checks: the model keeps every one. Interconnect is in pairs of columns at one
offset (`PairLaw`; the assertions of `propagate_INT_lr_bits`); a column is a stack without gaps, with an HCLK of one word, that ends
at the end of a clock row or above a hard block (`FabricLaw`; `propagate_INT_bits_in_column`); the same for interfaces
(`InterfaceLaw`); and then the distances of REBUFs, the half tiles at the ends of IO columns, the IOI at
Y9, CFG_CENTER_MID and the HCLKs that borrow a word. TLC evaluates them on the device of `MCTilegrid`.

## 4. The runs

| run | module, cfg | distinct states | shows |
|---|---|---|---|
| `safefile_serial` | MCSafeFile, SafeFileSerial | 24,247 | with one writer at a time reads are prefixes of one text and the file ends whole; the wait for the lock ends |
| `safefile_reads` | MCSafeFile, SafeFileReads | violation | a reader that ends well has read an empty file |
| `mergedb_locked` | MCMergeDb, MergeDbLocked | 15,165 | pushes with and without a database there: nothing lost, no contradictions, origin never behind, refinement of `DbStore` |
| `mergedb_mask` | MCMergeDb, MergeDbMask | violation | two pushes into an existing mask database are past the lock together |
| `frames_gap` | MCFrames, FramesGap | violation | the walk of a part with a gap does not find the row after it |
| `packets` | MCPackets, Packets | 21,683 | a file of packets, cut anywhere: refinement of `PacketStream` |
| `xc7patch` | MCXc7Patch, Xc7Patch | 178,914 | completion of frames, the round trip through packets, debug bitstreams, patches |
| `run_fuzzer` | MCRunFuzzer, RunFuzzer | 52,838 | five kinds of fuzzers from bits to `run.ok`, with failures, reruns, kills, retries |
| `dbfixup_zero` | MCRunFuzzer, DbFixupZero | violation | an unresolved feature gets an entry |
| `fasm2frames` | MCFasm2Frames, Fasm2Frames | 29,155 | files of two lines with all that the tool adds, through assembler and disassembler; bitstreams of any origin |
| `tilegrid` | MCTilegrid, Tilegrid | 33,415 | derivation of tilegrids from any list of references; propagation of addresses over a grid |
| `tilegrid_order` | MCTilegrid, TilegridOrder | violation | a tie between two geometries of one device is decided by the order of learning |

### Properties

*SafeFile.* `SerialReadIsPrefix`, `SerialFileIsWhole`: they hold although truncation
and flush are outside the lock, because a second writer is not let in before the
first has closed the file. `WaitEnds` (liveness).

*MergeDb.* `MergedStays`: an accepted push stays. `OriginCoversDb`: the order of the two
merges. `DbIsStrict`: tags and bits stay one to one, in a file that no two had open for
writing. `ImplementsStore`: the refinement, where the database exists.

*Packets.* `CarriesPackets`: the refinement of `PacketStream`, its end included.
`NothingSkipped`: what was read accounts for every word, and if the reader ends before
the last word, the rest is one packet that was cut.

*Frames to bitstreams.* `NoFrameMissing`: what is left to the walk is exactly what is
ahead of it. `FilledInStep`: after completion the map and the walk agree. `RoundTrip`: if they
agree, what is read is what was written. `DebugReadsBack`: in a debug bitstream no frame depends on
those around it. `PartComesBack`: the part that `gen_part_base_yaml` finds is the part.
`PatchedUpToGap`: `xc7patch` keeps every frame up to the first one that the bitstream
lacks; after it frames move, and nothing is promised there. `PatchReturns` (liveness): for every
part, with gaps or not. A frame that the part does not have breaks `InStep`; the tools do
not check for it.

*Fuzzers.* `OkIsPushed`: `run.ok`, which keeps a fuzzer from ever being run again, is
there only with everything pushed. `SuccessIsReal`: exit code 0 is backed by `run.ok`.
`OkIsComplete`: a CLB fuzzer without `dbfixup` is done only when every feature has an
entry. `EntriesCoverTruth`: an entry has all the bits of its feature, however few the specimens.
`EntriesExplainData`: what is pushed is true of every specimen, with its set bits and with its clear bits. For
the clear bits it supposes that the set bits are those of the feature and that no feature of which
it has clear bits got a spurious one (a bit that was always on with it): in a batch where one did,
TLC has shown the unconditional form to be false. An entry of clear bits alone tells its feature from others only
when all features they come of are resolved. `ChoicesExclude`: entries of one
tag group exclude each other. `PushAgainAddsNothing` (action property): the repeated
pushes of nested runs change nothing. `CallsEnd` (liveness).

*FASM.* `ImageIsUnion`, `ConflictIsReal`, `TilesAreWhole`: section 1. `DecodedIsMatch`: what is emitted is
defined without any order (`FeaturesOf`). `UnknownIsExact`: so are the bits reported.
Both assume `SegbitsFit`: a feature's bits lie in its tile's segment.
`EnabledComesBack`, `NothingUnknown`: the round trip. `RoundTripEnds` (liveness).
`BankStepsDown`: one STEPDOWN gives it to every unused IOB of the bank, under
whichever name the tile goes. `AddedAgrees`: added lines conflict with the file or each other in one case only, where the file
uses the other half of the PUDC_B tile. `PudcIsPulled`: PUDC_B is never left open.

*Tilegrid.* `RulesDecide`: where no device is of two minds the rules of `resolve` decide, in
any order of learning. `SettledByVotes`: nothing is written that only a name has
settled, unless allowed. `LawRebuilds`: what references bear out of a target is
derived as it is. `PropagatesSilicon`: whichever tiles of a column were solved, every
tile gets the address it has, or none, and one solved tile is enough for its column; an
assertion fails only where the tile that a pass starts from is unsolved. `HalvesStayHome`: a half
tile finds each of its features in its own words, and has it assembled there.

Every property of a passing run has a mutant: a definition changed the way a bug in
that code would change it, with which TLC finds the property violated. The faulty
forms stand in the modules, before the definitions they are forms of.

### Bounds, and why they are enough

- `SafeFile`: one reader, two writers, texts of 3, 2 and 2 chunks. Two texts of different length are
  what it takes for a shorter one to leave the end of a longer one; two chunks what it
  takes to be cut between. Readers do not affect each other but through the lock,
  which the second writer contends for as well.
- `MergeDb`: three pushes, two that agree and a third that contradicts both, two of
  which (`Firsts`) may come before there is a database. Every step of each meets every
  step of the others.
- `Packets`: up to four packets; four kinds of data words, which look like padding,
  like headers of each type, and like none. Counts of type 1 are below 2 and of
  type 2 below 4 (`Limit1`, `Limit2`) where the format has 2^11 and 2^27, so that the largest
  count occurs. A preamble of `HeaderWords` = 2.
- `Xc7Patch`: the 127 parts made of subsets of seven addresses, with two rows, columns and
  minors, both halves and three block types (most have gaps, which is where the
  handing over between levels can fail); files of up to two frames, one of which
  no part has; patches of up to two. The address fields are 1 bit wide where
  the format has 5, 10 and 7. `frames_gap` needs a third row.
- `RunFuzzer`: one level of rerun (`MaxIter` = 1), two calls (`MaxCalls` = 2), up to one retry; these are
  bounds in guards. Six designs over two tiles with sites and one without bits, in
  batches of one to three. A level more repeats what one level does; the proof is
  for any depth. Two features that share a bit, one without bits and one beside
  them are the cases that `dbfixup` tells apart.
- `Fasm2Frames`: files of up to two lines (`MaxLines`, in a guard): it takes two to conflict,
  and one to make the tool add lines that conflict with another. Three logic tiles of which two share frames
  *and* words and one is a frame wider, a block RAM with two segments, three IOB tiles
  of two banks, one under two names, and an HCLK tile with a bit beyond the last word.
  All bitstreams over seven bits, one of them in no tile.
- `Tilegrid`: five devices of two families (a tie, a device with two geometries, a
  hidden column, a feed-through, a device without references), all lists of up
  to three references without one twice in a row, the target among them or not. For `TilegridFull` one device with two pairs of interconnect columns
  (one cut short by a hard block), an interface column, a clock column and two IO
  columns, in frames of 17 words instead of 101: nine tiles in a column are enough for
  both sides of the clock row. What was solved is any one tile of a column, or none.

`CHECK_DEADLOCK FALSE` is in the cfgs of systems that end: processes and scripts are
done or dead, the tools return.

### Fairness

- `SafeFile`: weak fairness of `LockFile \/ LockTimeout` for each process, nothing else. The
  kernel grants a free lock or the alarm rings; a body may take forever, a
  process need not start. So `WaitEnds` does not rest on other processes.
- `Packets`, `Xc7Patch`: weak fairness of the next-state relation: a sequential
  program takes its next step.
- `RunFuzzer`: weak fairness of `Work`, the steps of `run_fuzzer.py` and of its child. Signals,
  Ctrl-C and new calls are not fair, and need not stay away: there are finitely many in a call.
  That the interconnect loop ends rests on `IntAssumption`: its arguments have some limit, as those
  in the Makefiles have.
- `Fasm2Frames`: of the hand-over and of the disassembler, for the same reason. The assembler
  has none: a file may go on.

## 5. Disagreements between documents and code

| run | what is said | what the code does |
|---|---|---|
| `safefile_reads` | `prjxray/util.py:32`: "safe read and writes" | `util.py:45` truncates before it locks: the reader that holds the lock finds the file empty |
| `mergedb_mask` | `utils/mergedb.sh:32`: a lock is taken if the DB exists | for `mask_*` the test at `mergedb.sh:33` is on `segbits_mask_*.db`, which never exists |
| `frames_gap` | `global_clock_region.h:47`: the next increasing address known within the region | `global_clock_region.cc:40` asks only the next row, and gives up if that has no such bus |
| `dbfixup_zero` | `utils/dbfixup.py:266`: "dropping unresolved line", `:270`: "Entries must be resolved" | `group_tags` (`:491`) has rewritten every line without its mode, so that an unresolved line is kept and gets clear bits |
| `tilegrid_order` | `utils/tilegrid_model.py:306`: "never the order the references happened to be given in" | the sort at `:346` is stable: if one device has two geometries for a key, the one learnt first wins |

In the use that the repository makes of them the first is kept from harm by
the lock of `mergedb.sh` where that is taken (`safefile_serial`), and known parts have no gaps.

## 6. What is proved

11,849 obligations in eight modules; each theorem is for every value of the
constants that satisfies the named `ASSUME`s of its module and of those below it.

**SafeFileProofs** (from `SafeFileAssumption`). `TypeCorrect`: `TypeOK`, with mutual exclusion of
bodies. `SerialReads`: `SerialReadIsPrefix`. The property is not inductive: it must be known
what the file will be when the reader reads on. `SerialInv` adds `OneWriter` (the file is
what the one writer has flushed), `FileIsPrefix`, and `ReaderInStep`: while a reader
holds the lock, the file is a longer prefix of the text it reads, *or* was truncated by
a writer that now waits for the lock, and then there is nothing more to read.
`SerialWhole`: `SerialFileIsWhole`. `WholeInv` adds that a body that ended well has its whole
text in the file or the buffer (`BodiesAreWhole`), and that a file nobody has open has
an owner, the old text or a writer that has left (`FileHasOwner`).

**MergeDbProofs** (`MergeDbAssumption`). `TypeCorrect`; `NoPushLost`: `MergedStays`;
`OriginIsAhead`: `OriginCoversDb`; `Strict`: `DbIsStrict`; `Refinement`: `ImplementsStore`. The invariant
(`Inductive`) is about types, the lock (who is past the lock holds it, and no two have written at once if it is
taken), what is about to be written (who is about to cut the database has merged with what is
in it *now*), and where entries are (what ended pushes added is in it, or in what is about to be
written). The lemmas `StoreQuiet`, `StoreRead`, `StoreCut`, `StoreWrite` and `StoreFlush` say what each kind of step does to `Store`.

**FramesProofs** (`PartAssumption`, `FramesAssumption`), about `Part`, `Frames`, `Configuration` and
`Frames2Bit`.
- *Addresses.* `NextIsLater`: in any part the next address is a valid one and comes later.
  `NextIsNext`: in a part without gaps none lies between. Both level by level, column, bus, region
  and part, as the code is. `PartOfValid`: the constructors, given all addresses of a
  part, make that part.
- *Completion.* `TypeCorrect`, `FramesOfFileStay` (no frame of the file is lost, none is added that
  the part does not have, address 0 aside), `AllFramesAdded` (`NoFrameMissing`), `Forward`. The invariant is their
  conjunction with `WalkStandsOnPart`. `FilledMapInStep`: `FilledInStep`. The frames of the
  completed map are the addresses of the part; the successor in the map is then by `NextIsNext` the
  successor of the walk.
- *The round trip.* `ReadsBack`: `RoundTrip`. While frames are copied, `Copying` says at which place of the
  packet each one is: one behind that of the key before it, and two frames of padding
  further where the row changes; only padding lies between. `PackageRead` says of each of the
  39 packets what the reader's registers are when it comes there, and within the FDRI packet that it
  stands at the place of the frame that the walk has come to, as far as the map
  is in step. `RowInv` puts the two together, one after the other.

**Xc7PatchProofs** (the same). `PatchKeepsRoundTrip`: the above still holds in the larger tool. `DebugBitstream`: `DebugReadsBack`. A
debug bitstream is described by the sequence of its keys (`DebugList`), and what is read of
it by how far the reader has come (`DebugRead`). `PartFromBitstream`: `PartComesBack`, from `PartOfValid` and that the
LOUT packets are those of the keys. `PatchedBitstream`: `PatchedUpToGap`, from the lemmas of
`FramesProofs` about copying and reading, which are about any map of frames. The
invariant `PatchInv` is `Walked` and, by stage, `RowInv`, `DebugInv` or `PatchedInv`.

**PacketsProofs** (`PacketsAssumption`: the streams are of packets that a tool can write, their counts
within the widths of the headers). `SkipsNothing`: `NothingSkipped`. `ImplementsStream`: `PacketStream`'s initial
predicate and steps; with its end, which is liveness, that is `CarriesPackets`. The invariant `Inv` has a function `place`,
from each packet to the word of the file where it begins: the packets passed by the
writer lie there one behind the other (`Laid`), and the reader stands at the place of the
next one it will give away (`Reads`). Data words that look like headers make no
difference, because every place follows from the count before it.

**FasmProofs** (`TileSegbitsAssumption`, `FasmDisassemblerAssumption`, `Fasm2FramesAssumption`,
`PackageAssumption`, `IobAssumption`).
- `FasmRoundTrip`: `DisTypeCorrect`. `Decoded`: `DecodedIsMatch` and `UnknownIsExact`. The invariant `DisInv` says that bits
  are removed only if solved and in frames dealt with (`RemovedBits`), that a tile not
  yet looked at has no data there (`Unchecked`) - so none of *its* bits were removed - and
  that a tile looked at was matched as if with all the data (`Checked`). `Assembled`: all four invariants of
  the assembler, from `FramesAgree`: every bit is as every enabled line that has it
  needs it, and some line has it. `RoundTrip`: `EnabledComesBack` and `NothingUnknown`, from both
  invariants and what is handed over.
- `Fasm2Frames`: `ToolAssembled` and `ToolComesBack` are the same for files with the lines that the tool adds (`ToolInv`).
  `PudcPulled`: `PudcIsPulled`; once the file is read, the IOB of PUDC_B is configured or its line is
  pending (`PudcInv`). `StepsDownBanks`: `BankStepsDown`. From the phase *stepdown* on, each IOB33 of a bank that
  some line steps down is used or its line is pending (`BankCovered`): that lines added
  there start no bank of their own is what makes one pass enough, and it takes `PackageAssumption`
  to see it through the two names of a tile. `AddedLinesAgree`: `AddedAgrees`. A line that
  is still to be added is glue, or is one of a site of which no other line has come
  (`StepsAlone`), or of which no line but those of the same template has (`PullsAlone`); the
  conflict that ends a run is between the last line and one that was enabled, and
  `IobAssumption` leaves no two such lines but those on the two IOBs of one HP tile. It is about
  the tables of a database, and holds for those of IOBs in the repository
  (`segbits_liob18.db`, `segbits_riob18.db`, and `segbits_*iob33.db` of the test data).

**RunFuzzerProofs** (`FuzzerAssumption`, `TruthAssumption`, `ClearAssumption`).
- What is pushed, of whatever segmaker, segmatch and dbfixup give, at any depth of nesting. `Pushed`: `OkIsPushed`; `Real`: `SuccessIsReal`;
  `PushAgain`: `PushAgainAddsNothing`. The invariant has three parts. `PushInv`: nothing is built
  that the kind of fuzzer does not push (`OnlyPushed`), what a `pushdb` under way has built and is
  not still to push is in the databases (`PushedSoFar`), and where `run.ok` is there all
  that is built is (`OkInv`). `IntInv`: the private copy has nothing that is not in the database
  or built (`PrivateInv`), and the last todo list is what it lacks (`TodoInv`). `CodeInv`: a return code of 0
  comes from a child that has touched `run.ok`, and so does the return from a nested
  run, after which `pushdb` runs once more; `PushAgain` follows from it with `OkInv`.
- What the entries say. `Complete`: `OkIsComplete` (`CompleteInv`: from the check on there is a resolved
  line for each feature seen). `SetBits`: `SetBitsExplain`, the half of `EntriesExplainData` about set bits: the set bits of every line are what `segmatch` made of the
  segments that are there *now* (`MadeInv`), which `FixupOnes` shows dbfixup to leave alone.
  `CoversTruth`: `EntriesCoverTruth`, where the recorded features are true of their bits
  (`TruthAssumption`). `Exclude`: `ChoicesExclude`, where no tag is in two groups and the zero_db
  used with `--groups` has no tags of its own, as that of `030-iob` (`FuzzerAssumption`). `Explains`: `EntriesExplainData`. To `SetBits` it adds
  the clear bits (`BuiltInv`): each line that is built is one that `segmatch` makes of the segments there are now, or
  one that `dbfixup` makes of those. Each clear bit of an entry is one of `ClearWith`, whichever of the rules of `dbfixup` has written it;
  by `ClearAssumption` a segment that has the feature matches, and one that matches has
  the feature, as a segment that does not has one of those bits set.

**TilegridProofs** (`TilegridAssumption`, `LawAssumption`; `FullAssumption`, `SiliconAssumption`).
- `TilegridDerive`. `RulesAlwaysDecide`: `RulesDecide`; `SettledWithoutNames`: `SettledByVotes`. `TiesInv` says what the
  program knows at each stage: the models are finite sequences of what devices taught, the geometry is
  resolved from them, and a grid is written from it only with nothing unsettled, or if the
  user allows that. That a vote has a winner takes finite sets of naturals, and that each
  element has a rank in the order of names. `LawAlwaysRebuilds`: `LawRebuilds`. Every observation in a
  model is of a tile of a device that passed the gate of column counts, and every delta
  is one of its rows (`Taught`); where the references bear out an entry of the target, the address that the law puts
  together from row, column and delta is by `LawAssumption` the one of the target, its frames included.
- `TilegridFull`. `SiliconAlwaysPropagated`: `PropagatesSilicon`; `HalvesAlwaysHome`: `HalvesStayHome`. Both
  need that what one tile has derived, from which the next derives, is right: `GridInv` has as
  `BitsInv` that every known address is the one in the silicon, and as `AliasInv` that an alias begins with the word
  that its tile has. That the walks leave no tile out takes the rest. A walk has all tiles of its column on one side behind it, one
  that is yet to turn those between it and its start (`WalkInv`, with `ColumnWalk`, `DownWalk`,
  `UpWalk`). In a pass that walks, the column of each tile with bits is pending, being walked or complete, and what was
  seen is not pending (`SweepInv`); afterwards it is complete (`DoneInv`). Of two paired columns both have bits: tile by tile
  when `int_lr` ends, some tile of each while columns are walked, and tile by tile
  again when they are complete (`PairInv`). An assertion fails only with an indispensable tile not solved (`FailInv`), because by
  `SiliconAssumption` all it compares agree.

### Only model-checked

- Liveness: `WaitEnds`, `PatchReturns`, `RoundTripEnds`, `CallsEnd`, and the end in `CarriesPackets`. Fairness and
  ENABLED are out of the prover's reach.

### Not modelled in modelled parts

- Formats: the text of the frames file and of `part.yaml`, the words before the sync word, ECC
  words, tile prefixes and origin names in the database, wording and sorting of FASM
  output, FASM syntax (the `fasm` package gives the lines).
- `xc7patch` returns 0 although the write fails: a dropped result, of one call.
- Processes under `make` that survive when `run_fuzzer.py` kills it, and push while the fuzzer
  runs again; the copies of the databases that `int_loop.mk` makes without the lock.
- A crash of `int_loop_check.py` counts as "go on" in the script; it is no event of the model.
- `dbfixup`: masks and `group.py`; where its outcome depends on the order of a Python set it may
  fail or not (`MayFail`).
- `segmaker`: the names of tags of sites, `bitsmaker.py`, and the tables of `bitfilter.py`.
- `tilegrid_derive`: reports, and the discovery of references on disk.
- `005-tilegrid`: block RAM bits, `generate.py` (it reads what Vivado prints), and the exceptions for
  xc7k480t and xc7z045 in `add_tile_bits`. The arithmetic that takes a solved bit to a base address is done
  with in `Silicon`.
- Aliases: what is assembled for a site that the half tile does not have; it goes beyond the words of the
  tile, for `feature_to_bits` has no filter, and no design tool writes one. The site maps of
  aliases name no site that a feature has, and are left out.
