# TLA+ models of the pure64 disk-image utility

This directory holds TLA+ specifications of the image-building code in
`src/src/util/pure64.c` and of the directory tree in `src/src/lib/dir.c`. It
also holds the TLC configurations that model-check them and TLAPS proofs of
their main properties.

## The system

The `pure64` utility builds one flat disk image. The image is at once:

- a BIOS-bootable MBR;
- a GPT-partitioned disk;
- two bootstrap binaries (stage 2 and stage 3) at computed offsets;
- a serialized directory tree.

Its parts, leaf first (spec section 2):

| Part | Code | Model |
|---|---|---|
| Stream (`fstream_*`) | pure64.c 307-343 | the `Write` operator of `RamfsExport`; positions are folded into the steps that use them |
| CRC32 engine (`crc32`) | pure64.c 68-91 | abstracted in `GptInit` to "the CRC of the bytes x" (`CrcOver(x)`); its own module is planned |
| Tree codec (`pure64_dir_export` / `pure64_dir_import`) | dir.c 113-201 | `TreeCodec` |
| Directory tree inserts and teardown | dir.c 20-111, 203-241 | `DirTree`, which implements `AbstractDir`; proved in `DirTreeProofs` |
| GPT header builder and checksum pass | pure64.c 93-301 | `GptInit`, proved in `GptInitProofs` |
| Layout planner, image assembly (`ramfs_export`) | pure64.c 429-592 | `RamfsExport`, proved in `RamfsExportProofs` |
| Layout planner, empty GPT disk (`pure64_init`) | pure64.c 635-790 | `GptInit`, proved in `GptInitProofs` |
| Command line (`main`, `cat`, `cp`, `ls`, `mkdir`, `mkfs`, `ramfs_import`) | pure64.c 376-423, 594-629, 792-1029 | `Cli` |

How the parts interact:

- `mkfs` and every tree command (`cp`, `mkdir`) end in `ramfs_export`, which opens the image with `"wb+"` and rewrites it from scratch.
- Every tree command first reads the tree back with `ramfs_import`.
- `init` writes an MBR and an empty GPT disk and never touches the tree.
- The program is single-threaded and synchronous (spec section 5).

So the hard behaviours are the following, rather than interleavings of threads:

- the order of steps inside one command;
- failures at any step;
- stdio buffering, which delays a write until the next seek or the `fclose`;
- arithmetic at sector and size boundaries;
- heap ownership across `realloc`;
- the composition of commands run one after another on the same file.

## Modules

### `RamfsExport`: image assembly (`ramfs_export`, pure64.c 429-592)

**State.** The image file is a sequence of extents `[off, len, tag]` in the order they were written, plus its length `size` and the position `pos`. Where two extents overlap, the later one wins. The variable `dap` holds the disk address packets in the MBR.

**Actions.** One per step of the C function, each with its error returns as disjuncts:

| Action | Lines | What it covers |
|---|---|---|
| `CheckSizes` | 448-456 | the 0x7f-sector limit |
| `OpenImage` | 458 | `fopen "wb+"`, which truncates |
| `WriteMbr` | 468-485 | the MBR write, then the three offsets |
| `WriteStage2`, `WriteStage3` | 487-521 | seek fails, full write, short write |
| `ExportFs` | 523-548 | the tree is one write of its encoded length |
| `PadImage` | 550-563 | ftell fails, plus both padding branches |
| `ReadMbr`, `PatchMbr` | 565-587 | re-read and rewrite of sector 0 |
| `CloseImage` | 589-591 | the unchecked `fclose`: a failing flush loses the buffered MBR patch and the function still returns success |

**Constants.** `Stage2Sizes`, `Stage3Sizes`, `FsSizes` and `MinimumDiskSize`, with their assumptions (`SizesAssumption`, `MinimumAssumption`).

### `GptInit`: the `init` command

This covers `pure64_init`, `export_gpt_header` and `calculate_checksums`.

**State.**
- `hdr`: the on-disk header sectors, by LBA.
- `arrays`: the LBAs of the zeroed entry arrays.
- `gh`: the in-memory `struct gpt_header`.
- the option loop's `args`, `i`, `diskSize` and `uuidTok`.

**Constants.** `ArgLists` (the option lists) and `InitialDiskSize`, the `disk_size` of line 646, which the runs set to the build's 1 MiB. Their assumptions are `ArgsAssumption` and `DiskSizeAssumption`.

**Abstractions.** A CRC is modelled as `<<x>>`, the bytes `x` it was computed over, and `<<>>` is the zero placeholder. Two CRCs are therefore equal exactly when they cover the same bytes. That is what validation compares.

**Actions.**

| Action | Lines | What it covers |
|---|---|---|
| `ParseArg`, `ArgsDone` | 648-664 | one iteration of the option loop, and the loop exit |
| `Validate` | 666-699 | size check, padding to a sector, UUID parse |
| `OpenImage` | 701-711 | creating the image and writing the MBR |
| `WritePrimary` | 718-745 | the primary header and its array |
| `WriteBackupArray` | 749-755 | the backup array |
| `WriteBackupHeader` | 759-779 | the backup header |
| `CrcPrimaryArray`, `CrcBackupArray` | 134-206 | the array checksums, patched in the code's order |
| `CrcPrimaryHeader`, `CrcBackupHeader` | 93-132, 208-237 | the header checksums, patched in the code's order |
| `CloseImage` | 787-789 | the unchecked `fclose`, which can lose the backup header's CRC |

### `DirTree`: the in-memory tree (dir.c)

This covers `pure64_dir_add_file`, `pure64_dir_add_subdir`, `pure64_dir_name_exists` and `pure64_dir_free`.

**State.** The tree, as nodes with names, file arrays and subdirectory arrays. For each array pointer, the model also keeps the heap block it names and the set of live blocks.

**Actions.**
- `AddChild` covers the insert and all four outcomes:
  - `EEXIST`;
  - realloc fails;
  - realloc succeeds, then `set_name` fails;
  - success.
- `realloc` either keeps the block in place, or moves it and frees the old one.
- `FreeTree` is the teardown.

Path resolution (`pure64_fs_make_file`, in `fs.c`, which is not in the repository) is abstracted to choosing any directory.

### `AbstractDir`: what the tree promises

This is the abstract tree: a set of labelled nodes under a root, grown one named child at a time (`Insert`) and closed once (`Close`). Siblings never share a label. It has no arrays, counts or heap blocks, and a failed insert is not a step.

`DirTree` maps onto it with `AD == INSTANCE AbstractDir WITH label <- name, parent <- ParentsOf, closed <- freed`. `ParentsOf[x]` is the set of directories whose files or subdirectories array holds `x`. The run `dirtree_safety` checks `AbstractDirSpec == AD!Spec` as a property, and `DirTreeProofs` proves it.

### `TreeCodec`: `pure64_dir_export` and `pure64_dir_import` (dir.c 113-201)

This module is checked by TLC only, because it uses `RECURSIVE` operators.

**State.**
- `tree`: the tree being exported. It is one of the constant `Trees`.
- `image`: the stream, as a sequence of tokens. A token is either a `u64` or a byte string.
- `mem`: the import's heap, as block states `"live"`, `"freed"` and `"garbage"`.
- `err`: the import result.
- `faults`: what the teardown did wrong.
- `pc`: the phase.

**Actions.**
- `Export` is the recursive `Encode`, in the code's order: the name size, the subdirectory count and the file count, then the name bytes, the subdirectories and the files.
- `Import` reads a prefix of the image of any length, which covers a stream cut short at every point. `DecodeDir`, `DecodeSubdirs` and `DecodeFiles` return the set of outcomes over every short read and every malloc that may return NULL. Each outcome keeps the pointers and counts the C code leaves behind on that path.
- `Free` is `pure64_fs_free` as `main` calls it after a failed import (pure64.c 995). It walks those pointers and counts, and records each double free, each free of an uninitialised slot, and each index through a NULL array.

**Assumptions.**
- `decode_uint64` writes its output only on success.
- `pure64_file_export`/`import` (`file.c`, which is not in the repository) are modelled from the spec as a name followed by the data bytes.

### `Cli`: `main` and the commands, across invocations

This module is checked by TLC only, because it uses `RECURSIVE` operators.

**State.**
- `disk`: the image file between invocations, abstracted to its kind (absent, a `pure64_init` GPT disk, a `ramfs_export` boot image, or torn by a failure after the truncating open) and the tree at `fs_offset`. A torn image (`tornGpt`, `tornBoot`) is a prefix of the image that was being written. It keeps that image's tree.
- `cmd` and `args`: the argument vector of the last invocation.
- `read`: what its `ramfs_import` read.
- `ok`: its exit status.

**Actions.** Each action is one whole run of `main`:
- `Rejected`: the option loop (`check_opt`, `is_opt`) and the checks of lines 973-981;
- `RunInit`;
- `RunMkfs`;
- `RunTreeCommand`: `ramfs_import` at the fixed `DiskLocation`, then `cat`, `cp`, `ls`, `mkdir` or the empty `rm`/`rmdir` branch, then `ramfs_export`.

`Regions` says which bytes a 24-byte read at a given offset of an image meets. The bytes are one of "tree" (the encoded tree, read exactly), "zeros" (decoded as an empty root), "garbage" (decoded as any tree) or "eof".
- **GPT image:** the MBR and primary header, the zeroed arrays, then the backup header.
- **Boot image:** the MBR, the stages and the holes between them, then the tree at `fs_offset`.
  - The tree's bytes (`DirBytes`: a 24-byte header and a name for the root and for each subdirectory) read as garbage.
  - Past them comes the zero padding up to `PURE64_MINIMUM_DISK_SIZE` (lines 557-559).
  - A tree that holds a file has data of unknown length and content, so past its known bytes any offset may be garbage or zeros.
- **Torn image:** reads what the complete image holds at that offset, or EOF.

The root is taken to have an empty name, because `pure64_fs_init` is in `fs.c`, which is not in the repository. All the invocations work on one image file, the default `pure64.img` or the one `-f`/`--file` names. The constants are the stage sizes and `DiskLocation`. Argument vectors come from a small set that covers every option form.

### `DirTreeProofs`

This module holds the TLAPS proofs about `DirTree` (see Proofs).

### `RamfsExportProofs`

This module holds the TLAPS proofs about `RamfsExport`.

### `GptInitProofs`

This module holds the TLAPS proofs about `GptInit`.

## Runs

Every `MC_*.tla` module gives the constants small values. All the runs finish in seconds.

| Run | cfg | Expect | What it shows |
|---|---|---|---|
| `ramfs_export_safety` | `MC_RamfsExport.cfg` | pass (1488 states) | Under every failure path, stage 2 is never overwritten (`Stage2Intact`). A successful image is at least 1 MiB and sector-aligned (`SuccessImagePadded`). The MBR's DAPs start at the stages, cover them, and stay within 0x7f sectors (`DapsDescribeStages`). |
| `ramfs_stage3_overlap` | `MC_RamfsExport_stage3.cfg` | violation | `fs_offset` is computed from the unrounded end of stage 3 (line 479). With a stage 2 of 1 byte and a stage 3 of 1 byte, the tree is written at 8704, the same offset as stage 3. |
| `ramfs_lost_mbr_patch` | `MC_RamfsExport_close.cfg` | violation | A failed flush in the unchecked `fclose` (line 589) loses the DAP patch, and `mkfs` still succeeds. |
| `gpt_init_safety` | `MC_GptInit.cfg` | pass | After the checksum pass, both headers validate (`ChecksumsValidate`). This depends on the array CRCs being patched before the header CRCs, as spec section 9 requires. The backup mirrors the primary (`HeadersMirror`). The primary geometry is sound (`GeometrySound`). |
| `gpt_backup_array_lba` | `MC_GptInit_backup.cfg` | violation | The backup header names `backup_lba - 33` as its array (lines 767-770). The array is written and checksummed at `backup_lba - 32` (lines 749 and 181). |
| `gpt_disk_size_option` | `MC_GptInit_disksize.cfg` | violation | `--disk-size <number>` is always rejected, because the sscanf test is inverted (line 656). |
| `dirtree_safety` | `MC_DirTree.cfg` | pass (1515 states) | Sibling names stay unique across files and subdirectories. The tree implements `AbstractDir` (`AbstractDirSpec`), and a failed insert is a stutter of it. |
| `dirtree_heap` | `MC_DirTree_heap.cfg` | violation | If `set_name` fails after a successful `realloc`, the new array leaks. If realloc moved the array, the directory keeps a pointer to freed memory, which `pure64_dir_free` frees again. |
| `tree_codec_roundtrip` | `MC_TreeCodec.cfg` | pass (200 states) | A tree that is exported and then read back in full keeps its names, order and data (`RoundTrip`, spec section 8). A successful import tears down cleanly (`ImportedTreeFreesCleanly`). |
| `tree_import_enomem_double_free` | `MC_TreeCodec_NoDoubleFree.cfg` | violation | After a failed malloc, `pure64_dir_import` frees `name`, `subdirs` and `files` but keeps the pointers (dir.c 170). `main`'s `pure64_fs_free` then frees them again. |
| `cli_consistent_build` | `MC_Cli.cfg` | pass (349 states) | Invocations run in sequence with every failure of import, command and export. A `mkdir` that succeeds leaves every directory it names on the image. One that fails part-way through its arguments leaves the tree as it was, or torn by the export (`MkdirAllOrNothing`). The directories added before the failure stay in memory and never reach the file. |
| `cli_import_location` | `MC_Cli_location.cfg` | violation | The location is 16384 and the stages are 700 and 600 bytes, so `fs_offset` is 9728. TLC's trace: `init` fails after truncating the file. `mkdir b` then reads the zeroed GPT array at 16384 as an empty root and exports `{b}` at 9728. The next `cat` reads the zero padding at 16384 and gets the empty root, not `{b}`. Had its export succeeded, it would have written the empty tree over `{b}`. |

### Further defects, with configurations that reproduce them

Each configuration below makes TLC find the stated property violated. Each defect is of the same class as a run above (an unchecked `fclose`, an import teardown after a failed read, or the composition of commands on one file), so it is not listed as a run of its own. `PROJECT.json` records each one as a hazard.

| cfg | Property | What it shows |
|---|---|---|
| `MC_GptInit_close.cfg` | `SuccessMeansValid` | A failed flush in `init`'s unchecked `fclose` (line 787) leaves the backup header with a zero checksum, and `init` still returns success (`SuccessMeansValid`). |
| `MC_TreeCodec_NoGarbageFree.cfg` | `NoGarbageFree` | A short read of a child's name (dir.c 177) leaves the remaining malloc'd slots uninitialised, and the teardown frees garbage pointers. |
| `MC_TreeCodec_NoNullIndex.cfg` | `NoNullIndex` | When the read of `file_count` fails after `subdir_count` was stored (dir.c 161), the count is nonzero while `subdirs` is NULL, and `pure64_dir_free` indexes NULL. |
| `MC_Cli_gpt.cfg` | `GptKept` | Any successful tree command on a disk made by `init`, even `cat`, rewrites it with `"wb+"` as a non-GPT image (pure64.c 1020). |
| `MC_Cli_rm.cfg` | `RmRemoves` | `rm` and `rmdir` succeed and leave the file in place: their branches in `main` are empty (pure64.c 1007). |

Every property of a passing run also has a mutant in `PROJECT.json`: a one-operator change of the code it depends on, which TLC must catch.

### Bounds and why they are enough

**RamfsExport.** The stage sizes are:
- 1 (one byte past a sector boundary of the offset);
- 512 (exactly one sector);
- 600 and 700 (off a boundary);
- 65024 (0x7f sectors, accepted);
- 65025 (rejected).

The tree sizes put the end of the image below the 1 MiB minimum (24 and 1000000), exactly on a sector past it (1048576), and off a sector past it (1100000). Together these reach every branch of the padding code and both outcomes of the size check. The proofs below remove the bounds for the properties they cover.

**GptInit.** The option lists cover:
- no options;
- a good UUID, a bad UUID, and a missing UUID value;
- `--disk-size` with no value, a number, and a non-number;
- `--disk-size` followed by `--disk-uuid`;
- an unknown option.

Because of the inverted sscanf, `--disk-size` never changes the disk size, so it is always `InitialDiskSize`, the `disk_size` of line 646. That value is a constant of `GptInit`. The runs give it the build's 1 MiB, so they never see a size near the minimum; the proofs cover every value.

**DirTree.** The bounds are two names, three nodes besides the root, and four heap blocks. That is enough for:
- a duplicate across the two arrays;
- an array that grows twice (realloc in place or moved);
- every failure branch.

Names, non-root nodes and blocks are symmetry sets.

**TreeCodec.** There are four trees:
- the empty root;
- a root with one file;
- a root with one subdirectory holding a file;
- a root with two sibling subdirectories.

The last one is the tree that tells a reversed subdirectory order from the right one. Every prefix of every encoding is imported, so each read fails at every point. Each malloc fails or succeeds.

**Cli.** The stage sizes are 700 and 600 bytes, so `fs_offset` is 9728. `PURE64_FS_SECTOR` is defined in `fs.h`, which is not in the repository, so both locations are hypothetical builds. The consistent run sets `DiskLocation` to 9728, a build that agrees with the layout. The violation run sets it to 16384 (sector 32), past the tree. There are two names. There are 18 argument vectors, which cover:
- every command, and `--help`;
- `-f` with and without a value;
- an unknown option;
- missing operands.

### Fairness

None. The properties are all safety properties. The program has a single thread and no waits, and no liveness property is stated.

## Proofs (checked by `tlapm`)

### `RamfsExportProofs`

- **`TypeCorrect`: `Spec => []TypeOK`.** The proof shows `Init => TypeOK` and that every action preserves `TypeOK`, with one step per action. It uses:
  - `WriteTyped`: an fwrite keeps the extents, size and position typed;
  - `DropLastTyped`: dropping the write that a failed flush loses keeps the extent sequence typed.
- **`PaddedCorrect`: `Spec => []SuccessImagePadded`.** This holds for every set of stage sizes, tree sizes and minimum size that satisfies `SizesAssumption` and `MinimumAssumption`. The latter says the minimum lies past 0x2000 plus two 0x7f-sector stages plus one sector.

`SuccessImagePadded` is not inductive on its own. The proof uses the strengthening `IInv`. Before the proof was written, TLC checked `IInv` as an invariant on the constants of `MC_RamfsExport` (1488 states, no violation). `IInv` records:
- `ret` stays `"none"` until the function returns;
- once the size check has passed, both stages are at most 0x7f sectors;
- `st2_offset` and `st3_offset` equal their computed values;
- the image length is bounded at each stage: 0 after the truncating open, at most 512 after the MBR, at most `0x2000 + s2` after stage 2, and at most `st3_offset + s3` after stage 3;
- at the padding step, `pos <= size`, and `size = pos` unless the image is still below the minimum (stage 3 can end past a short tree);
- from the padding on, the image is padded.

The arithmetic rests on three lemmas:
- `RoundUpBounds`: `x <= RoundUp(x) <= x + 511`, and the result is a multiple of 512;
- `AdmittedStage`: an admitted stage is at most 65024 bytes;
- `StagesBelowMinimum`: both stages end below the minimum.

- **`Stage2IntactCorrect`: `Spec => []Stage2Intact`.**
- **`DapsCorrect`: `Spec => []DapsDescribeStages`.**

Neither property is inductive. Whether a later write can reach the 2nd stage depends on where lines 477-485 put the 3rd stage and the tree. The DAPs describe the stages only because the offsets are still the ones computed. Both theorems follow from `JInvariance: Spec => []JInv`, where `JInv` is `IInv` plus `SInv`. Before the proof was written, TLC checked `SInv` as an invariant on the constants of `MC_RamfsExport` (1488 states, no violation). `SInv` records:
- no 2nd-stage extent exists until `WriteStage2` runs;
- every 2nd-stage extent, whole or torn, lies at 0x2000, is at most `s2` long, and no later extent overlaps it (`Stage2Placed`);
- from `WriteMbr` on, the offsets are the computed ones and both stages are admitted (`Placed`, `Admitted`);
- the MBR holds the raw DAPs until `PatchMbr`;
- once it holds others, they are the DAPs of lines 577-580 (`PatchedDap`), and the offsets are still `Placed`.

The step proof rests on these lemmas:
- `AppendKeepsPlaced`: an fwrite clear of `[0x2000, 0x2000 + s2)` keeps every 2nd-stage extent intact;
- `DropKeepsPlaced`: the same for the write a failed `fclose` loses;
- `PastStage2`: the 3rd stage, the tree and the padding byte all start past the end of an admitted 2nd stage;
- `PatchedDescribes`: the patched DAPs start at each stage's sector, cover it, and stay within 0x7f sectors;
- `WriteKeeps` and `FailKeeps`: the shared cases of a write step and of an error return.

### `DirTreeProofs`

These results hold for every set of names, nodes and heap blocks that satisfies `TreeAssumption` (the root is a node, `NULL` is not a block, and there are finitely many blocks).

- **`Invariance`: `Spec => []Inv`.** `Inv` is `TypeOK` plus three facts:
  - the root is in the tree;
  - every child that a directory's arrays hold is in the tree;
  - a node outside the tree has empty arrays.

  The last two are needed because an insert takes a fresh node outside `nodes`. It must not already be anyone's child, and it must start with no children.
- **`Refinement`: `Spec => AbstractDirSpec`.** The proof has two parts:
  - `Init` maps to `AD!Init`: the root has no children, so `ParentsOf` is empty everywhere.
  - Under `Inv`, every step maps to an abstract step or a stutter. There is one lemma per action (`AddFileStep`, `AddSubdirStep`, `FreeTreeStep`). A failed insert (`EEXIST`, realloc failure, or `set_name` failure) leaves `tree` unchanged and so stutters (`TreeUnchangedStutters`). A successful insert appends a fresh node `c`, and then `ParentsOf' = [ParentsOf EXCEPT ![c] = {d}]`. `NameExists` being false is exactly the abstract guard that no child of `d` has that label.

  The proof uses two lemmas:
  - `ElemsAppend`: the elements of `Append(s, c)` are those of `s` plus `c`;
  - `ReallocTyped`: realloc keeps the live set inside `Blocks`.
- **`TypeCorrect`: `Spec => []TypeOK`.** This follows from `Invariance`.
- **`SiblingsCorrect`: `Spec => []SiblingNamesUnique`.** The refinement cannot give this property, because it speaks of positions in the two arrays, which the abstract tree does not have. The inductive invariant is `UInv == Inv /\ SiblingNamesUnique`. Before the proof was written, TLC checked it on the constants of `MC_DirTree` (1515 states, no violation). `Inv` is needed because the new child `c` is outside the tree, so that:
  - `c` is in no array, and the names of every existing child stay as they were;
  - `c` starts with empty arrays.

  `NameExists` being false makes `c`'s name differ from every name in both of `d`'s arrays. The lemmas `UniqueAppend` and `ApartAppend` carry the uniqueness over the `Append`. `AddSuccessUnique` is the successful insert, and `UniqueStep` is the step lemma.

### `GptInitProofs`

These results hold for every option list and token set that satisfy `ArgsAssumption`, and for every `InitialDiskSize` in `Nat` (`DiskSizeAssumption`). The `--disk-size` option never changes `disk_size`, so its initial value (line 646) is the only size `pure64_init` works with. The theorems therefore cover every size the check of lines 669-681 admits, down to the minimum itself, where the 128-sector margin is what keeps the usable range non-empty. They are not limited to the 1 MiB of this build, which is the only size `MC_GptInit` checks.

- **`TypeCorrect`: `Spec => []TypeOK`.**
- **`GeometryCorrect`: `Spec => []GeometrySound`.**
- **`MirrorCorrect`: `Spec => []HeadersMirror`.**
- **`ChecksumsCorrect`: `Spec => []ChecksumsValidate`.**

None of the three safety properties is inductive. Each speaks of headers that exist only after `WritePrimary` and `WriteBackupHeader`, and of checksums patched one at a time. All four theorems follow from `Invariance: Spec => []IInv`. Before the proof was written, TLC checked `IInv` as an invariant on the constants of `MC_GptInit` (105 states, no violation). `IInv` records:
- once the size check has passed, the disk size is a natural number, at least the code's minimum, and a whole number of sectors;
- which header sectors exist at each program point: none before the primary is written, LBA 1 during the backup writes, and LBAs 1 and `backup_lba` from the checksum pass on;
- with its checksum fields cleared (`Bare`), the header at LBA 1 is the export of the primary `gpt_header` struct, and the header at `backup_lba` is the export of the backup struct;
- the progress of the checksum pass: each of the four steps of `calculate_checksums` sets exactly its own checksum field, to the CRC over what that field covers at that time;
- at `close`, both headers are `Valid`.

The arithmetic rests on `Geometry`. For an admitted size, `backup_lba = size/512 - 1 >= 191`, the first usable LBA is 34, the last usable is `backup_lba - 33`, and the backup array starts at `backup_lba - 32`. There is one step lemma per action, and `FailStep` covers every error return. `PatchKeeps` shows that a checksum patch leaves every other field alone. `PrimaryNamesBackup` shows that the primary's `backup_lba` is the sector the backup header was written to.

### What stays with TLC only

- `TreeCodec` and `Cli`. They use `RECURSIVE` operators, which take the SMT backend away from `tlapm`.
- The violation runs.
- Any property about what a recursive definition computes. TLAPS cannot do induction over data with the installed provers.
- Liveness, if a property ever needs it. TLAPS does not handle `ENABLED` or fairness here.

## Not modelled, and why

- **CRC32 bit-level computation.** This is a pure function. TLC's 32-bit integers cannot hold 0xFFFFFFFF, so the planned module works on bit vectors and is checked against the polynomial definition.
- **The `count * sizeof` overflow in import** (dir.c 164-165). Counts in `TreeCodec` are small, so the multiplication never wraps. A 64-bit wrap would need counts near 2^60, which is out of TLC's reach.
- **The bytes of the image in `Cli`.** `Cli` keeps the kind of the image and its tree, not its bytes. The byte-level layout of one `mkfs` or `init` is in `RamfsExport` and `GptInit`. `Cli` composes the commands, not the two byte-level modules.
- **`ls` and `cat` output**, which is formatting only. Their effect on the image and the exit status is modelled.
- **Code outside the repository.** `fs.c`, `file.c` (except the file codec, modelled from the spec in `TreeCodec`), `mbr.c`, `uuid.c` and `stream.c` are not in the repository. Only their effects on the callers are modelled: the MBR sector read and write, and the UUID parse as a predicate.
- **Output formatting** of `ls` and `cat`, the `Makefile`, and the declarations in `string.h`.

## Plan for the next sittings

1. **`Crc32`.** A TLC-only module over bit vectors for `crc32`, checked against the polynomial definition and the reference vectors of spec section 8.
2. **`HeapOwned`.** Once the `set_name` leak is fixed in the code, prove `HeapOwned` in `DirTreeProofs`.

Spec section 8 asks that a size one byte below the minimum is rejected. The code's minimum (lines 669-677) adds 128 sectors to the spec's "at least one usable sector". With the `--disk-size` option broken, this cannot be reached. It will be checked once `Cli` makes the size a parameter.
