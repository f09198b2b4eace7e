---------------------------- MODULE RamfsExport ----------------------------
(***************************************************************************)
(* The image-assembly path of the pure64 utility: ramfs_export() in        *)
(* src/src/util/pure64.c.  It checks the sizes of the two bootstrap        *)
(* binaries, truncates the image file, writes the MBR, the 2nd stage       *)
(* (pure64.sys), the 3rd stage and the serialized file-system tree at      *)
(* computed offsets, pads the image, and finally rewrites the MBR with     *)
(* the disk address packets (DAPs) that tell the boot sector where the     *)
(* two stages are.                                                         *)
(*                                                                         *)
(* The image file is modelled by the sequence of extents written to it, in *)
(* the order they were written (a later extent overwrites the bytes of an  *)
(* earlier one it overlaps), and by its length.  Byte contents are         *)
(* abstracted to a tag naming the region the bytes belong to.              *)
(***************************************************************************)
EXTENDS Integers, Sequences

CONSTANTS
  Stage2Sizes,      \* candidate values of pure64_data_size (the 2nd stage)
  Stage3Sizes,      \* candidate values of stage_three_data_size
  FsSizes,          \* candidate lengths of the encoded file-system tree
  MbrDataSize,      \* mbr_data_size, the length of mbr.sys
  MinimumDiskSize,  \* PURE64_MINIMUM_DISK_SIZE
  RawDap            \* the DAPs as mbr.sys ships them (not this layout's)

ASSUME SizesAssumption ==
  /\ Stage2Sizes \subseteq Nat \ {0}
  /\ Stage3Sizes \subseteq Nat \ {0}
  /\ FsSizes \subseteq Nat \ {0}
  /\ MbrDataSize = 512
  /\ MinimumDiskSize \in Nat \ {0}
  /\ MinimumDiskSize % 512 = 0

\* PURE64_MINIMUM_DISK_SIZE (1 MiB) lies past the end of the largest 3rd
\* stage the size check admits: 0x2000 + 2 * 0x7f sectors + one sector.
ASSUME MinimumAssumption ==
  MinimumDiskSize > 8192 + 2 * (127 * 512) + 512

SectorSize == 512

\* 0x7f: the largest sector count the BIOS extended-read call accepts.
MaxStageSectors == 127

\* 0x2000: the fixed offset of the 2nd stage.
Stage2Location == 8192

\* Variant: the sector count without the "+ 511" (x / 512).
SectorsOfFloor(x) == x \div SectorSize

\* ((x + 511) / 512): sectors needed for x bytes, C unsigned division.
SectorsOf(x) == (x + SectorSize - 1) \div SectorSize

\* Variant: the offset rounded down to a sector, (x / 512) * 512.
RoundDown(x) == (x \div SectorSize) * SectorSize

\* ((x + 511) / 512) * 512: x rounded up to a sector boundary.
RoundUp(x) == SectorsOf(x) * SectorSize

MaxOf(a, b) == IF a >= b THEN a ELSE b

\* Variant: a short write counted one byte short of Torn.
TornOffByOne(len) == len \div 2 - 1

\* What a failed fwrite leaves behind: a strict prefix of the buffer.
Torn(len) == len \div 2

Tags == {"old", "mbr", "stage2", "stage3", "fs", "pad", "mbrPatch"}

Extent == [off : Nat, len : Nat, tag : Tags]

Dap == [st2sector : Nat, st2count : Nat, st3sector : Nat, st3count : Nat]

Steps == {"check", "open", "mbr", "stage2", "stage3", "fs", "pad",
          "mbrRead", "mbrWrite", "close", "done"}

VARIABLES
  s2,        \* pure64_data_size
  s3,        \* stage_three_data_size
  fsLen,     \* bytes pure64_fs_export writes for the tree
  pc,        \* the next step of ramfs_export
  ret,       \* its return value, once it returned
  st2Offset, \* st2_offset
  st3Offset, \* st3_offset
  fsOffset,  \* fs_offset
  writes,    \* the extents written to the image file, oldest first
  size,      \* the length of the image file
  pos,       \* the file position
  dap        \* the DAPs stored in the MBR sector of the image file

vars == <<s2, s3, fsLen, pc, ret, st2Offset, st3Offset, fsOffset,
          writes, size, pos, dap>>

offsets == <<st2Offset, st3Offset, fsOffset>>

TypeOK ==
  /\ s2 \in Stage2Sizes
  /\ s3 \in Stage3Sizes
  /\ fsLen \in FsSizes
  /\ pc \in Steps
  /\ ret \in {"none", "ok", "fail"}
  /\ st2Offset \in Nat
  /\ st3Offset \in Nat
  /\ fsOffset \in Nat
  /\ writes \in Seq(Extent)
  /\ size \in Nat
  /\ pos \in Nat
  /\ dap \in Dap \cup {RawDap}

-----------------------------------------------------------------------------
(* fwrite(buf, 1, len, file) at the current position. *)
Write(off, len, tag) ==
  /\ writes' = Append(writes, [off |-> off, len |-> len, tag |-> tag])
  /\ size' = IF len = 0 THEN size ELSE MaxOf(size, off + len)
  /\ pos' = off + len

(* Return EXIT_FAILURE: the image stays as far as it was written. *)
Fail ==
  /\ pc' = "done"
  /\ ret' = "fail"

(* The image file as it was before the command (a previous image). *)
Init ==
  /\ s2 \in Stage2Sizes
  /\ s3 \in Stage3Sizes
  /\ fsLen \in FsSizes
  /\ pc = "check"
  /\ ret = "none"
  /\ st2Offset = 0 /\ st3Offset = 0 /\ fsOffset = 0
  /\ writes = <<[off |-> 0, len |-> MinimumDiskSize, tag |-> "old"]>>
  /\ size = MinimumDiskSize
  /\ pos = 0
  /\ dap = RawDap

(* Lines 448-456: reject a stage the BIOS cannot read in one call. *)
CheckSizes ==
  /\ pc = "check"
  /\ \/ /\ SectorsOf(s2) <= MaxStageSectors
        /\ SectorsOf(s3) <= MaxStageSectors
        /\ pc' = "open"
        /\ UNCHANGED ret
     \/ /\ SectorsOf(s2) > MaxStageSectors \/ SectorsOf(s3) > MaxStageSectors
        /\ Fail
  /\ UNCHANGED <<s2, s3, fsLen, offsets, writes, size, pos, dap>>

(* Line 458: fopen(filename, "wb+") truncates the image file. *)
OpenImage ==
  /\ pc = "open"
  /\ \/ /\ pc' = "mbr"
        /\ writes' = <<>>
        /\ size' = 0
        /\ pos' = 0
        /\ dap' = RawDap
        /\ UNCHANGED ret
     \/ /\ Fail
        /\ UNCHANGED <<writes, size, pos, dap>>
  /\ UNCHANGED <<s2, s3, fsLen, offsets>>

(* Lines 468-485: write mbr.sys at offset 0, then compute the offsets of   *)
(* the two stages and of the file system, each rounded up to a sector.   *)
(* st3_offset and fs_offset are both computed from the unrounded sums.   *)
WriteMbr ==
  /\ pc = "mbr"
  /\ \/ /\ Write(0, MbrDataSize, "mbr")
        /\ dap' = RawDap
        /\ st2Offset' = RoundUp(Stage2Location)
        /\ st3Offset' = RoundUp(Stage2Location + s2)
        /\ fsOffset' = RoundUp(Stage2Location + s2 + s3)
        /\ pc' = "stage2"
        /\ UNCHANGED ret
     \/ /\ Write(0, Torn(MbrDataSize), "mbr")
        /\ Fail
        /\ UNCHANGED <<offsets, dap>>
  /\ UNCHANGED <<s2, s3, fsLen>>

(* Lines 490-503, 508-521: seek to a stage's offset and write it. *)
WriteStage(at, len, tag, next) ==
  /\ \/ /\ Write(at, len, tag)
        /\ pc' = next
        /\ UNCHANGED ret
     \/ /\ Fail                                  \* fseek failed
        /\ UNCHANGED <<writes, size, pos>>
     \/ /\ Write(at, Torn(len), tag)             \* short fwrite
        /\ Fail
  /\ UNCHANGED <<s2, s3, fsLen, offsets, dap>>

WriteStage2 == pc = "stage2" /\ WriteStage(st2Offset, s2, "stage2", "stage3")

WriteStage3 == pc = "stage3" /\ WriteStage(st3Offset, s3, "stage3", "fs")

(* Lines 525-548: seek to fs_offset and serialize the tree there through  *)
(* the file stream; the tree codec writes fsLen bytes in order.          *)
ExportFs == pc = "fs" /\ WriteStage(fsOffset, fsLen, "fs", "pad")

(* Variant of PadImage: the padding byte of the second branch written at *)
(* the sector boundary itself rather than one byte before it.             *)
PadImageNoMinusOne ==
  /\ pc = "pad"
  /\ \/ /\ pos < MinimumDiskSize
        /\ Write(MinimumDiskSize - 1, 1, "pad")
        /\ pc' = "mbrRead"
        /\ UNCHANGED ret
     \/ /\ pos >= MinimumDiskSize
        /\ pos % SectorSize # 0
        /\ Write(pos + (SectorSize - (pos % SectorSize)), 1, "pad")
        /\ pc' = "mbrRead"
        /\ UNCHANGED ret
     \/ /\ pos >= MinimumDiskSize
        /\ pos % SectorSize = 0
        /\ pc' = "mbrRead"
        /\ UNCHANGED <<writes, size, pos, ret>>
     \/ /\ Fail
        /\ UNCHANGED <<writes, size, pos>>
  /\ UNCHANGED <<s2, s3, fsLen, offsets, dap>>

(* Lines 550-563: ftell, then pad with one zero byte written at the last  *)
(* offset of the padded image: up to the minimum disk size, or else up to *)
(* the next sector boundary.  The fseek and fputc results are not        *)
(* checked; a buffered fputc that fails surfaces at the next seek.        *)
PadImage ==
  /\ pc = "pad"
  /\ \/ /\ pos < MinimumDiskSize
        /\ Write(MinimumDiskSize - 1, 1, "pad")
        /\ pc' = "mbrRead"
        /\ UNCHANGED ret
     \/ /\ pos >= MinimumDiskSize
        /\ pos % SectorSize # 0
        /\ Write((pos + (SectorSize - (pos % SectorSize))) - 1, 1, "pad")
        /\ pc' = "mbrRead"
        /\ UNCHANGED ret
     \/ /\ pos >= MinimumDiskSize
        /\ pos % SectorSize = 0
        /\ pc' = "mbrRead"
        /\ UNCHANGED <<writes, size, pos, ret>>
     \/ /\ Fail                                  \* ftell failed
        /\ UNCHANGED <<writes, size, pos>>
  /\ UNCHANGED <<s2, s3, fsLen, offsets, dap>>

(* Lines 568-575: pure64_mbr_read re-reads sector 0 through the stream.   *)
ReadMbr ==
  /\ pc = "mbrRead"
  /\ \/ /\ pc' = "mbrWrite"
        /\ pos' = SectorSize
        /\ UNCHANGED ret
     \/ /\ Fail
        /\ UNCHANGED pos
  /\ UNCHANGED <<s2, s3, fsLen, offsets, writes, size, dap>>

(* Lines 577-587: patch the two DAPs and rewrite sector 0. *)
PatchMbr ==
  /\ pc = "mbrWrite"
  /\ \/ /\ Write(0, SectorSize, "mbrPatch")
        /\ dap' = [st2sector |-> st2Offset \div SectorSize,
                   st2count  |-> SectorsOf(s2),
                   st3sector |-> st3Offset \div SectorSize,
                   st3count  |-> SectorsOf(s3)]
        /\ pc' = "close"
        /\ UNCHANGED ret
     \/ /\ Fail
        /\ UNCHANGED <<writes, size, pos, dap>>
  /\ UNCHANGED <<s2, s3, fsLen, offsets>>

(* Lines 589-591: fclose, whose result is not checked, then return        *)
(* EXIT_SUCCESS.  The rewritten MBR sector is the only data still in the *)
(* stdio buffer (every fseek flushed it before); if the flush in fclose   *)
(* fails, that write is lost.                                            *)
CloseImage ==
  /\ pc = "close"
  /\ pc' = "done"
  /\ ret' = "ok"
  /\ \/ UNCHANGED <<writes, dap>>
     \/ /\ writes' = SubSeq(writes, 1, Len(writes) - 1)
        /\ dap' = RawDap
  /\ UNCHANGED <<s2, s3, fsLen, offsets, size, pos>>

Done == pc = "done" /\ UNCHANGED vars

Next ==
  \/ CheckSizes \/ OpenImage \/ WriteMbr \/ WriteStage2 \/ WriteStage3
  \/ ExportFs \/ PadImage \/ ReadMbr \/ PatchMbr \/ CloseImage
  \/ Done

Spec == Init /\ [][Next]_vars

-----------------------------------------------------------------------------
(* The extent e is not overwritten by any extent written after it. *)
Intact(i) ==
  \A j \in (i + 1)..Len(writes) :
    \/ writes[j].off + writes[j].len <= writes[i].off
    \/ writes[i].off + writes[i].len <= writes[j].off
    \/ writes[j].len = 0

(* The bytes of a stage, once written, still hold that stage.            *)
StageIntact(tag) ==
  \A i \in DOMAIN writes : writes[i].tag = tag => Intact(i)

(* Property: no later write of ramfs_export (3rd stage, file system,      *)
(* padding byte, MBR patch) overwrites any byte of the 2nd stage.        *)
Stage2Intact == StageIntact("stage2")

(* Property: no later write (the file system, the padding byte)          *)
(* overwrites any byte of the 3rd stage.                                  *)
Stage3Intact == StageIntact("stage3")

(* Property: when ramfs_export reports success, the image is at least    *)
(* PURE64_MINIMUM_DISK_SIZE long and a whole number of sectors, whatever *)
(* the stage and tree sizes (the padding of lines 557-563).              *)
SuccessImagePadded ==
  ret = "ok" => /\ size >= MinimumDiskSize
                /\ size % SectorSize = 0

(* Property: whenever the MBR holds this layout's DAPs, each DAP starts at *)
(* the sector its stage was written to, covers all of the stage's bytes,  *)
(* and asks the BIOS for no more than 0x7f sectors.                      *)
DapsDescribeStages ==
  dap # RawDap =>
    /\ dap.st2sector * SectorSize = st2Offset
    /\ dap.st3sector * SectorSize = st3Offset
    /\ dap.st2count * SectorSize >= s2
    /\ dap.st3count * SectorSize >= s3
    /\ dap.st2count <= MaxStageSectors
    /\ dap.st3count <= MaxStageSectors

(* Property: a successful ramfs_export leaves an MBR that points at the   *)
(* stages ("write fully or fail", spec sections 1 and 4.1).               *)
SuccessMeansBootable == ret = "ok" => dap # RawDap
=============================================================================
