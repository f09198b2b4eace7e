------------------------- MODULE RamfsExportProofs -------------------------
(***************************************************************************)
(* Proofs about RamfsExport, the image assembly of ramfs_export(), for    *)
(* every stage size, tree size and minimum disk size the assumptions      *)
(* allow.                                                                  *)
(***************************************************************************)
EXTENDS RamfsExport, SequenceTheorems, TLAPS

USE SizesAssumption

-----------------------------------------------------------------------------
(* An fwrite of an extent of natural offset and length keeps the image    *)
(* file well typed.                                                        *)
LEMMA WriteTyped ==
  ASSUME TypeOK, NEW off \in Nat, NEW len \in Nat, NEW tag \in Tags,
         Write(off, len, tag)
  PROVE  /\ writes' \in Seq(Extent)
         /\ size' \in Nat
         /\ pos' \in Nat
<1>1. [off |-> off, len |-> len, tag |-> tag] \in Extent
  BY DEF Extent
<1>2. writes' \in Seq(Extent)
  BY <1>1, AppendProperties DEF Write, TypeOK
<1>3. size' \in Nat /\ pos' \in Nat
  BY DEF Write, TypeOK, MaxOf
<1>. QED  BY <1>2, <1>3

(* Dropping the last extent (the write a failing fclose loses) keeps the  *)
(* extents a sequence of extents.                                          *)
LEMMA DropLastTyped ==
  ASSUME NEW s \in Seq(Extent)
  PROVE  SubSeq(s, 1, Len(s) - 1) \in Seq(Extent)
<1>1. \A k \in 1..(Len(s) - 1) : s[k] \in Extent
  BY ElementOfSeq
<1>. QED  BY <1>1, SubSeqProperties

-----------------------------------------------------------------------------
(* The type invariant is inductive. *)
LEMMA TypeInit == Init => TypeOK
BY DEF Init, TypeOK, Extent, Tags, Steps

LEMMA TypeStep == TypeOK /\ [Next]_vars => TypeOK'
<1> SUFFICES ASSUME TypeOK, [Next]_vars PROVE TypeOK'
  OBVIOUS
<1>. USE DEF TypeOK, Steps
<1>1. CASE CheckSizes
  BY <1>1 DEF CheckSizes, Fail, offsets
<1>2. CASE OpenImage
  <2>1. << >> \in Seq(Extent)  BY EmptySeq
  <2>2. CASE /\ pc' = "mbr" /\ writes' = << >> /\ size' = 0 /\ pos' = 0
             /\ dap' = RawDap /\ UNCHANGED ret
             /\ UNCHANGED <<s2, s3, fsLen, offsets>>
    BY <2>1, <2>2 DEF offsets
  <2>3. CASE Fail /\ UNCHANGED <<writes, size, pos, dap>>
             /\ UNCHANGED <<s2, s3, fsLen, offsets>>
    BY <2>3 DEF Fail, offsets
  <2>. QED  BY <1>2, <2>2, <2>3 DEF OpenImage
<1>3. CASE WriteMbr
  <2>1. CASE Write(0, MbrDataSize, "mbr") /\ pc' = "stage2"
               /\ st2Offset' = RoundUp(Stage2Location)
               /\ st3Offset' = RoundUp(Stage2Location + s2)
               /\ fsOffset' = RoundUp(Stage2Location + s2 + s3)
               /\ dap' = RawDap /\ UNCHANGED <<ret, s2, s3, fsLen>>
    <3>1. writes' \in Seq(Extent) /\ size' \in Nat /\ pos' \in Nat
      BY <2>1, WriteTyped DEF Tags
    <3>2. RoundUp(Stage2Location) \in Nat
          /\ RoundUp(Stage2Location + s2) \in Nat
          /\ RoundUp(Stage2Location + s2 + s3) \in Nat
      BY DEF RoundUp, SectorsOf, SectorSize, Stage2Location
    <3>. QED  BY <2>1, <3>1, <3>2
  <2>2. CASE Write(0, Torn(MbrDataSize), "mbr") /\ Fail
               /\ UNCHANGED <<offsets, dap, s2, s3, fsLen>>
    <3>1. Torn(MbrDataSize) \in Nat  BY DEF Torn
    <3>. QED  BY <2>2, <3>1, WriteTyped DEF Tags, Fail, offsets
  <2>. QED  BY <1>3, <2>1, <2>2 DEF WriteMbr
<1>4. ASSUME NEW at \in Nat, NEW len \in Nat, NEW tag \in Tags, NEW nxt \in Steps,
             WriteStage(at, len, tag, nxt)
      PROVE  TypeOK'
  <2>1. Torn(len) \in Nat  BY DEF Torn
  <2>. QED  BY <1>4, <2>1, WriteTyped DEF WriteStage, Fail, offsets
<1>5. CASE WriteStage2
  BY <1>5, <1>4 DEF WriteStage2, Tags, Steps
<1>6. CASE WriteStage3
  BY <1>6, <1>4 DEF WriteStage3, Tags, Steps
<1>7. CASE ExportFs
  BY <1>7, <1>4 DEF ExportFs, Tags, Steps
<1>8. CASE PadImage
  <2>1. MinimumDiskSize - 1 \in Nat  OBVIOUS
  <2>2. (pos + (SectorSize - (pos % SectorSize))) - 1 \in Nat
    BY DEF SectorSize
  <2>. QED  BY <1>8, <2>1, <2>2, WriteTyped DEF PadImage, Tags, Fail, offsets
<1>9. CASE ReadMbr
  BY <1>9 DEF ReadMbr, Fail, offsets, SectorSize
<1>10. CASE PatchMbr
  <2>1. [st2sector |-> st2Offset \div SectorSize, st2count |-> SectorsOf(s2),
         st3sector |-> st3Offset \div SectorSize, st3count |-> SectorsOf(s3)]
          \in Dap
    BY DEF Dap, SectorsOf, SectorSize
  <2>2. SectorSize \in Nat  BY DEF SectorSize
  <2>. QED  BY <1>10, <2>1, <2>2, WriteTyped DEF PatchMbr, Tags, Fail, offsets
<1>11. CASE CloseImage
  <2>1. SubSeq(writes, 1, Len(writes) - 1) \in Seq(Extent)
    BY DropLastTyped
  <2>. QED  BY <1>11, <2>1 DEF CloseImage, offsets
<1>12. CASE Done \/ UNCHANGED vars
  BY <1>12 DEF Done, vars
<1>. QED
  BY <1>1, <1>2, <1>3, <1>5, <1>6, <1>7, <1>8, <1>9, <1>10, <1>11, <1>12
  DEF Next

(* Type correctness of ramfs_export's model. *)
THEOREM TypeCorrect == Spec => []TypeOK
BY TypeInit, TypeStep, PTL DEF Spec
-----------------------------------------------------------------------------
(* The strengthening of SuccessImagePadded that a step preserves.  The    *)
(* image stays below the minimum size until the padding (the size checks *)
(* of lines 448-456 bound both stages, and st3_offset is where line 480   *)
(* put it); at the padding step the length is the file position unless   *)
(* it is still short of the minimum (the 3rd stage may end past a short   *)
(* tree); from the padding on it is padded; and ret stays "none" until    *)
(* the function returns.                                                  *)
IInv ==
  /\ TypeOK
  /\ pc # "done" => ret = "none"
  /\ pc \notin {"check", "done"} =>
       SectorsOf(s2) <= MaxStageSectors /\ SectorsOf(s3) <= MaxStageSectors
  /\ pc = "mbr" => size = 0
  /\ pc = "stage2" => st2Offset = Stage2Location /\ size <= SectorSize
  /\ pc \in {"stage2", "stage3"} => st3Offset = RoundUp(Stage2Location + s2)
  /\ pc = "stage3" => size <= Stage2Location + s2
  /\ pc = "fs" => size <= st3Offset + s3
                 /\ st3Offset = RoundUp(Stage2Location + s2)
  /\ pc = "pad" => pos <= size /\ (size = pos \/ size < MinimumDiskSize)
  /\ (pc \in {"mbrRead", "mbrWrite", "close"} \/ ret = "ok") =>
       size >= MinimumDiskSize /\ size % SectorSize = 0
(* Sector rounding: RoundUp(x) is the least multiple of 512 at or past x. *)
LEMMA RoundUpBounds ==
  ASSUME NEW x \in Nat
  PROVE  /\ RoundUp(x) \in Nat
         /\ x <= RoundUp(x)
         /\ RoundUp(x) <= x + SectorSize - 1
         /\ RoundUp(x) % SectorSize = 0
BY DEF RoundUp, SectorsOf, SectorSize

(* A stage the size check of lines 448-456 admits is at most 0x7f sectors *)
(* long.                                                                  *)
LEMMA AdmittedStage ==
  ASSUME NEW x \in Nat, SectorsOf(x) <= MaxStageSectors
  PROVE  x <= MaxStageSectors * SectorSize
BY DEF SectorsOf, MaxStageSectors, SectorSize

(* Both stages, each rounded up to a sector, end below the minimum size. *)
LEMMA StagesBelowMinimum ==
  ASSUME NEW a \in Nat, NEW b \in Nat,
         SectorsOf(a) <= MaxStageSectors, SectorsOf(b) <= MaxStageSectors
  PROVE  RoundUp(Stage2Location + a) + b < MinimumDiskSize
<1>1. a <= MaxStageSectors * SectorSize /\ b <= MaxStageSectors * SectorSize
  BY AdmittedStage
<1>2. /\ RoundUp(Stage2Location + a) \in Nat
      /\ RoundUp(Stage2Location + a) <= Stage2Location + a + SectorSize - 1
  BY RoundUpBounds DEF Stage2Location
<1>. QED
  BY <1>1, <1>2, MinimumAssumption DEF Stage2Location, MaxStageSectors, SectorSize

LEMMA IInvInit == Init => IInv
BY TypeInit DEF Init, IInv

LEMMA IInvStep == IInv /\ [Next]_vars => IInv'
<1> SUFFICES ASSUME IInv, [Next]_vars PROVE IInv'
  OBVIOUS
<1>0. TypeOK'  BY TypeStep DEF IInv
<1>t. TypeOK  BY DEF IInv
<1>. USE <1>t DEF TypeOK
<1>f. ASSUME Fail PROVE IInv'
  BY <1>0, <1>f DEF IInv, Fail
<1>1. CASE CheckSizes
  BY <1>0, <1>1, <1>f DEF IInv, CheckSizes
<1>2. CASE OpenImage
  BY <1>0, <1>2, <1>f DEF IInv, OpenImage
<1>3. CASE WriteMbr
  <2>1. CASE /\ Write(0, MbrDataSize, "mbr") /\ dap' = RawDap
             /\ st2Offset' = RoundUp(Stage2Location)
             /\ st3Offset' = RoundUp(Stage2Location + s2)
             /\ pc' = "stage2" /\ UNCHANGED <<ret, s2, s3>>
    <3>1. RoundUp(Stage2Location) = Stage2Location
      BY DEF RoundUp, SectorsOf, SectorSize, Stage2Location
    <3>2. size = 0  BY <1>3 DEF IInv, WriteMbr
    <3>3. size' <= SectorSize  BY <2>1, <3>2 DEF Write, MaxOf, SectorSize
    <3>. QED  BY <1>0, <1>3, <2>1, <3>1, <3>3 DEF IInv, WriteMbr
  <2>. QED  BY <1>3, <1>f, <2>1 DEF WriteMbr
<1>4. CASE WriteStage2
  <2>1. CASE Write(st2Offset, s2, "stage2") /\ pc' = "stage3"
             /\ UNCHANGED <<ret, s2, s3, offsets>>
    <3>1. st2Offset = Stage2Location /\ size <= SectorSize
      BY <1>4 DEF IInv, WriteStage2
    <3>2. size' <= Stage2Location + s2
      BY <2>1, <3>1 DEF Write, MaxOf, SectorSize, Stage2Location
    <3>. QED  BY <1>0, <1>4, <2>1, <3>2 DEF IInv, WriteStage2, offsets
  <2>. QED  BY <1>4, <1>f, <2>1 DEF WriteStage2, WriteStage
<1>5. CASE WriteStage3
  <2>1. CASE Write(st3Offset, s3, "stage3") /\ pc' = "fs"
             /\ UNCHANGED <<ret, s2, s3, offsets>>
    <3>1. st3Offset = RoundUp(Stage2Location + s2)
          /\ size <= Stage2Location + s2
      BY <1>5 DEF IInv, WriteStage3
    <3>2. Stage2Location + s2 <= st3Offset
      BY <3>1, RoundUpBounds DEF Stage2Location
    <3>3. size' = IF s3 = 0 THEN size ELSE MaxOf(size, st3Offset + s3)
      BY <2>1 DEF Write
    <3>4. size' <= st3Offset + s3
      BY <3>1, <3>2, <3>3 DEF MaxOf, Stage2Location
    <3>. QED  BY <1>0, <1>5, <2>1, <3>1, <3>4 DEF IInv, WriteStage3, offsets
  <2>. QED  BY <1>5, <1>f, <2>1 DEF WriteStage3, WriteStage
<1>6. CASE ExportFs
  <2>1. CASE Write(fsOffset, fsLen, "fs") /\ pc' = "pad"
             /\ UNCHANGED <<ret, s2, s3, offsets>>
    <3>1. size < MinimumDiskSize
      <4>1. /\ size <= st3Offset + s3
            /\ st3Offset = RoundUp(Stage2Location + s2)
            /\ SectorsOf(s2) <= MaxStageSectors
            /\ SectorsOf(s3) <= MaxStageSectors
        BY <1>6 DEF IInv, ExportFs
      <4>. QED  BY <4>1, StagesBelowMinimum
    <3>2. pos' <= size' /\ (size' = pos' \/ size' < MinimumDiskSize)
      BY <2>1, <3>1 DEF Write, MaxOf
    <3>. QED  BY <1>0, <1>6, <2>1, <3>2 DEF IInv, ExportFs
  <2>. QED  BY <1>6, <1>f, <2>1 DEF ExportFs, WriteStage
<1>7. CASE PadImage
  <2>0. pos <= size /\ (size = pos \/ size < MinimumDiskSize)
        /\ ret = "none"
    BY <1>7 DEF IInv, PadImage
  <2>a. ASSUME pc' = "mbrRead", UNCHANGED ret,
               size' >= MinimumDiskSize, size' % SectorSize = 0
        PROVE  IInv'
    BY <1>0, <1>7, <2>0, <2>a DEF IInv, PadImage
  <2>1. CASE pos < MinimumDiskSize /\ Write(MinimumDiskSize - 1, 1, "pad")
             /\ pc' = "mbrRead" /\ UNCHANGED ret
    <3>1. size' = MinimumDiskSize
      BY <2>0, <2>1 DEF Write, MaxOf
    <3>. QED  BY <2>1, <3>1, <2>a DEF SectorSize
  <2>2. CASE /\ pos >= MinimumDiskSize /\ pos % SectorSize # 0
             /\ Write((pos + (SectorSize - (pos % SectorSize))) - 1, 1, "pad")
             /\ pc' = "mbrRead" /\ UNCHANGED ret
    <3>1. (pos + (SectorSize - (pos % SectorSize))) % SectorSize = 0
          /\ pos < pos + (SectorSize - (pos % SectorSize))
      BY DEF SectorSize
    <3>2. size = pos  BY <2>0, <2>2
    <3>3. size' = pos + (SectorSize - (pos % SectorSize))
      BY <2>2, <3>1, <3>2 DEF Write, MaxOf, SectorSize
    <3>. QED  BY <2>2, <3>1, <3>3, <2>a
  <2>3. CASE /\ pos >= MinimumDiskSize /\ pos % SectorSize = 0
             /\ pc' = "mbrRead" /\ UNCHANGED <<size, ret>>
    BY <2>0, <2>3, <2>a
  <2>. QED  BY <1>7, <1>f, <2>1, <2>2, <2>3 DEF PadImage
<1>8. CASE ReadMbr
  BY <1>0, <1>8, <1>f DEF IInv, ReadMbr
<1>9. CASE PatchMbr
  <2>1. CASE Write(0, SectorSize, "mbrPatch") /\ pc' = "close"
             /\ UNCHANGED ret
    <3>1. size >= MinimumDiskSize /\ size % SectorSize = 0
      BY <1>9 DEF IInv, PatchMbr
    <3>2. size' = size
      BY <2>1, <3>1, MinimumAssumption DEF Write, MaxOf, SectorSize
    <3>. QED  BY <1>0, <1>9, <2>1, <3>1, <3>2 DEF IInv, PatchMbr
  <2>. QED  BY <1>9, <1>f, <2>1 DEF PatchMbr
<1>10. CASE CloseImage
  BY <1>0, <1>10 DEF IInv, CloseImage
<1>11. CASE Done \/ UNCHANGED vars
  BY <1>11 DEF IInv, Done, vars
<1>. QED
  BY <1>1, <1>2, <1>3, <1>4, <1>5, <1>6, <1>7, <1>8, <1>9, <1>10, <1>11
  DEF Next

(* A successful ramfs_export leaves an image padded to at least the       *)
(* minimum disk size and to a whole number of sectors, for every stage    *)
(* size, tree size and minimum size the assumptions allow.                *)
THEOREM PaddedCorrect == Spec => []SuccessImagePadded
<1>1. IInv => SuccessImagePadded  BY DEF IInv, SuccessImagePadded
<1>. QED  BY <1>1, IInvInit, IInvStep, PTL DEF Spec

-----------------------------------------------------------------------------
(* Stage2Intact and DapsDescribeStages.  Neither is inductive: whether a  *)
(* later write can reach the 2nd stage depends on where the offsets of    *)
(* lines 477-485 put the 3rd stage and the tree, and the DAPs of lines    *)
(* 577-580 describe the stages only because those offsets are still the  *)
(* ones computed.  SInv records both.                                     *)

(* The steps after WriteMbr and before the return. *)
Later == {"stage2", "stage3", "fs", "pad", "mbrRead", "mbrWrite", "close"}

(* The offsets are the ones lines 477-485 computed. *)
Placed ==
  /\ st2Offset = Stage2Location
  /\ st3Offset = RoundUp(Stage2Location + s2)
  /\ fsOffset = RoundUp(Stage2Location + s2 + s3)

(* Both stages passed the 0x7f-sector check of lines 448-456. *)
Admitted == SectorsOf(s2) <= MaxStageSectors /\ SectorsOf(s3) <= MaxStageSectors

(* The DAPs lines 577-580 store. *)
PatchedDap == [st2sector |-> st2Offset \div SectorSize, st2count |-> SectorsOf(s2),
               st3sector |-> st3Offset \div SectorSize, st3count |-> SectorsOf(s3)]

NoStage2Yet == \A i \in DOMAIN writes : writes[i].tag # "stage2"

(* Every 2nd-stage extent (whole or torn) lies at 0x2000, within the      *)
(* stage's length, and no later extent overlaps it.                      *)
Stage2Placed ==
  \A i \in DOMAIN writes :
    writes[i].tag = "stage2" =>
      /\ writes[i].off = Stage2Location /\ writes[i].len <= s2 /\ Intact(i)

SInv ==
  /\ pc \in {"check", "open", "mbr", "stage2"} => NoStage2Yet
  /\ Stage2Placed
  /\ pc \in Later => Placed /\ Admitted
  /\ pc \notin {"close", "done"} => dap = RawDap
  /\ dap # RawDap => Placed /\ Admitted /\ dap = PatchedDap

JInv == IInv /\ SInv

(* An fwrite of an extent that lies clear of [0x2000, 0x2000 + s2), or   *)
(* that is the 2nd stage itself written before any other copy of it,     *)
(* keeps every 2nd-stage extent intact.                                  *)
LEMMA AppendKeepsPlaced ==
  ASSUME TypeOK, Stage2Placed, NEW off \in Nat, NEW len \in Nat, NEW tag \in Tags,
         Write(off, len, tag), s2' = s2,
         tag = "stage2" => off = Stage2Location /\ len <= s2,
         ~NoStage2Yet => \/ off + len <= Stage2Location
                         \/ Stage2Location + s2 <= off
  PROVE  Stage2Placed'
<1> DEFINE e == [off |-> off, len |-> len, tag |-> tag]
<1>0. e \in Extent /\ writes' = Append(writes, e)
  BY DEF Extent, Write
<1>1. /\ DOMAIN writes' = 1 .. Len(writes) + 1
      /\ \A k \in 1 .. Len(writes) : writes'[k] = writes[k]
      /\ writes'[Len(writes) + 1] = e
      /\ Len(writes') = Len(writes) + 1
  BY <1>0, AppendProperties DEF TypeOK
<1>2. Len(writes) \in Nat /\ DOMAIN writes = 1 .. Len(writes)
  BY DEF TypeOK
<1>3. SUFFICES ASSUME NEW i \in DOMAIN writes', writes'[i].tag = "stage2"
               PROVE  /\ writes'[i].off = Stage2Location /\ writes'[i].len <= s2
                      /\ Intact(i)'
  BY DEF Stage2Placed
<1>4. CASE i \in 1 .. Len(writes)
  <2>1. /\ writes[i].off = Stage2Location /\ writes[i].len <= s2 /\ Intact(i)
        /\ ~NoStage2Yet
    BY <1>1, <1>2, <1>3, <1>4 DEF Stage2Placed, NoStage2Yet
  <2>2. writes[i] \in Extent /\ e \in Extent
    BY <1>0, <1>4 DEF TypeOK
  <2>3. \/ writes[i].off + writes[i].len <= e.off
        \/ e.off + e.len <= writes[i].off
    BY <2>1, <2>2 DEF Extent, Stage2Location, TypeOK
  <2>. QED  BY <1>1, <1>2, <1>4, <2>1, <2>3 DEF Intact
<1>5. CASE i = Len(writes) + 1
  BY <1>1, <1>2, <1>3, <1>5 DEF Intact
<1>. QED  BY <1>1, <1>2, <1>4, <1>5

(* Losing the last extent (the MBR rewrite a failed fclose drops) keeps  *)
(* every 2nd-stage extent intact.                                        *)
LEMMA DropKeepsPlaced ==
  ASSUME TypeOK, Stage2Placed, writes' = SubSeq(writes, 1, Len(writes) - 1),
         s2' = s2
  PROVE  Stage2Placed'
<1>1. Len(writes) \in Nat /\ writes \in Seq(Extent)
  BY DEF TypeOK
<1>2. \A k \in 1 .. Len(writes) - 1 : writes[k] \in Extent
  BY <1>1
<1>3. /\ Len(writes') = IF 1 <= Len(writes) - 1 THEN Len(writes) - 1 ELSE 0
      /\ \A k \in 1 .. Len(writes) - 1 : writes'[k] = writes[k]
      /\ writes' \in Seq(Extent)
  BY <1>1, <1>2, SubSeqProperties
<1>4. /\ DOMAIN writes' = 1 .. Len(writes) - 1
      /\ DOMAIN writes = 1 .. Len(writes)
  BY <1>1, <1>3
<1>. QED  BY <1>3, <1>4 DEF Stage2Placed, Intact

(* Where the writes after the 2nd stage land: the 3rd stage, the tree and *)
(* the padding byte all lie past the end of an admitted 2nd stage.        *)
LEMMA PastStage2 ==
  ASSUME NEW a \in Nat, NEW b \in Nat \ {0},
         SectorsOf(a) <= MaxStageSectors, SectorsOf(b) <= MaxStageSectors
  PROVE  /\ Stage2Location + a <= RoundUp(Stage2Location + a)
         /\ Stage2Location + a <= RoundUp(Stage2Location + a + b)
         /\ Stage2Location + a <= MinimumDiskSize - 1
<1>1. /\ Stage2Location + a <= RoundUp(Stage2Location + a)
      /\ Stage2Location + a + b <= RoundUp(Stage2Location + a + b)
  BY RoundUpBounds DEF Stage2Location
<1>2. RoundUp(Stage2Location + a) + b < MinimumDiskSize
  BY StagesBelowMinimum
<1>. QED  BY <1>1, <1>2, RoundUpBounds DEF Stage2Location

(* The DAPs of lines 577-580, stored while the offsets are the computed  *)
(* ones, start at each stage's sector, cover it, and stay within 0x7f.    *)
LEMMA PatchedDescribes ==
  ASSUME s2 \in Nat, s3 \in Nat, Placed, Admitted
  PROVE  /\ PatchedDap.st2sector * SectorSize = st2Offset
         /\ PatchedDap.st3sector * SectorSize = st3Offset
         /\ PatchedDap.st2count * SectorSize >= s2
         /\ PatchedDap.st3count * SectorSize >= s3
         /\ PatchedDap.st2count <= MaxStageSectors
         /\ PatchedDap.st3count <= MaxStageSectors
<1>1. /\ RoundUp(Stage2Location + s2) \in Nat
      /\ RoundUp(Stage2Location + s2) % SectorSize = 0
      /\ s2 <= RoundUp(s2) /\ s3 <= RoundUp(s3)
  BY RoundUpBounds DEF Stage2Location
<1>2. (RoundUp(Stage2Location + s2) \div SectorSize) * SectorSize
        = RoundUp(Stage2Location + s2)
  BY <1>1 DEF SectorSize
<1>3. SectorsOf(s2) * SectorSize >= s2 /\ SectorsOf(s3) * SectorSize >= s3
  BY <1>1 DEF RoundUp
<1>. QED  BY <1>2, <1>3 DEF PatchedDap, Placed, Admitted, Stage2Location, SectorSize

LEMMA SInvInit == Init => SInv
<1> SUFFICES ASSUME Init PROVE SInv
  OBVIOUS
<1>1. NoStage2Yet /\ Stage2Placed
  BY DEF Init, NoStage2Yet, Stage2Placed
<1>. QED  BY <1>1 DEF Init, SInv, Later

(* A return with EXIT_FAILURE before the MBR is patched, the image as    *)
(* far as it was written.                                                *)
LEMMA FailKeeps ==
  ASSUME SInv, Fail, pc \notin {"close", "done"},
         UNCHANGED <<s2, s3, offsets, dap>>, Stage2Placed'
  PROVE  SInv'
<1>1. pc' = "done"
  BY DEF Fail
<1>2. dap' = RawDap
  BY DEF SInv
<1>. QED  BY <1>1, <1>2 DEF SInv, Later

(* The fwrite of an extent during ramfs_export, after which the function *)
(* goes on at step nxt or returns.                                       *)
LEMMA WriteKeeps ==
  ASSUME JInv, NEW off \in Nat, NEW len \in Nat, NEW tag \in Tags,
         Write(off, len, tag), UNCHANGED <<s2, s3, offsets, dap>>,
         pc \in {"stage2", "stage3", "fs", "pad"},
         pc' \in {"stage3", "fs", "pad", "mbrRead", "done"},
         pc' = "done" => Fail,
         Placed,
         tag = "stage2" => off = Stage2Location /\ len <= s2,
         pc # "stage2" => \/ off + len <= Stage2Location
                          \/ Stage2Location + s2 <= off
  PROVE  SInv'
<1>t. TypeOK /\ SInv
  BY DEF JInv, IInv
<1>a. Admitted /\ Admitted' = Admitted
  BY <1>t DEF JInv, IInv, Admitted
<1>p. Placed' = Placed
  BY DEF Placed, offsets
<1>1. Stage2Placed'
  <2>1. ~NoStage2Yet => \/ off + len <= Stage2Location
                        \/ Stage2Location + s2 <= off
    BY <1>t DEF SInv
  <2>2. s2' = s2
    BY DEF offsets
  <2>3. Stage2Placed
    BY <1>t DEF SInv
  <2>. QED  BY <1>t, <2>1, <2>2, <2>3, AppendKeepsPlaced
<1>3. dap' = RawDap
  BY <1>t DEF SInv, offsets
<1>. QED  BY <1>1, <1>3, <1>a, <1>p DEF SInv, Later

LEMMA SInvStep == JInv /\ [Next]_vars => SInv'
<1> SUFFICES ASSUME JInv, [Next]_vars PROVE SInv'
  OBVIOUS
<1>t. TypeOK /\ SInv /\ IInv
  BY DEF JInv, IInv
<1>n. s2 \in Nat \ {0} /\ s3 \in Nat \ {0} /\ fsLen \in Nat /\ pos \in Nat
  BY <1>t DEF TypeOK
<1>p. Stage2Placed
  BY <1>t DEF SInv
<1>1. CASE CheckSizes
  BY <1>1, <1>t DEF CheckSizes, SInv, Fail, offsets, Later, NoStage2Yet,
                    Stage2Placed, Intact
<1>2. CASE OpenImage
  <2>1. NoStage2Yet' /\ Stage2Placed'
    <3>1. CASE writes' = << >>
      BY <3>1 DEF NoStage2Yet, Stage2Placed
    <3>2. CASE UNCHANGED writes
      BY <3>2, <1>t, <1>2 DEF SInv, OpenImage, Stage2Placed, Intact,
                                NoStage2Yet
    <3>. QED  BY <1>2, <3>1, <3>2 DEF OpenImage
  <2>. QED  BY <1>2, <1>t, <2>1 DEF OpenImage, SInv, Fail, offsets, Later
<1>3. CASE WriteMbr
  <2>0. pc = "mbr" /\ Admitted
    BY <1>3, <1>t DEF WriteMbr, IInv, Admitted
  <2>1. CASE /\ Write(0, MbrDataSize, "mbr") /\ dap' = RawDap
             /\ st2Offset' = RoundUp(Stage2Location)
             /\ st3Offset' = RoundUp(Stage2Location + s2)
             /\ fsOffset' = RoundUp(Stage2Location + s2 + s3)
             /\ pc' = "stage2" /\ UNCHANGED <<ret, s2, s3, fsLen>>
    <3>1. RoundUp(Stage2Location) = Stage2Location
      BY DEF RoundUp, SectorsOf, SectorSize, Stage2Location
    <3>2. Stage2Placed'
      <4>1. MbrDataSize \in Nat /\ "mbr" \in Tags
        BY DEF Tags
      <4>2. ~NoStage2Yet => FALSE
        BY <1>t, <2>0 DEF SInv
      <4>3. s2' = s2
        BY <2>1 DEF offsets
      <4>. QED  BY <1>t, <1>p, <2>1, <4>1, <4>2, <4>3, AppendKeepsPlaced
    <3>3. NoStage2Yet'
      <4>1. /\ DOMAIN writes' = 1 .. Len(writes) + 1
            /\ \A k \in 1 .. Len(writes) : writes'[k] = writes[k]
            /\ writes'[Len(writes) + 1] = [off |-> 0, len |-> MbrDataSize, tag |-> "mbr"]
        BY <1>t, <2>1, AppendProperties DEF Write, TypeOK
      <4>2. NoStage2Yet
        BY <1>t, <2>0 DEF SInv
      <4>. QED  BY <4>1, <4>2 DEF NoStage2Yet, TypeOK
    <3>. QED  BY <2>0, <2>1, <3>1, <3>2, <3>3 DEF SInv, Placed, Later, Admitted
  <2>2. CASE Write(0, Torn(MbrDataSize), "mbr") /\ Fail
             /\ UNCHANGED <<offsets, dap, s2, s3, fsLen>>
    <3>1. Stage2Placed'
      <4>1. Torn(MbrDataSize) \in Nat /\ "mbr" \in Tags
        BY DEF Tags, Torn
      <4>2. ~NoStage2Yet => FALSE
        BY <1>t, <2>0 DEF SInv
      <4>3. s2' = s2
        BY <2>2 DEF offsets
      <4>. QED  BY <1>t, <1>p, <2>2, <4>1, <4>2, <4>3, AppendKeepsPlaced
    <3>. QED  BY <2>0, <2>2, <3>1, <1>t, FailKeeps
  <2>. QED  BY <1>3, <2>1, <2>2 DEF WriteMbr
<1>s. ASSUME NEW at \in Nat, NEW len \in Nat, NEW tag \in Tags,
             NEW nxt \in {"stage3", "fs", "pad"},
             pc \in {"stage2", "stage3", "fs"}, Placed, WriteStage(at, len, tag, nxt),
             tag = "stage2" => at = Stage2Location /\ len = s2,
             pc # "stage2" => Stage2Location + s2 <= at
      PROVE  SInv'
  <2>0. Torn(len) \in Nat /\ Torn(len) <= len
    BY DEF Torn
  <2>u. UNCHANGED <<s2, s3, offsets, dap>>
    BY <1>s DEF WriteStage
  <2>1. CASE Write(at, len, tag) /\ pc' = nxt
    BY <1>s, <2>u, <2>1, WriteKeeps
  <2>2. CASE Fail /\ UNCHANGED <<writes, size, pos>>
    <3>1. Stage2Placed'
      BY <2>2, <2>u, <1>t DEF SInv, Stage2Placed, Intact
    <3>. QED  BY <1>s, <2>2, <2>u, <3>1, <1>t, FailKeeps
  <2>3. CASE Write(at, Torn(len), tag) /\ Fail
    <3>1. pc' = "done"
      BY <2>3 DEF Fail
    <3>. QED  BY <1>s, <2>0, <2>u, <2>3, <3>1, WriteKeeps
  <2>. QED  BY <1>s, <2>1, <2>2, <2>3 DEF WriteStage
<1>4. CASE WriteStage2
  <2>1. pc = "stage2" /\ Placed /\ WriteStage(st2Offset, s2, "stage2", "stage3")
    BY <1>4, <1>t DEF WriteStage2, SInv, Later
  <2>2. st2Offset = Stage2Location /\ st2Offset \in Nat /\ "stage2" \in Tags
    BY <2>1, <1>t DEF Placed, Tags, TypeOK
  <2>. QED  BY <2>1, <2>2, <1>n, <1>s
<1>5. CASE WriteStage3
  <2>1. pc = "stage3" /\ Placed /\ Admitted /\ WriteStage(st3Offset, s3, "stage3", "fs")
    BY <1>5, <1>t DEF WriteStage3, SInv, Later
  <2>2. Stage2Location + s2 <= st3Offset /\ st3Offset \in Nat /\ "stage3" \in Tags
    BY <2>1, <1>t, <1>n, PastStage2 DEF Placed, Admitted, Tags, TypeOK
  <2>. QED  BY <2>1, <2>2, <1>n, <1>s
<1>6. CASE ExportFs
  <2>1. pc = "fs" /\ Placed /\ Admitted /\ WriteStage(fsOffset, fsLen, "fs", "pad")
    BY <1>6, <1>t DEF ExportFs, SInv, Later
  <2>2. Stage2Location + s2 <= fsOffset /\ fsOffset \in Nat /\ "fs" \in Tags
    BY <2>1, <1>t, <1>n, PastStage2 DEF Placed, Admitted, Tags, TypeOK
  <2>. QED  BY <2>1, <2>2, <1>n, <1>s
<1>7. CASE PadImage
  <2>0. /\ Placed /\ Admitted /\ pc = "pad"
        /\ Stage2Location + s2 <= MinimumDiskSize - 1
    BY <1>7, <1>t, <1>n, PastStage2 DEF PadImage, SInv, Later, Admitted
  <2>a. ASSUME NEW at \in Nat, Write(at, 1, "pad"), pc' = "mbrRead",
               UNCHANGED <<s2, s3, offsets, dap>>, Stage2Location + s2 <= at
        PROVE  SInv'
    <3>1. 1 \in Nat /\ "pad" \in Tags
      BY DEF Tags
    <3>. QED  BY <2>0, <2>a, <3>1, WriteKeeps
  <2>u. UNCHANGED <<s2, s3, offsets, dap>>
    BY <1>7 DEF PadImage
  <2>1. CASE pos < MinimumDiskSize /\ Write(MinimumDiskSize - 1, 1, "pad")
             /\ pc' = "mbrRead"
    <3>1. MinimumDiskSize - 1 \in Nat
      OBVIOUS
    <3>. QED  BY <2>0, <2>1, <2>u, <3>1, <2>a
  <2>2. CASE /\ pos >= MinimumDiskSize /\ pos % SectorSize # 0
             /\ Write((pos + (SectorSize - (pos % SectorSize))) - 1, 1, "pad")
             /\ pc' = "mbrRead"
    <3>1. (pos + (SectorSize - (pos % SectorSize))) - 1 \in Nat
          /\ pos <= (pos + (SectorSize - (pos % SectorSize))) - 1
      BY <1>n DEF SectorSize
    <3>2. Stage2Location + s2 <= (pos + (SectorSize - (pos % SectorSize))) - 1
      BY <2>0, <2>2, <3>1, <1>n DEF Stage2Location, SectorSize
    <3>. QED  BY <2>2, <2>u, <3>1, <3>2, <2>a
  <2>3. CASE pc' = "mbrRead" /\ UNCHANGED writes
    <3>1. Stage2Placed'
      BY <2>3, <2>u, <1>p DEF Stage2Placed, Intact, offsets
    <3>2. Placed' /\ Admitted'
      BY <2>0, <2>u DEF Placed, Admitted, offsets
    <3>3. dap' = RawDap
      BY <2>0, <2>u, <1>t DEF SInv, offsets
    <3>. QED  BY <2>3, <3>1, <3>2, <3>3 DEF SInv, Later
  <2>4. CASE Fail /\ UNCHANGED <<writes, size, pos>>
    <3>1. Stage2Placed'
      BY <2>4, <2>u, <1>p DEF Stage2Placed, Intact, offsets
    <3>. QED  BY <2>0, <2>4, <2>u, <3>1, <1>t, FailKeeps
  <2>. QED  BY <1>7, <2>1, <2>2, <2>3, <2>4 DEF PadImage
<1>8. CASE ReadMbr
  <2>0. pc = "mbrRead" /\ Placed /\ Admitted /\ dap = RawDap
    BY <1>8, <1>t DEF ReadMbr, SInv, Later
  <2>u. UNCHANGED <<s2, s3, offsets, writes, dap>>
    BY <1>8 DEF ReadMbr
  <2>1. Stage2Placed'
    BY <2>u, <1>p DEF Stage2Placed, Intact, offsets
  <2>2. CASE pc' = "mbrWrite"
    <3>1. Placed' /\ Admitted'
      BY <2>0, <2>u DEF Placed, Admitted, offsets
    <3>. QED  BY <2>0, <2>1, <2>2, <2>u, <3>1 DEF SInv, Later
  <2>3. CASE Fail
    BY <2>0, <2>1, <2>3, <2>u, <1>t, FailKeeps
  <2>. QED  BY <1>8, <2>2, <2>3 DEF ReadMbr
<1>9. CASE PatchMbr
  <2>0. Placed /\ Admitted /\ pc = "mbrWrite"
    BY <1>9, <1>t DEF PatchMbr, SInv, Later
  <2>1. CASE Write(0, SectorSize, "mbrPatch") /\ pc' = "close"
             /\ dap' = PatchedDap /\ UNCHANGED <<s2, s3, offsets>>
    <3>1. Stage2Placed'
      <4>1. SectorSize \in Nat /\ "mbrPatch" \in Tags
        BY DEF Tags, SectorSize
      <4>2. 0 + SectorSize <= Stage2Location
        BY DEF SectorSize, Stage2Location
      <4>3. s2' = s2
        BY <2>1 DEF offsets
      <4>. QED  BY <1>t, <1>p, <2>1, <4>1, <4>2, <4>3, AppendKeepsPlaced
    <3>2. Placed' /\ Admitted' /\ PatchedDap' = PatchedDap
      BY <2>0, <2>1 DEF Placed, Admitted, PatchedDap, offsets
    <3>. QED  BY <2>1, <3>1, <3>2 DEF SInv, Later
  <2>2. CASE Fail /\ UNCHANGED <<writes, size, pos, dap, s2, s3, offsets>>
    <3>1. Stage2Placed'
      BY <2>2, <1>p DEF Stage2Placed, Intact
    <3>2. UNCHANGED <<s2, s3, offsets, dap>>
      BY <2>2
    <3>. QED  BY <2>0, <2>2, <3>1, <3>2, <1>t, FailKeeps
  <2>. QED  BY <1>9, <2>1, <2>2 DEF PatchMbr, PatchedDap
<1>10. CASE CloseImage
  <2>1. Stage2Placed'
    <3>0. s2' = s2
      BY <1>10 DEF CloseImage
    <3>1. CASE UNCHANGED writes
      BY <3>0, <3>1, <1>p DEF Stage2Placed, Intact
    <3>2. CASE writes' = SubSeq(writes, 1, Len(writes) - 1)
      BY <3>0, <3>2, <1>t, <1>p, DropKeepsPlaced
    <3>. QED  BY <1>10, <3>1, <3>2 DEF CloseImage
  <2>2. dap' # RawDap => dap # RawDap /\ dap' = dap
    BY <1>10 DEF CloseImage
  <2>. QED  BY <1>10, <2>1, <2>2, <1>t DEF CloseImage, SInv, Later, offsets,
                                          Placed, Admitted, PatchedDap
<1>11. CASE Done \/ UNCHANGED vars
  BY <1>11, <1>t DEF Done, vars, SInv, Later, Placed, Admitted, PatchedDap,
                     NoStage2Yet, Stage2Placed, Intact
<1>. QED
  BY <1>1, <1>2, <1>3, <1>4, <1>5, <1>6, <1>7, <1>8, <1>9, <1>10, <1>11
  DEF Next

(* JInv holds in every reachable state. *)
LEMMA JInvariance == Spec => []JInv
<1>1. Init => JInv
  BY IInvInit, SInvInit DEF JInv
<1>2. JInv /\ [Next]_vars => JInv'
  BY IInvStep, SInvStep DEF JInv
<1>. QED  BY <1>1, <1>2, PTL DEF Spec

(* Theorem (Stage2Intact): no write ramfs_export makes after the 2nd     *)
(* stage (the 3rd stage at st3_offset, the tree at fs_offset, the        *)
(* padding byte of lines 557-563, the MBR rewrite of line 582), nor a    *)
(* torn one, overwrites a byte of it, for every stage and tree size the  *)
(* assumptions allow.                                                     *)
THEOREM Stage2IntactCorrect == Spec => []Stage2Intact
<1>1. JInv => Stage2Intact
  BY DEF JInv, SInv, Stage2Placed, Stage2Intact, StageIntact
<1>. QED  BY <1>1, JInvariance, PTL

(* Theorem (DapsDescribeStages): whenever the MBR holds the DAPs lines    *)
(* 577-580 computed, each starts at the sector its stage was written to,  *)
(* covers all of the stage's bytes, and asks for at most 0x7f sectors,   *)
(* also after a failed fclose has lost the rewrite.                      *)
THEOREM DapsCorrect == Spec => []DapsDescribeStages
<1>1. JInv => DapsDescribeStages
  <2> SUFFICES ASSUME JInv, dap # RawDap PROVE DapsDescribeStages
    BY DEF DapsDescribeStages
  <2>1. Placed /\ Admitted /\ dap = PatchedDap /\ s2 \in Nat /\ s3 \in Nat
    BY DEF JInv, SInv, IInv, TypeOK
  <2>. QED  BY <2>1, PatchedDescribes DEF DapsDescribeStages
<1>. QED  BY <1>1, JInvariance, PTL
=============================================================================
