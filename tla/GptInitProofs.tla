---------------------------- MODULE GptInitProofs ----------------------------
(***************************************************************************)
(* Proofs about GptInit, the "init" command (pure64_init,                  *)
(* export_gpt_header and calculate_checksums), for every set of option    *)
(* lists and every value of InitialDiskSize, the disk_size of line 646.   *)
(* Since the --disk-size option never changes it, that value is the only *)
(* size pure64_init works with; the theorems cover every one of them the  *)
(* size check of lines 669-681 admits, down to the minimum itself, and    *)
(* not only this build's 1 MiB, which is all the TLC runs see.            *)
(***************************************************************************)
EXTENDS GptInit, TLAPS

USE ArgsAssumption, DiskSizeAssumption

-----------------------------------------------------------------------------
(* The inductive invariant.                                                *)

(* The disk size once lines 666-688 accepted and padded it. *)
Sized == diskSize \in Nat /\ diskSize >= MinimumSize /\ diskSize % SectorSize = 0

BL == BackupLba(diskSize)

(* The struct gpt_header that lines 718-735 fill in. *)
PrimaryStruct ==
  [current |-> 1, backup |-> BL, first |-> FirstUsableLba,
   last |-> LastUsableLba(BL), partLba |-> 2, uuid |-> uuidTok]

(* The same struct after lines 759-770 turned it into the backup's. *)
BackupStruct ==
  [PrimaryStruct EXCEPT
     !.partLba = ((BL * SectorSize - ArrayBytes) - SectorSize) \div SectorSize,
     !.current = BL, !.backup = 1]

(* A header sector with both checksum fields back at zero. *)
Bare(h) == [h EXCEPT !.arrayCrc = Placeholder, !.hdrCrc = Placeholder]

(* A header sector as a GPT reader validates it. *)
Valid(h) == h.arrayCrc = CrcOver(ZeroArray) /\ h.hdrCrc = CrcOver(Zeroed(h))

(* A header sector whose array checksum alone has been patched. *)
ArrayPatched(h) == h = [Bare(h) EXCEPT !.arrayCrc = CrcOver(ZeroArray)]

(* The steps at which both headers are on disk. *)
Laid == {"crcPrimaryArray", "crcBackupArray", "crcPrimaryHeader",
         "crcBackupHeader", "close"}

(* What pure64_init has written by each step: nothing before the primary  *)
(* header; the primary header while the backup array and header are       *)
(* written; both headers during the checksum pass, each patched in the     *)
(* order of calculate_checksums; and, after any failure, whatever headers  *)
(* were written, with any checksums.  The headers' fields are always the   *)
(* ones lines 718-770 compute from the padded disk size.                   *)
IInv ==
  /\ TypeOK
  /\ pc \in Steps \ {"args", "validate", "done"} => Sized /\ uuidTok \in Tokens
  /\ pc \in {"args", "validate", "open", "primary"} => DOMAIN hdr = {}
  /\ pc \in {"backupArray", "backupHeader"} =>
       DOMAIN hdr = {1} /\ gh = PrimaryStruct
  /\ pc \in Laid => DOMAIN hdr = {1, BL}
  /\ DOMAIN hdr \subseteq {1, BL}
  /\ 1 \in DOMAIN hdr =>
       /\ Sized /\ uuidTok \in Tokens
       /\ Bare(hdr[1]) = Exported(PrimaryStruct)
  /\ BL \in DOMAIN hdr =>
       /\ 1 \in DOMAIN hdr
       /\ Bare(hdr[BL]) = Exported(BackupStruct)
  /\ pc \in {"backupArray", "backupHeader", "crcPrimaryArray"} =>
       \A l \in DOMAIN hdr : Bare(hdr[l]) = hdr[l]
  /\ pc = "crcBackupArray" => ArrayPatched(hdr[1]) /\ Bare(hdr[BL]) = hdr[BL]
  /\ pc = "crcPrimaryHeader" => ArrayPatched(hdr[1]) /\ ArrayPatched(hdr[BL])
  /\ pc = "crcBackupHeader" => Valid(hdr[1]) /\ ArrayPatched(hdr[BL])
  /\ pc = "close" => Valid(hdr[1]) /\ Valid(hdr[BL])

-----------------------------------------------------------------------------
(* Lemmas about the layout arithmetic and the operators of GptInit.        *)

(* Lines 686-688 leave an admitted size admitted and make it a whole      *)
(* number of sectors.                                                      *)
LEMMA PadSized ==
  ASSUME NEW d \in Nat, d >= MinimumSize
  PROVE  /\ PadToSector(d) \in Nat
         /\ PadToSector(d) >= MinimumSize
         /\ PadToSector(d) % SectorSize = 0
BY DEF PadToSector, SectorSize, MinimumSize, HeaderSize, ArrayBytes,
       EntryCount, EntrySize

(* The geometry of lines 718-735 for an admitted, padded size d: the       *)
(* backup header is in the last sector, at least 191 sectors in, and the   *)
(* usable range and both arrays follow from it.                            *)
LEMMA Geometry ==
  ASSUME NEW d \in Nat, d >= MinimumSize, d % SectorSize = 0
  PROVE  LET b == BackupLba(d) IN
         /\ b \in Nat /\ b >= 191
         /\ b = d \div SectorSize - 1
         /\ FirstUsableLba = 34
         /\ LastUsableLba(b) = b - 33
         /\ BackupArrayLba(b) = b - 32
         /\ ((b * SectorSize - ArrayBytes) - SectorSize) \div SectorSize = b - 33
BY DEF BackupLba, FirstUsableLba, LastUsableLba, BackupArrayLba, SectorSize,
       MinimumSize, HeaderSize, ArrayBytes, EntryCount, EntrySize

(* Both structs are well typed once the size and the UUID are. *)
LEMMA StructsTyped ==
  ASSUME Sized, uuidTok \in Tokens
  PROVE  /\ PrimaryStruct \in GptStruct
         /\ BackupStruct \in GptStruct
         /\ Exported(PrimaryStruct) \in ZeroedHeader
         /\ Exported(BackupStruct) \in ZeroedHeader
<1>1. /\ BL \in Nat /\ BL >= 191 /\ FirstUsableLba = 34
      /\ LastUsableLba(BL) = BL - 33
      /\ ((BL * SectorSize - ArrayBytes) - SectorSize) \div SectorSize = BL - 33
  BY Geometry DEF Sized, BL
<1>2. PrimaryStruct \in GptStruct
  BY <1>1 DEF PrimaryStruct, GptStruct
<1>3. BackupStruct \in GptStruct
  BY <1>1, <1>2 DEF BackupStruct, PrimaryStruct, GptStruct
<1>4. \A g \in GptStruct : Exported(g) \in ZeroedHeader
  BY DEF Exported, GptStruct, ZeroedHeader, HeaderSector
<1>. QED  BY <1>2, <1>3, <1>4

(* Resetting a checksum field does not change the bare header. *)
LEMMA BareExcept ==
  ASSUME NEW h \in GptHeader, NEW c
  PROVE  /\ Bare([h EXCEPT !.hdrCrc = c]) = Bare(h)
         /\ Bare([h EXCEPT !.arrayCrc = c]) = Bare(h)
BY DEF Bare, GptHeader, HeaderSector
(* The zero placeholder is a possible checksum field. *)
LEMMA PlaceholderCrc == Placeholder \in {c \in Seq(ZeroedHeader) : Len(c) <= 1}
BY DEF Placeholder

(* A header that export_gpt_header wrote is a header sector. *)
LEMMA ZeroedIsHeader == ZeroedHeader \subseteq GptHeader
<1>1. Placeholder \in {c \in Seq(ZeroedHeader) : Len(c) <= 1}
  BY PlaceholderCrc
<1>2. {Placeholder} \subseteq {c \in Seq(ZeroedHeader) : Len(c) <= 1}
  BY <1>1
<1>. QED  BY <1>2, Zenon DEF ZeroedHeader, GptHeader, HeaderSector

(* Its bare form is itself. *)
LEMMA BareExported ==
  ASSUME NEW g
  PROVE  Bare(Exported(g)) = Exported(g)
<1> DEFINE e == Exported(g)
<1>1. e = [current |-> g.current, backup |-> g.backup, first |-> g.first,
           last |-> g.last, partLba |-> g.partLba, uuid |-> g.uuid,
           arrayCrc |-> Placeholder, hdrCrc |-> Placeholder]
  BY DEF Exported
<1>2. DOMAIN e = {"current", "backup", "first", "last", "partLba", "uuid",
                  "arrayCrc", "hdrCrc"}
  BY <1>1
<1>3. Bare(e) = [x \in DOMAIN e |-> IF x \in {"arrayCrc", "hdrCrc"}
                                      THEN Placeholder ELSE e[x]]
  BY <1>2 DEF Bare
<1>. QED  BY <1>1, <1>2, <1>3

-----------------------------------------------------------------------------
(* The initial state: nothing written yet. *)
LEMMA IInvInit == Init => IInv
<1> SUFFICES ASSUME Init PROVE IInv
  OBVIOUS
<1>1. TypeOK
  <2>1. args \in ArgLists /\ i = 0 /\ diskSize \in Nat /\ uuidTok = NULL
    BY DiskSizeAssumption DEF Init
  <2>2. ArgLists \subseteq Seq(Tokens)
    OBVIOUS
  <2>3. i \in 0 .. Len(args)
    BY <2>1, <2>2
  <2>4. DOMAIN hdr = {} /\ gh = NULL /\ arrays = {} /\ pc = "args" /\ ret = "none"
    BY DEF Init
  <2>. QED  BY <2>1, <2>3, <2>4 DEF TypeOK, Steps
<1>2. DOMAIN hdr = {} /\ pc = "args"
  BY DEF Init
<1>. QED  BY <1>1, <1>2 DEF IInv, Laid

(* A step that fails (pure64_init returns EXIT_FAILURE) and leaves the    *)
(* disk size, the UUID and the headers as they were keeps the invariant.  *)
LEMMA FailStep ==
  ASSUME IInv, TypeOK', pc' = "done", UNCHANGED <<diskSize, uuidTok, hdr>>
  PROVE  IInv'
<1>1. BL' = BL /\ PrimaryStruct' = PrimaryStruct /\ BackupStruct' = BackupStruct
  BY DEF BL, PrimaryStruct, BackupStruct
<1>. QED  BY <1>1 DEF IInv, Laid, Sized

(* Before the primary header is written nothing is on disk: a step that    *)
(* keeps the disk empty and moves to a step before "primary" keeps the    *)
(* invariant, given the size and the UUID for "open" and "primary".        *)
LEMMA EmptyDiskStep ==
  ASSUME IInv, TypeOK', DOMAIN hdr = {}, UNCHANGED hdr,
         pc' \in {"args", "validate", "open", "primary", "done"},
         pc' \in {"open", "primary"} => Sized' /\ uuidTok' \in Tokens
  PROVE  IInv'
BY DEF IInv, Laid

(* One iteration of the option loop (lines 648-664). *)
LEMMA ParseArgStep ==
  ASSUME IInv, ParseArg
  PROVE  IInv'
<1>t. TypeOK  BY DEF IInv
<1>0. /\ pc = "args" /\ i < Len(args) /\ i \in Nat
      /\ args \in Seq(Tokens) /\ DOMAIN hdr = {}
  BY <1>t DEF ParseArg, IInv, TypeOK
<1>1. /\ i' \in 0 .. Len(args)
      /\ uuidTok' \in Tokens \cup {NULL}
      /\ pc' \in {"args", "done"}
  <2>1. CASE args[i + 1] = "--disk-uuid"
    <3>1. i + 2 <= Len(args) => args[i + 2] \in Tokens
      BY <1>0
    <3>. QED  BY <1>0, <2>1, <3>1 DEF ParseArg
  <2>2. CASE args[i + 1] # "--disk-uuid"
    BY <1>0, <1>t, <2>2 DEF ParseArg, Fail, TypeOK
  <2>. QED  BY <2>1, <2>2
<1>2. TypeOK'
  BY <1>1, <1>t DEF ParseArg, TypeOK, Steps, Fail
<1>. QED  BY <1>0, <1>1, <1>2, EmptyDiskStep DEF ParseArg

(* The loop exit. *)
LEMMA ArgsDoneStep ==
  ASSUME IInv, ArgsDone
  PROVE  IInv'
<1>0. pc = "args" /\ DOMAIN hdr = {}
  BY DEF ArgsDone, IInv
<1>1. TypeOK'
  BY DEF ArgsDone, IInv, TypeOK, Steps
<1>. QED  BY <1>0, <1>1, EmptyDiskStep DEF ArgsDone

(* The size check, padding and UUID parse (lines 666-699). *)
LEMMA ValidateStep ==
  ASSUME IInv, Validate
  PROVE  IInv'
<1>t. TypeOK  BY DEF IInv
<1>0. pc = "validate" /\ DOMAIN hdr = {} /\ diskSize \in Nat
  BY <1>t DEF Validate, IInv, TypeOK
<1>1. CASE diskSize < MinimumSize
  <2>0. ~(diskSize >= MinimumSize)
    BY <1>0, <1>1 DEF MinimumSize, HeaderSize, ArrayBytes, EntryCount, EntrySize,
        SectorSize
  <2>1. pc' = "done" /\ ret' = "fail" /\ UNCHANGED <<diskSize, uuidTok, hdr>>
    BY <1>1, <2>0, Zenon DEF Validate, Fail
  <2>2. TypeOK'
    BY <2>1, <1>t DEF Validate, TypeOK, Steps
  <2>. QED  BY <1>0, <2>1, <2>2, EmptyDiskStep
<1>2. CASE diskSize >= MinimumSize
  <2> DEFINE tok == IF uuidTok = NULL THEN "goodUuid" ELSE uuidTok
  <2>1. tok \in Tokens
    BY <1>t DEF TypeOK, Tokens
  <2>2. /\ diskSize' = PadToSector(diskSize) /\ uuidTok' = tok
        /\ \/ pc' = "open" /\ UNCHANGED ret
           \/ pc' = "done" /\ ret' = "fail"
    <3>0. ~(diskSize < MinimumSize)
      BY <1>0, <1>2 DEF MinimumSize, HeaderSize, ArrayBytes, EntryCount, EntrySize,
        SectorSize
    <3>1. UuidParses(tok) => tok = "goodUuid"
      BY DEF UuidParses
    <3>. QED  BY <1>2, <3>0, Zenon DEF Validate, Fail
  <2>3. Sized'
    BY <1>0, <1>2, <2>2, PadSized DEF Sized
  <2>4. TypeOK'
    BY <2>1, <2>2, <2>3, <1>t DEF Validate, TypeOK, Steps, Sized
  <2>. QED  BY <1>0, <2>1, <2>2, <2>3, <2>4, EmptyDiskStep DEF Validate
<1>. QED  BY <1>0, <1>1, <1>2 DEF MinimumSize, HeaderSize, ArrayBytes,
                                  EntryCount, EntrySize, SectorSize, Steps

(* Creating the image and writing the MBR (lines 701-711). *)
LEMMA OpenImageStep ==
  ASSUME IInv, OpenImage
  PROVE  IInv'
<1>0. pc = "open" /\ DOMAIN hdr = {} /\ Sized /\ uuidTok \in Tokens
  BY DEF OpenImage, IInv, Steps
<1>1. TypeOK'
  BY DEF OpenImage, IInv, TypeOK, Steps, Fail
<1>2. pc' \in {"primary", "done"} /\ UNCHANGED <<diskSize, uuidTok>>
  BY DEF OpenImage, Fail
<1>. QED  BY <1>0, <1>1, <1>2, EmptyDiskStep DEF OpenImage, Sized

(* The structs are functions of the disk size and the UUID alone. *)
LEMMA StructsUnchanged ==
  ASSUME UNCHANGED <<diskSize, uuidTok>>
  PROVE  /\ BL' = BL /\ Sized' = Sized
         /\ PrimaryStruct' = PrimaryStruct /\ BackupStruct' = BackupStruct
BY DEF BL, Sized, PrimaryStruct, BackupStruct

(* The backup header's LBA is not the primary's. *)
LEMMA BackupNotPrimary ==
  ASSUME Sized
  PROVE  BL \in Nat /\ BL # 1 /\ BackupArrayLba(BL) \in Nat
<1>1. BL \in Nat /\ BL >= 191 /\ BackupArrayLba(BL) = BL - 32
  BY Geometry DEF Sized, BL
<1>. QED  BY <1>1

(* Lines 718-745: the primary header and its array. *)
LEMMA WritePrimaryStep ==
  ASSUME IInv, WritePrimary
  PROVE  IInv'
<1>t. TypeOK  BY DEF IInv
<1>0. /\ pc = "primary" /\ DOMAIN hdr = {} /\ Sized /\ uuidTok \in Tokens
      /\ UNCHANGED <<diskSize, uuidTok, args, i>>
  BY DEF WritePrimary, IInv, Steps
<1>1. gh' = PrimaryStruct
  BY DEF WritePrimary, PrimaryStruct, BL
<1>2. /\ PrimaryStruct \in GptStruct
      /\ Exported(PrimaryStruct) \in GptHeader
      /\ BL # 1
  BY <1>0, StructsTyped, ZeroedIsHeader, BackupNotPrimary
<1>3. /\ BL' = BL /\ Sized' = Sized /\ PrimaryStruct' = PrimaryStruct
  BY <1>0, StructsUnchanged
<1>4. CASE /\ hdr' = Put(1, Exported(PrimaryStruct))
           /\ arrays' = arrays \cup {2}
           /\ pc' = "backupArray"
           /\ UNCHANGED ret
  <2>1. DOMAIN hdr' = {1} /\ hdr'[1] = Exported(PrimaryStruct)
    BY <1>0, <1>4 DEF Put
  <2>2. TypeOK'
    BY <1>0, <1>1, <1>2, <1>4, <2>1, <1>t DEF TypeOK, Steps
  <2>3. Bare(hdr'[1]) = hdr'[1]
    BY <2>1, BareExported
  <2>. QED  BY <1>0, <1>1, <1>2, <1>3, <1>4, <2>1, <2>2, <2>3 DEF IInv, Laid
<1>5. CASE Fail /\ UNCHANGED disk
  <2>1. TypeOK'
    BY <1>0, <1>1, <1>2, <1>5, <1>t DEF TypeOK, Steps, Fail, disk
  <2>. QED  BY <1>0, <1>5, <2>1, FailStep DEF Fail, disk
<1>. QED
  <2>1. \/ /\ hdr' = Put(1, Exported(PrimaryStruct))
           /\ arrays' = arrays \cup {2}
           /\ pc' = "backupArray"
           /\ UNCHANGED ret
        \/ Fail /\ UNCHANGED disk
    BY DEF WritePrimary, PrimaryStruct, BL
  <2>. QED  BY <1>4, <1>5, <2>1

(* Lines 749-755: the backup array. *)
LEMMA WriteBackupArrayStep ==
  ASSUME IInv, WriteBackupArray
  PROVE  IInv'
<1>t. TypeOK  BY DEF IInv
<1>0. /\ pc = "backupArray" /\ DOMAIN hdr = {1} /\ gh = PrimaryStruct
      /\ Sized /\ uuidTok \in Tokens
      /\ UNCHANGED <<diskSize, uuidTok, hdr, gh, args, i>>
  BY DEF WriteBackupArray, IInv, Steps
<1>1. BackupArrayLba(gh.backup) \in Nat
  BY <1>0, BackupNotPrimary DEF PrimaryStruct
<1>2. /\ arrays' \subseteq Nat
      /\ \/ pc' = "backupHeader" /\ UNCHANGED ret
         \/ Fail
  BY <1>1, <1>t DEF WriteBackupArray, TypeOK
<1>3. TypeOK'
  BY <1>0, <1>2, <1>t DEF TypeOK, Steps, Fail
<1>4. BL' = BL /\ Sized' = Sized /\ PrimaryStruct' = PrimaryStruct
  BY <1>0, StructsUnchanged
<1>5. CASE pc' = "backupHeader"
  <2>1. BL # 1
    BY <1>0, BackupNotPrimary
  <2>. QED  BY <1>0, <1>3, <1>4, <1>5, <2>1 DEF IInv, Laid
<1>6. CASE Fail
  BY <1>0, <1>3, <1>6, FailStep DEF Fail
<1>. QED  BY <1>2, <1>5, <1>6

(* Lines 759-779: the backup header, mirrored from the primary struct. *)
LEMMA WriteBackupHeaderStep ==
  ASSUME IInv, WriteBackupHeader
  PROVE  IInv'
<1>t. TypeOK  BY DEF IInv
<1>0. /\ pc = "backupHeader" /\ DOMAIN hdr = {1} /\ gh = PrimaryStruct
      /\ Sized /\ uuidTok \in Tokens
      /\ \A l \in DOMAIN hdr : Bare(hdr[l]) = hdr[l]
      /\ Bare(hdr[1]) = Exported(PrimaryStruct)
      /\ UNCHANGED <<diskSize, uuidTok, arrays, args, i>>
  BY DEF WriteBackupHeader, IInv, Steps
<1>1. /\ BL \in Nat /\ BL # 1
      /\ BackupStruct \in GptStruct
      /\ Exported(BackupStruct) \in GptHeader
  BY <1>0, BackupNotPrimary, StructsTyped, ZeroedIsHeader
<1>2. /\ BL' = BL /\ Sized' = Sized /\ PrimaryStruct' = PrimaryStruct
      /\ BackupStruct' = BackupStruct
  BY <1>0, StructsUnchanged
<1>3. [gh EXCEPT !.partLba = ((gh.backup * SectorSize - ArrayBytes) - SectorSize)
                               \div SectorSize,
                 !.current = gh.backup,
                 !.backup = 1] = BackupStruct
  BY <1>0 DEF BackupStruct, PrimaryStruct
<1>4. \/ /\ gh' = BackupStruct
         /\ hdr' = Put(BL, Exported(BackupStruct))
         /\ pc' = "crcPrimaryArray"
         /\ UNCHANGED ret
      \/ Fail /\ UNCHANGED <<gh, hdr>>
      \/ gh' = BackupStruct /\ Fail /\ UNCHANGED hdr
  <2>1. gh.backup = BL
    BY <1>0 DEF PrimaryStruct
  <2>. QED  BY <1>3, <2>1 DEF WriteBackupHeader
<1>5. CASE /\ gh' = BackupStruct
           /\ hdr' = Put(BL, Exported(BackupStruct))
           /\ pc' = "crcPrimaryArray"
           /\ UNCHANGED ret
  <2>1. /\ DOMAIN hdr' = {1, BL}
        /\ hdr'[1] = hdr[1]
        /\ hdr'[BL] = Exported(BackupStruct)
    BY <1>0, <1>1, <1>5 DEF Put
  <2>2. TypeOK'
    BY <1>0, <1>1, <1>5, <2>1, <1>t DEF TypeOK, Steps
  <2>3. Bare(hdr'[BL]) = hdr'[BL]
    BY <2>1, BareExported
  <2>4. \A l \in DOMAIN hdr' : Bare(hdr'[l]) = hdr'[l]
    BY <1>0, <2>1, <2>3
  <2>. QED  BY <1>0, <1>1, <1>2, <1>5, <2>1, <2>2, <2>3, <2>4 DEF IInv, Laid
<1>6. CASE Fail /\ UNCHANGED <<gh, hdr>>
  <2>1. TypeOK'
    BY <1>0, <1>6, <1>t DEF TypeOK, Steps, Fail
  <2>. QED  BY <1>0, <1>6, <2>1, FailStep DEF Fail
<1>7. CASE gh' = BackupStruct /\ Fail /\ UNCHANGED hdr
  <2>1. TypeOK'
    BY <1>0, <1>1, <1>7, <1>t DEF TypeOK, Steps, Fail
  <2>. QED  BY <1>0, <1>7, <2>1, FailStep DEF Fail
<1>. QED  BY <1>4, <1>5, <1>6, <1>7

(* Lines 144-205 on a bare header: patching its array checksum leaves it  *)
(* a header sector whose array checksum alone is set.                      *)
LEMMA ArrayPatchHeader ==
  ASSUME NEW h \in GptHeader, Bare(h) = h
  PROVE  LET h2 == [h EXCEPT !.arrayCrc = CrcOver(ZeroArray)] IN
         /\ h2 \in GptHeader /\ ArrayPatched(h2) /\ Bare(h2) = Bare(h)
<1> DEFINE h2 == [h EXCEPT !.arrayCrc = CrcOver(ZeroArray)]
<1>1. h2 \in GptHeader
  BY DEF GptHeader, HeaderSector, CrcOver
<1>2. Bare(h2) = Bare(h)
  BY BareExcept
<1>3. ArrayPatched(h2)
  BY <1>2 DEF ArrayPatched
<1>. QED  BY <1>1, <1>2, <1>3

(* Lines 93-131 on a header whose array checksum is set: its checksum over *)
(* its 92 bytes, taken while the field is zero, makes it validate.         *)
LEMMA HeaderCrcHeader ==
  ASSUME NEW h \in GptHeader, ArrayPatched(h)
  PROVE  LET h2 == [h EXCEPT !.hdrCrc = CrcOver(h)] IN
         /\ h2 \in GptHeader /\ Valid(h2) /\ Bare(h2) = Bare(h)
<1> DEFINE h2 == [h EXCEPT !.hdrCrc = CrcOver(h)]
<1>1. h.hdrCrc = Placeholder /\ h.arrayCrc = CrcOver(ZeroArray)
  <2>1. h = [Bare(h) EXCEPT !.arrayCrc = CrcOver(ZeroArray)]
    BY DEF ArrayPatched
  <2>. QED  BY <2>1 DEF Bare, GptHeader, HeaderSector
<1>2. h \in ZeroedHeader
  BY <1>1 DEF GptHeader, ZeroedHeader, HeaderSector
<1>3. CrcOver(h) \in {c \in Seq(ZeroedHeader) : Len(c) <= 1}
  BY <1>2 DEF CrcOver
<1>4. h2 \in GptHeader
  BY <1>3 DEF GptHeader, HeaderSector
<1>5. Zeroed(h2) = h
  BY <1>1 DEF Zeroed, GptHeader, HeaderSector
<1>6. Valid(h2)
  BY <1>1, <1>5 DEF Valid
<1>7. Bare(h2) = Bare(h)
  BY BareExcept
<1>. QED  BY <1>4, <1>6, <1>7

(* A checksum field reset to zero (the write lost at line 787) leaves a   *)
(* header sector with the same bare form.                                  *)
LEMMA LostCrcHeader ==
  ASSUME NEW h \in GptHeader
  PROVE  /\ [h EXCEPT !.hdrCrc = Placeholder] \in GptHeader
         /\ Bare([h EXCEPT !.hdrCrc = Placeholder]) = Bare(h)
<1>1. [h EXCEPT !.hdrCrc = Placeholder] \in GptHeader
  BY PlaceholderCrc DEF GptHeader, HeaderSector
<1>. QED  BY <1>1, BareExcept

(* The primary header on disk names the backup header's LBA. *)
LEMMA PrimaryNamesBackup ==
  ASSUME IInv, 1 \in DOMAIN hdr
  PROVE  hdr[1].backup = BL
<1>1. Bare(hdr[1]) = Exported(PrimaryStruct) /\ hdr[1] \in GptHeader
  BY DEF IInv, TypeOK
<1>2. Bare(hdr[1]).backup = hdr[1].backup
  BY <1>1 DEF Bare, GptHeader, HeaderSector
<1>. QED  BY <1>1, <1>2 DEF Exported, PrimaryStruct

(* A step of the checksum pass that patches checksum fields in place keeps *)
(* both headers on disk, well typed and with the fields lines 718-770      *)
(* gave them.                                                              *)
LEMMA PatchKeeps ==
  ASSUME IInv, pc \in Laid,
         UNCHANGED <<args, i, diskSize, uuidTok, gh, arrays>>,
         ret' \in {"none", "ok", "fail"}, pc' \in Steps,
         DOMAIN hdr' = DOMAIN hdr,
         \A l \in DOMAIN hdr : hdr'[l] \in GptHeader /\ Bare(hdr'[l]) = Bare(hdr[l])
  PROVE  /\ TypeOK'
         /\ Sized' /\ uuidTok' \in Tokens
         /\ DOMAIN hdr' = {1, BL'}
         /\ Bare(hdr'[1]) = Exported(PrimaryStruct')
         /\ Bare(hdr'[BL']) = Exported(BackupStruct')
<1>0. /\ DOMAIN hdr = {1, BL} /\ Sized /\ uuidTok \in Tokens
      /\ Bare(hdr[1]) = Exported(PrimaryStruct)
      /\ Bare(hdr[BL]) = Exported(BackupStruct)
  BY DEF IInv, Laid, Steps
<1>1. BL' = BL /\ Sized' = Sized /\ PrimaryStruct' = PrimaryStruct
      /\ BackupStruct' = BackupStruct
  BY StructsUnchanged
<1>2. BL \in Nat
  BY <1>0, BackupNotPrimary
<1>3. TypeOK'
  BY <1>0, <1>2 DEF IInv, TypeOK
<1>. QED  BY <1>0, <1>1, <1>3

(* Lines 144-169: the primary array's checksum into the primary header. *)
LEMMA CrcPrimaryArrayStep ==
  ASSUME IInv, CrcPrimaryArray
  PROVE  IInv'
<1>0. /\ pc = "crcPrimaryArray" /\ DOMAIN hdr = {1, BL} /\ Sized
      /\ \A l \in DOMAIN hdr : Bare(hdr[l]) = hdr[l] /\ hdr[l] \in GptHeader
      /\ UNCHANGED <<args, i, diskSize, uuidTok, gh, arrays>>
  BY DEF CrcPrimaryArray, IInv, Laid, TypeOK
<1>1. BL # 1
  BY <1>0, BackupNotPrimary
<1>2. CASE PatchArrayCrc(1, ArrayCrcAt(2)) /\ pc' = "crcBackupArray" /\ UNCHANGED ret
  <2>1. /\ DOMAIN hdr' = {1, BL}
        /\ hdr'[1] = [hdr[1] EXCEPT !.arrayCrc = CrcOver(ZeroArray)]
        /\ hdr'[BL] = hdr[BL]
    BY <1>0, <1>1, <1>2 DEF PatchArrayCrc, ArrayCrcAt
  <2>2. /\ hdr'[1] \in GptHeader /\ ArrayPatched(hdr'[1])
        /\ Bare(hdr'[1]) = Bare(hdr[1])
    BY <1>0, <2>1, ArrayPatchHeader
  <2>3. ret' \in {"none", "ok", "fail"}
    BY <1>2 DEF IInv, TypeOK
  <2>4. \A l \in DOMAIN hdr : hdr'[l] \in GptHeader /\ Bare(hdr'[l]) = Bare(hdr[l])
    BY <1>0, <2>1, <2>2
  <2>5. /\ TypeOK' /\ Sized' /\ uuidTok' \in Tokens /\ DOMAIN hdr' = {1, BL'}
        /\ Bare(hdr'[1]) = Exported(PrimaryStruct')
        /\ Bare(hdr'[BL']) = Exported(BackupStruct')
    BY <1>0, <1>2, <2>1, <2>3, <2>4, PatchKeeps DEF Laid, Steps
  <2>6. BL' = BL
    BY <1>0, StructsUnchanged
  <2>. QED  BY <1>0, <1>1, <1>2, <2>1, <2>2, <2>5, <2>6 DEF IInv, Laid
<1>3. CASE Fail /\ UNCHANGED hdr
  <2>1. TypeOK'
    BY <1>0, <1>3 DEF IInv, TypeOK, Fail, Steps
  <2>. QED  BY <1>0, <1>3, <2>1, FailStep DEF Fail
<1>. QED  BY <1>2, <1>3 DEF CrcPrimaryArray

(* Lines 171-205: the backup array's checksum into the header at the       *)
(* backup_lba the primary header on disk names.                            *)
LEMMA CrcBackupArrayStep ==
  ASSUME IInv, CrcBackupArray
  PROVE  IInv'
<1>0. /\ pc = "crcBackupArray" /\ DOMAIN hdr = {1, BL} /\ Sized
      /\ ArrayPatched(hdr[1]) /\ Bare(hdr[BL]) = hdr[BL]
      /\ \A l \in DOMAIN hdr : hdr[l] \in GptHeader
      /\ UNCHANGED <<args, i, diskSize, uuidTok, gh, arrays>>
  BY DEF CrcBackupArray, IInv, Laid, TypeOK
<1>1. BL # 1 /\ hdr[1].backup = BL
  BY <1>0, BackupNotPrimary, PrimaryNamesBackup
<1>2. CASE PatchArrayCrc(BL, ArrayCrcAt(BackupArrayLba(BL)))
           /\ pc' = "crcPrimaryHeader" /\ UNCHANGED ret
  <2>1. /\ DOMAIN hdr' = {1, BL}
        /\ hdr'[BL] = [hdr[BL] EXCEPT !.arrayCrc = CrcOver(ZeroArray)]
        /\ hdr'[1] = hdr[1]
    BY <1>0, <1>1, <1>2 DEF PatchArrayCrc, ArrayCrcAt
  <2>2. /\ hdr'[BL] \in GptHeader /\ ArrayPatched(hdr'[BL])
        /\ Bare(hdr'[BL]) = Bare(hdr[BL])
    BY <1>0, <2>1, ArrayPatchHeader
  <2>3. ret' \in {"none", "ok", "fail"}
    BY <1>2 DEF IInv, TypeOK
  <2>4. \A l \in DOMAIN hdr : hdr'[l] \in GptHeader /\ Bare(hdr'[l]) = Bare(hdr[l])
    BY <1>0, <2>1, <2>2
  <2>5. /\ TypeOK' /\ Sized' /\ uuidTok' \in Tokens /\ DOMAIN hdr' = {1, BL'}
        /\ Bare(hdr'[1]) = Exported(PrimaryStruct')
        /\ Bare(hdr'[BL']) = Exported(BackupStruct')
    BY <1>0, <1>2, <2>1, <2>3, <2>4, PatchKeeps DEF Laid, Steps
  <2>6. BL' = BL
    BY <1>0, StructsUnchanged
  <2>. QED  BY <1>0, <1>1, <1>2, <2>1, <2>2, <2>5, <2>6 DEF IInv, Laid
<1>3. CASE Fail /\ UNCHANGED hdr
  <2>1. TypeOK'
    BY <1>0, <1>3 DEF IInv, TypeOK, Fail, Steps
  <2>. QED  BY <1>0, <1>3, <2>1, FailStep DEF Fail
<1>. QED  BY <1>1, <1>2, <1>3 DEF CrcBackupArray

(* Lines 218-222: the primary header's own checksum. *)
LEMMA CrcPrimaryHeaderStep ==
  ASSUME IInv, CrcPrimaryHeader
  PROVE  IInv'
<1>0. /\ pc = "crcPrimaryHeader" /\ DOMAIN hdr = {1, BL} /\ Sized
      /\ ArrayPatched(hdr[1]) /\ ArrayPatched(hdr[BL])
      /\ \A l \in DOMAIN hdr : hdr[l] \in GptHeader
      /\ UNCHANGED <<args, i, diskSize, uuidTok, gh, arrays>>
  BY DEF CrcPrimaryHeader, IInv, Laid, TypeOK
<1>1. BL # 1
  BY <1>0, BackupNotPrimary
<1>2. CASE HeaderCrc(1) /\ pc' = "crcBackupHeader" /\ UNCHANGED ret
  <2>1. /\ DOMAIN hdr' = {1, BL}
        /\ hdr'[1] = [hdr[1] EXCEPT !.hdrCrc = CrcOver(hdr[1])]
        /\ hdr'[BL] = hdr[BL]
    BY <1>0, <1>1, <1>2 DEF HeaderCrc, PatchHdrCrc
  <2>2. /\ hdr'[1] \in GptHeader /\ Valid(hdr'[1])
        /\ Bare(hdr'[1]) = Bare(hdr[1])
    BY <1>0, <2>1, HeaderCrcHeader
  <2>3. ret' \in {"none", "ok", "fail"}
    BY <1>2 DEF IInv, TypeOK
  <2>4. \A l \in DOMAIN hdr : hdr'[l] \in GptHeader /\ Bare(hdr'[l]) = Bare(hdr[l])
    BY <1>0, <2>1, <2>2
  <2>5. /\ TypeOK' /\ Sized' /\ uuidTok' \in Tokens /\ DOMAIN hdr' = {1, BL'}
        /\ Bare(hdr'[1]) = Exported(PrimaryStruct')
        /\ Bare(hdr'[BL']) = Exported(BackupStruct')
    BY <1>0, <1>2, <2>1, <2>3, <2>4, PatchKeeps DEF Laid, Steps
  <2>6. BL' = BL
    BY <1>0, StructsUnchanged
  <2>. QED  BY <1>0, <1>1, <1>2, <2>1, <2>2, <2>5, <2>6 DEF IInv, Laid
<1>3. CASE Fail /\ UNCHANGED hdr
  <2>1. TypeOK'
    BY <1>0, <1>3 DEF IInv, TypeOK, Fail, Steps
  <2>. QED  BY <1>0, <1>3, <2>1, FailStep DEF Fail
<1>. QED  BY <1>2, <1>3 DEF CrcPrimaryHeader

(* Lines 224-236: the backup header's own checksum, at the backup_lba the *)
(* primary header on disk names.                                           *)
LEMMA CrcBackupHeaderStep ==
  ASSUME IInv, CrcBackupHeader
  PROVE  IInv'
<1>0. /\ pc = "crcBackupHeader" /\ DOMAIN hdr = {1, BL} /\ Sized
      /\ Valid(hdr[1]) /\ ArrayPatched(hdr[BL])
      /\ \A l \in DOMAIN hdr : hdr[l] \in GptHeader
      /\ UNCHANGED <<args, i, diskSize, uuidTok, gh, arrays>>
  BY DEF CrcBackupHeader, IInv, Laid, TypeOK
<1>1. BL # 1 /\ hdr[1].backup = BL
  BY <1>0, BackupNotPrimary, PrimaryNamesBackup
<1>2. CASE HeaderCrc(BL) /\ pc' = "close" /\ UNCHANGED ret
  <2>1. /\ DOMAIN hdr' = {1, BL}
        /\ hdr'[BL] = [hdr[BL] EXCEPT !.hdrCrc = CrcOver(hdr[BL])]
        /\ hdr'[1] = hdr[1]
    BY <1>0, <1>1, <1>2 DEF HeaderCrc, PatchHdrCrc
  <2>2. /\ hdr'[BL] \in GptHeader /\ Valid(hdr'[BL])
        /\ Bare(hdr'[BL]) = Bare(hdr[BL])
    BY <1>0, <2>1, HeaderCrcHeader
  <2>3. ret' \in {"none", "ok", "fail"}
    BY <1>2 DEF IInv, TypeOK
  <2>4. \A l \in DOMAIN hdr : hdr'[l] \in GptHeader /\ Bare(hdr'[l]) = Bare(hdr[l])
    BY <1>0, <2>1, <2>2
  <2>5. /\ TypeOK' /\ Sized' /\ uuidTok' \in Tokens /\ DOMAIN hdr' = {1, BL'}
        /\ Bare(hdr'[1]) = Exported(PrimaryStruct')
        /\ Bare(hdr'[BL']) = Exported(BackupStruct')
    BY <1>0, <1>2, <2>1, <2>3, <2>4, PatchKeeps DEF Laid, Steps
  <2>6. BL' = BL
    BY <1>0, StructsUnchanged
  <2>. QED  BY <1>0, <1>1, <1>2, <2>1, <2>2, <2>5, <2>6 DEF IInv, Laid
<1>3. CASE Fail /\ UNCHANGED hdr
  <2>1. TypeOK'
    BY <1>0, <1>3 DEF IInv, TypeOK, Fail, Steps
  <2>. QED  BY <1>0, <1>3, <2>1, FailStep DEF Fail
<1>. QED  BY <1>0, <1>1, <1>2, <1>3 DEF CrcBackupHeader

(* Lines 787-789: the unchecked fclose, which may lose the backup header's *)
(* checksum, and the return of EXIT_SUCCESS.                               *)
LEMMA CloseImageStep ==
  ASSUME IInv, CloseImage
  PROVE  IInv'
<1>0. /\ pc = "close" /\ DOMAIN hdr = {1, BL} /\ Sized
      /\ \A l \in DOMAIN hdr : hdr[l] \in GptHeader
      /\ UNCHANGED <<args, i, diskSize, uuidTok, gh, arrays>>
      /\ pc' = "done" /\ ret' = "ok"
  BY DEF CloseImage, IInv, Laid, TypeOK
<1>1. BL # 1 /\ hdr[1].backup = BL
  BY <1>0, BackupNotPrimary, PrimaryNamesBackup
<1>2. CASE UNCHANGED hdr
  <2>1. TypeOK'
    BY <1>0, <1>2 DEF IInv, TypeOK, Steps
  <2>. QED  BY <1>0, <1>2, <2>1, FailStep
<1>3. CASE PatchHdrCrc(BL, Placeholder)
  <2>1. /\ DOMAIN hdr' = {1, BL}
        /\ hdr'[BL] = [hdr[BL] EXCEPT !.hdrCrc = Placeholder]
        /\ hdr'[1] = hdr[1]
    BY <1>0, <1>1, <1>3 DEF PatchHdrCrc
  <2>2. \A l \in DOMAIN hdr : hdr'[l] \in GptHeader /\ Bare(hdr'[l]) = Bare(hdr[l])
    BY <1>0, <2>1, LostCrcHeader
  <2>3. /\ TypeOK' /\ Sized' /\ uuidTok' \in Tokens /\ DOMAIN hdr' = {1, BL'}
        /\ Bare(hdr'[1]) = Exported(PrimaryStruct')
        /\ Bare(hdr'[BL']) = Exported(BackupStruct')
    BY <1>0, <2>1, <2>2, PatchKeeps DEF Laid, Steps
  <2>. QED  BY <1>0, <2>3 DEF IInv, Laid
<1>. QED  BY <1>1, <1>2, <1>3 DEF CloseImage

(* Every step of pure64_init keeps the invariant. *)
LEMMA IInvStep == IInv /\ [Next]_vars => IInv'
<1> SUFFICES ASSUME IInv, [Next]_vars PROVE IInv'
  OBVIOUS
<1>1. CASE ParseArg          BY <1>1, ParseArgStep
<1>2. CASE ArgsDone          BY <1>2, ArgsDoneStep
<1>3. CASE Validate          BY <1>3, ValidateStep
<1>4. CASE OpenImage         BY <1>4, OpenImageStep
<1>5. CASE WritePrimary      BY <1>5, WritePrimaryStep
<1>6. CASE WriteBackupArray  BY <1>6, WriteBackupArrayStep
<1>7. CASE WriteBackupHeader BY <1>7, WriteBackupHeaderStep
<1>8. CASE CrcPrimaryArray   BY <1>8, CrcPrimaryArrayStep
<1>9. CASE CrcBackupArray    BY <1>9, CrcBackupArrayStep
<1>10. CASE CrcPrimaryHeader BY <1>10, CrcPrimaryHeaderStep
<1>11. CASE CrcBackupHeader  BY <1>11, CrcBackupHeaderStep
<1>12. CASE CloseImage       BY <1>12, CloseImageStep
<1>13. CASE UNCHANGED vars
  <2>1. BL' = BL /\ Sized' = Sized /\ PrimaryStruct' = PrimaryStruct
        /\ BackupStruct' = BackupStruct
    BY <1>13, StructsUnchanged DEF vars
  <2>. QED  BY <1>13, <2>1 DEF vars, IInv, TypeOK
<1>14. CASE Done             BY <1>14, <1>13 DEF Done
<1>. QED  BY <1>1, <1>2, <1>3, <1>4, <1>5, <1>6, <1>7, <1>8, <1>9, <1>10,
             <1>11, <1>12, <1>13, <1>14 DEF Next

(* The invariant holds in every reachable state. *)
LEMMA Invariance == Spec => []IInv
BY IInvInit, IInvStep, PTL DEF Spec

(* A header sector's fields other than its checksums are those of its    *)
(* bare form.                                                             *)
LEMMA BareFields ==
  ASSUME NEW h \in GptHeader
  PROVE  /\ h.current = Bare(h).current /\ h.backup = Bare(h).backup
         /\ h.first = Bare(h).first /\ h.last = Bare(h).last
         /\ h.partLba = Bare(h).partLba /\ h.uuid = Bare(h).uuid
BY DEF Bare, GptHeader, HeaderSector

-----------------------------------------------------------------------------
(* Theorem: every reachable state of pure64_init is well typed, for every *)
(* option list.                                                           *)
THEOREM TypeCorrect == Spec => []TypeOK
<1>1. IInv => TypeOK
  BY DEF IInv
<1>. QED  BY Invariance, <1>1, PTL

(* Theorem (GeometrySound): for every initial disk size, the primary     *)
(* header pure64_init writes (lines 718-745) lays out a sound disk:       *)
(* header at LBA 1, array at 2..33, a non-empty usable range that ends    *)
(* before the backup array, and the backup header in the last sector.    *)
(* Sizes below the minimum of lines 669-677 write no header; at the       *)
(* minimum, its 128-sector margin is what keeps the usable range         *)
(* non-empty.                                                             *)
THEOREM GeometryCorrect == Spec => []GeometrySound
<1>1. IInv => GeometrySound
  <2> SUFFICES ASSUME IInv, 1 \in DOMAIN hdr PROVE GeometrySound
    BY DEF GeometrySound
  <2>1. Sized /\ Bare(hdr[1]) = Exported(PrimaryStruct) /\ hdr[1] \in GptHeader
    BY DEF IInv, TypeOK
  <2>2. /\ hdr[1].current = 1 /\ hdr[1].backup = BL
        /\ hdr[1].first = FirstUsableLba /\ hdr[1].last = LastUsableLba(BL)
        /\ hdr[1].partLba = 2
    BY <2>1, BareFields DEF Exported, PrimaryStruct
  <2>3. /\ BL \in Nat /\ BL >= 191 /\ BL = diskSize \div SectorSize - 1
        /\ FirstUsableLba = 34 /\ LastUsableLba(BL) = BL - 33
        /\ BackupArrayLba(BL) = BL - 32
    BY <2>1, Geometry DEF Sized, BL
  <2>. QED  BY <2>2, <2>3 DEF GeometrySound, Primary, ArrayBytes, EntryCount,
                               EntrySize, SectorSize
<1>. QED  BY Invariance, <1>1, PTL

(* Theorem (HeadersMirror): the backup header that lines 759-779 write at *)
(* the primary's backup_lba names LBA 1 as its backup and agrees with the *)
(* primary on the usable range and the disk UUID.                         *)
THEOREM MirrorCorrect == Spec => []HeadersMirror
<1>1. IInv => HeadersMirror
  <2> SUFFICES ASSUME IInv, 1 \in DOMAIN hdr, hdr[1].backup \in DOMAIN hdr
               PROVE  HeadersMirror
    BY DEF HeadersMirror
  <2>1. hdr[1].backup = BL
    BY PrimaryNamesBackup
  <2>2. /\ Bare(hdr[1]) = Exported(PrimaryStruct)
        /\ Bare(hdr[BL]) = Exported(BackupStruct)
        /\ hdr[1] \in GptHeader /\ hdr[BL] \in GptHeader
    BY <2>1 DEF IInv, TypeOK
  <2>3. /\ hdr[1].current = 1 /\ hdr[1].backup = BL
        /\ hdr[1].first = FirstUsableLba /\ hdr[1].last = LastUsableLba(BL)
        /\ hdr[1].uuid = uuidTok
    BY <2>2, BareFields DEF Exported, PrimaryStruct
  <2>4. /\ hdr[BL].current = BL /\ hdr[BL].backup = 1
        /\ hdr[BL].first = FirstUsableLba /\ hdr[BL].last = LastUsableLba(BL)
        /\ hdr[BL].uuid = uuidTok
    BY <2>2, BareFields DEF Exported, BackupStruct, PrimaryStruct
  <2>. QED  BY <2>1, <2>3, <2>4 DEF HeadersMirror, Primary, Backup
<1>. QED  BY Invariance, <1>1, PTL

(* Theorem (ChecksumsValidate): once calculate_checksums has run (lines   *)
(* 134-237), both headers validate, because the array checksums are       *)
(* patched before the header checksums that cover them (spec section 9). *)
THEOREM ChecksumsCorrect == Spec => []ChecksumsValidate
<1>1. IInv => ChecksumsValidate
  <2> SUFFICES ASSUME IInv, pc = "close" PROVE ChecksumsValidate
    BY DEF ChecksumsValidate
  <2>1. 1 \in DOMAIN hdr
    BY DEF IInv, Laid
  <2>2. hdr[1].backup = BL
    BY <2>1, PrimaryNamesBackup
  <2>3. Valid(hdr[1]) /\ Valid(hdr[BL])
    BY DEF IInv
  <2>. QED  BY <2>2, <2>3 DEF ChecksumsValidate, Primary, Backup, Valid
<1>. QED  BY Invariance, <1>1, PTL
=============================================================================
