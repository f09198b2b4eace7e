------------------------------- MODULE GptInit -------------------------------
(***************************************************************************)
(* The "init" command of the pure64 utility: pure64_init() with            *)
(* export_gpt_header(), zero_file_data() and the checksum pass            *)
(* calculate_checksums() in src/src/util/pure64.c.  It parses its options, *)
(* validates the disk size, writes the MBR, the primary GPT header and its *)
(* zeroed partition-entry array, the backup array and the backup header,   *)
(* then patches the four CRC32 fields in place.                            *)
(*                                                                         *)
(* Option strings are abstracted to tokens.  A CRC32 is modelled as the   *)
(* record of the bytes it was computed over (Crc(x)), so two checksums     *)
(* agree exactly when they were computed over the same bytes.  The entry   *)
(* arrays are only ever zero-filled, so every array checksum is Crc of a   *)
(* zero array; what matters for them is where they are.                   *)
(***************************************************************************)
EXTENDS Integers, Sequences

CONSTANTS
  ArgLists,         \* the option lists given after "init" (argv tokens)
  InitialDiskSize,  \* disk_size before the options (line 646: 1 MiB)
  NULL              \* argv[argc], read past the last option

Tokens == {"--disk-uuid", "--disk-size", "num", "junk", "goodUuid", "badUuid"}

ASSUME ArgsAssumption ==
  /\ ArgLists \subseteq Seq(Tokens)
  /\ NULL \notin Tokens

(* The --disk-size option never changes disk_size (lines 654-662), so the *)
(* initial value is the only size the rest of pure64_init sees.  The      *)
(* build's value is 1 MiB; any natural number can stand in its place.      *)
ASSUME DiskSizeAssumption == InitialDiskSize \in Nat

\* sscanf(tok, "%llu", &disk_size): 1 for a numeric token, 0 otherwise.
Scanned(tok) == IF tok = "num" THEN 1 ELSE 0

\* pure64_uuid_parse succeeds on a well-formed UUID string only.
UuidParses(tok) == tok = "goodUuid"

SectorSize == 512
EntrySize == 128     \* GPT_PARTITION_HEADER_SIZE
EntryCount == 128    \* GPT_PARTITION_HEADER_COUNT
HeaderSize == 92     \* GPT_HEADER_SIZE
ArrayBytes == EntryCount * EntrySize

\* Lines 669-677: the minimum disk size the code accepts.
MinimumSize ==
  HeaderSize + ArrayBytes + EntryCount * SectorSize + ArrayBytes + HeaderSize

\* Lines 686-688: the disk size padded to a whole sector.
PadToSector(d) == IF d % SectorSize # 0 THEN d + (SectorSize - (d % SectorSize))
                                        ELSE d

\* Lines 718-735: the primary header's fields for a padded disk size d.
BackupLba(d) == (d - SectorSize) \div SectorSize
FirstUsableLba == ((1 + 1) * SectorSize + ArrayBytes) \div SectorSize
\* Variant: the last usable LBA without the backup header's sector.
LastUsableNoHeader(b) == (b * SectorSize - ArrayBytes) \div SectorSize
LastUsableLba(b) == ((b * SectorSize - ArrayBytes) - SectorSize) \div SectorSize

\* The LBA where both the code's array write (line 749) and its checksum
\* pass (line 181) put the backup array: backup_lba * 512 - 16384.
BackupArrayLba(b) == (b * SectorSize - ArrayBytes) \div SectorSize

\* A CRC32 is modelled by the bytes it was computed over: a checksum field
\* holds the zero placeholder export_gpt_header writes (<<>>), or <<x>> for
\* the CRC of the bytes x.
Placeholder == <<>>
CrcOver(x) == <<x>>
ZeroArray == "zeroArray"

\* struct gpt_header (lines 245-253), the in-memory header.
GptStruct == [current : Nat, backup : Nat, first : Nat, last : Nat,
              partLba : Nat, uuid : Tokens]

\* A 92-byte header on disk, with the given values possible for its own
\* checksum field (offset 16).  Its array checksum (offset 88) is 0 or the
\* checksum of a zeroed array.
HeaderSector(crcs) ==
  [current : Nat, backup : Nat, first : Nat, last : Nat, partLba : Nat,
   uuid : Tokens, arrayCrc : {Placeholder, CrcOver(ZeroArray)}, hdrCrc : crcs]

ZeroedHeader == HeaderSector({Placeholder})
GptHeader == HeaderSector({c \in Seq(ZeroedHeader) : Len(c) <= 1})

\* export_gpt_header (lines 255-301): both checksum fields written as zero.
Exported(g) ==
  [current |-> g.current, backup |-> g.backup, first |-> g.first,
   last |-> g.last, partLba |-> g.partLba, uuid |-> g.uuid,
   arrayCrc |-> Placeholder, hdrCrc |-> Placeholder]

\* The header as a validator checksums it: its checksum field zeroed.
Zeroed(h) == [h EXCEPT !.hdrCrc = Placeholder]

Steps == {"args", "validate", "open", "primary", "backupArray", "backupHeader",
          "crcPrimaryArray", "crcBackupArray", "crcPrimaryHeader",
          "crcBackupHeader", "close", "done"}

VARIABLES
  args,      \* argv after "init"
  i,         \* the option loop's index
  diskSize,  \* disk_size
  uuidTok,   \* disk_uuid_str
  pc,        \* the next step of pure64_init
  ret,       \* its return value, once it returned
  gh,        \* the in-memory struct gpt_header
  hdr,       \* the GPT header sectors on disk, by LBA
  arrays     \* the LBAs at which a zeroed entry array was written

vars == <<args, i, diskSize, uuidTok, pc, ret, gh, hdr, arrays>>

disk == <<hdr, arrays>>

TypeOK ==
  /\ args \in ArgLists
  /\ i \in 0..Len(args)
  /\ diskSize \in Nat
  /\ uuidTok \in Tokens \cup {NULL}
  /\ pc \in Steps
  /\ ret \in {"none", "ok", "fail"}
  /\ DOMAIN hdr \subseteq Nat
  /\ \A l \in DOMAIN hdr : hdr[l] \in GptHeader
  /\ gh \in GptStruct \cup {NULL}
  /\ arrays \subseteq Nat

-----------------------------------------------------------------------------
Fail == pc' = "done" /\ ret' = "fail"

Init ==
  /\ args \in ArgLists
  /\ i = 0
  /\ diskSize = InitialDiskSize
  /\ uuidTok = NULL
  /\ pc = "args"
  /\ ret = "none"
  /\ gh = NULL
  /\ hdr = [l \in {} |-> NULL]
  /\ arrays = {}

(* Lines 648-664: one iteration of the option loop.  "--disk-uuid" takes  *)
(* argv[i + 1] (NULL past the end); "--disk-size" fails unless sscanf     *)
(* returns 0, and does not skip its value.                               *)
ParseArg ==
  /\ pc = "args"
  /\ i < Len(args)
  /\ \/ /\ args[i + 1] = "--disk-uuid"
        /\ uuidTok' = IF i + 2 <= Len(args) THEN args[i + 2] ELSE NULL
        /\ i' = IF i + 2 <= Len(args) THEN i + 2 ELSE Len(args)
        /\ UNCHANGED <<pc, ret>>
     \/ /\ args[i + 1] = "--disk-size"
        /\ i + 2 > Len(args)
        /\ Fail
        /\ UNCHANGED <<i, uuidTok>>
     \/ /\ args[i + 1] = "--disk-size"
        /\ i + 2 <= Len(args)
        /\ Scanned(args[i + 2]) # 0
        /\ Fail
        /\ UNCHANGED <<i, uuidTok>>
     \/ /\ args[i + 1] = "--disk-size"
        /\ i + 2 <= Len(args)
        /\ Scanned(args[i + 2]) = 0
        /\ i' = i + 1
        /\ UNCHANGED <<pc, ret, uuidTok>>
     \/ /\ args[i + 1] \notin {"--disk-uuid", "--disk-size"}
        /\ Fail
        /\ UNCHANGED <<i, uuidTok>>
  /\ UNCHANGED <<args, diskSize, gh, hdr, arrays>>

(* Loop exit. *)
ArgsDone ==
  /\ pc = "args"
  /\ i = Len(args)
  /\ pc' = "validate"
  /\ UNCHANGED <<args, i, diskSize, uuidTok, ret, gh, hdr, arrays>>

(* Lines 666-699: the size check, sector padding and UUID parse. *)
Validate ==
  LET tok == IF uuidTok = NULL THEN "goodUuid" ELSE uuidTok
  IN
  /\ pc = "validate"
  /\ \/ /\ diskSize < MinimumSize
        /\ Fail
        /\ UNCHANGED <<diskSize, uuidTok>>
     \/ /\ diskSize >= MinimumSize
        /\ diskSize' = PadToSector(diskSize)
        /\ uuidTok' = tok
        /\ IF UuidParses(tok) THEN pc' = "open" /\ UNCHANGED ret ELSE Fail
  /\ UNCHANGED <<args, i, gh, hdr, arrays>>

(* Lines 701-711: create the image and write the MBR. *)
OpenImage ==
  /\ pc = "open"
  /\ \/ pc' = "primary" /\ UNCHANGED ret
     \/ Fail
  /\ UNCHANGED <<args, i, diskSize, uuidTok, gh, hdr, arrays>>

(* hdr with the header sector h written at LBA l. *)
Put(l, h) == [x \in DOMAIN hdr \cup {l} |-> IF x = l THEN h ELSE hdr[x]]

(* Lines 718-745: fill in the primary header, export it at LBA 1 and      *)
(* zero the primary entry array after it (LBA 2).                        *)
WritePrimary ==
  LET b == BackupLba(diskSize)
      g == [current |-> 1, backup |-> b, first |-> FirstUsableLba,
            last |-> LastUsableLba(b), partLba |-> 2, uuid |-> uuidTok]
  IN
  /\ pc = "primary"
  /\ gh' = g
  /\ \/ /\ hdr' = Put(1, Exported(g))
        /\ arrays' = arrays \cup {2}
        /\ pc' = "backupArray"
        /\ UNCHANGED ret
     \/ /\ Fail
        /\ UNCHANGED disk
  /\ UNCHANGED <<args, i, diskSize, uuidTok>>

(* Lines 749-755: zero the backup entry array before the backup header. *)
WriteBackupArray ==
  /\ pc = "backupArray"
  /\ \/ /\ arrays' = arrays \cup {BackupArrayLba(gh.backup)}
        /\ pc' = "backupHeader"
        /\ UNCHANGED ret
     \/ /\ Fail
        /\ UNCHANGED arrays
  /\ UNCHANGED <<args, i, diskSize, uuidTok, gh, hdr>>

(* Variant of WriteBackupHeader that does not point the backup header's *)
(* backup_lba back at LBA 1.                                             *)
WriteBackupHeaderKeepBackup ==
  LET b == gh.backup
      g == [gh EXCEPT !.partLba = ((b * SectorSize - ArrayBytes) - SectorSize)
                                    \div SectorSize,
                      !.current = b]
  IN
  /\ pc = "backupHeader"
  /\ \/ /\ gh' = g
        /\ hdr' = Put(b, Exported(g))
        /\ pc' = "crcPrimaryArray"
        /\ UNCHANGED ret
     \/ /\ Fail
        /\ UNCHANGED <<gh, hdr>>
     \/ /\ gh' = g
        /\ Fail
        /\ UNCHANGED hdr
  /\ UNCHANGED <<args, i, diskSize, uuidTok, arrays>>

(* Lines 759-779: mirror the struct for the backup header and export it  *)
(* at backup_lba.  Its partition-array LBA is computed at lines 767-770.  *)
WriteBackupHeader ==
  LET b == gh.backup
      g == [gh EXCEPT !.partLba = ((b * SectorSize - ArrayBytes) - SectorSize)
                                    \div SectorSize,
                      !.current = b,
                      !.backup = 1]
  IN
  /\ pc = "backupHeader"
  /\ \/ /\ gh' = g
        /\ hdr' = Put(b, Exported(g))
        /\ pc' = "crcPrimaryArray"
        /\ UNCHANGED ret
     \/ /\ Fail                                   \* fseek failed
        /\ UNCHANGED <<gh, hdr>>
     \/ /\ gh' = g                                \* short write
        /\ Fail
        /\ UNCHANGED hdr
  /\ UNCHANGED <<args, i, diskSize, uuidTok, arrays>>

(* Write a checksum field of the header sector at LBA l (4 bytes at      *)
(* l * 512 + 88 or + 16); bytes outside a header change no header.       *)
PatchArrayCrc(l, c) ==
  hdr' = IF l \in DOMAIN hdr THEN [hdr EXCEPT ![l].arrayCrc = c] ELSE hdr
PatchHdrCrc(l, c) ==
  hdr' = IF l \in DOMAIN hdr THEN [hdr EXCEPT ![l].hdrCrc = c] ELSE hdr

(* The checksum of the 16384 bytes read at LBA l: the arrays are zeroed, *)
(* and a hole of the freshly created file reads as zeros too.           *)
ArrayCrcAt(l) == CrcOver(ZeroArray)

(* Variant of CrcPrimaryArray that patches the checksum at the array's  *)
(* LBA (partition_headers_lba) instead of the header's.                  *)
CrcPrimaryArrayAtArray ==
  /\ pc = "crcPrimaryArray"
  /\ \/ /\ PatchArrayCrc(2, ArrayCrcAt(2))
        /\ pc' = "crcBackupArray"
        /\ UNCHANGED ret
     \/ /\ Fail
        /\ UNCHANGED hdr
  /\ UNCHANGED <<args, i, diskSize, uuidTok, gh, arrays>>

(* Lines 144-169: CRC of the primary array into the primary header. *)
CrcPrimaryArray ==
  /\ pc = "crcPrimaryArray"
  /\ \/ /\ PatchArrayCrc(1, ArrayCrcAt(2))
        /\ pc' = "crcBackupArray"
        /\ UNCHANGED ret
     \/ /\ Fail
        /\ UNCHANGED hdr
  /\ UNCHANGED <<args, i, diskSize, uuidTok, gh, arrays>>

(* Lines 171-205: read backup_lba from the primary header on disk, CRC   *)
(* the array at backup_lba * 512 - 16384 into the header at backup_lba.  *)
CrcBackupArray ==
  LET b == hdr[1].backup
  IN
  /\ pc = "crcBackupArray"
  /\ \/ /\ PatchArrayCrc(b, ArrayCrcAt(BackupArrayLba(b)))
        /\ pc' = "crcPrimaryHeader"
        /\ UNCHANGED ret
     \/ /\ Fail
        /\ UNCHANGED hdr
  /\ UNCHANGED <<args, i, diskSize, uuidTok, gh, arrays>>

(* Lines 93-131 for the header at LBA l: CRC the 92 bytes as they are on *)
(* disk (their checksum field included) into the field at offset 16.    *)
HeaderCrc(l) == PatchHdrCrc(l, CrcOver(hdr[l]))

(* Lines 218-222: the primary header's checksum. *)
CrcPrimaryHeader ==
  /\ pc = "crcPrimaryHeader"
  /\ \/ /\ HeaderCrc(1)
        /\ pc' = "crcBackupHeader"
        /\ UNCHANGED ret
     \/ /\ Fail
        /\ UNCHANGED hdr
  /\ UNCHANGED <<args, i, diskSize, uuidTok, gh, arrays>>

(* Variant of CrcBackupHeader that checksums the header at LBA 1 again *)
(* instead of the one at backup_lba.                                    *)
CrcBackupHeaderAtPrimary ==
  LET b == hdr[1].backup
  IN
  /\ pc = "crcBackupHeader"
  /\ \/ /\ b \in DOMAIN hdr
        /\ HeaderCrc(1)
        /\ pc' = "close"
        /\ UNCHANGED ret
     \/ /\ Fail
        /\ UNCHANGED hdr
  /\ UNCHANGED <<args, i, diskSize, uuidTok, gh, arrays>>

(* Lines 224-236: read backup_lba from the primary header again and      *)
(* checksum the header there.                                           *)
CrcBackupHeader ==
  LET b == hdr[1].backup
  IN
  /\ pc = "crcBackupHeader"
  /\ \/ /\ b \in DOMAIN hdr
        /\ HeaderCrc(b)
        /\ pc' = "close"
        /\ UNCHANGED ret
     \/ /\ Fail
        /\ UNCHANGED hdr
  /\ UNCHANGED <<args, i, diskSize, uuidTok, gh, arrays>>

(* Lines 787-789: fclose (unchecked) and EXIT_SUCCESS.  The backup       *)
(* header's checksum is the one write still buffered; a failing flush    *)
(* loses it.                                                            *)
CloseImage ==
  LET b == hdr[1].backup
  IN
  /\ pc = "close"
  /\ pc' = "done"
  /\ ret' = "ok"
  /\ \/ UNCHANGED hdr
     \/ PatchHdrCrc(b, Placeholder)
  /\ UNCHANGED <<args, i, diskSize, uuidTok, gh, arrays>>

Done == pc = "done" /\ UNCHANGED vars

Next ==
  \/ ParseArg \/ ArgsDone \/ Validate \/ OpenImage \/ WritePrimary
  \/ WriteBackupArray \/ WriteBackupHeader \/ CrcPrimaryArray
  \/ CrcBackupArray \/ CrcPrimaryHeader \/ CrcBackupHeader \/ CloseImage
  \/ Done

Spec == Init /\ [][Next]_vars

-----------------------------------------------------------------------------
(* The primary header and the header its backup_lba names. *)
Primary == hdr[1]
Backup == hdr[hdr[1].backup]

(* Property: once the checksum pass has finished, both GPT headers        *)
(* validate: each header's checksum is the CRC of its 92 bytes with the   *)
(* checksum field zeroed, and each array checksum is that of its array.  *)
(* It fails if the header checksums run before the array checksums       *)
(* (spec section 9).                                                     *)
ChecksumsValidate ==
  pc = "close" =>
    \A h \in {Primary, Backup} :
      /\ h.arrayCrc = CrcOver(ZeroArray)
      /\ h.hdrCrc = CrcOver(Zeroed(h))

(* Property: the backup header mirrors the primary one: it lives at the  *)
(* primary's backup_lba, names LBA 1 as its backup, and agrees on the    *)
(* usable range and the disk UUID.                                       *)
HeadersMirror ==
  (1 \in DOMAIN hdr /\ hdr[1].backup \in DOMAIN hdr) =>
    /\ Backup.current = Primary.backup
    /\ Backup.backup = Primary.current
    /\ Backup.first = Primary.first
    /\ Backup.last = Primary.last
    /\ Backup.uuid = Primary.uuid

(* Property: the primary header lays out a sound disk: MBR, header, the  *)
(* primary array at LBAs 2..33, a non-empty usable range, the backup     *)
(* array and the backup header in the last sector, in that order and     *)
(* without overlap.                                                     *)
GeometrySound ==
  1 \in DOMAIN hdr =>
    /\ Primary.current = 1
    /\ Primary.partLba = 2
    /\ Primary.partLba + ArrayBytes \div SectorSize <= Primary.first
    /\ Primary.first <= Primary.last
    /\ Primary.last < BackupArrayLba(Primary.backup)
    /\ Primary.backup = diskSize \div SectorSize - 1

(* Property: the backup header's partition-array LBA is where the backup *)
(* array was written and checksummed (backup_lba * 512 - 16384).         *)
BackupArrayWhereHeaderSays ==
  (1 \in DOMAIN hdr /\ hdr[1].backup \in DOMAIN hdr) =>
    Backup.partLba = BackupArrayLba(Primary.backup)

(* Property: when init returns EXIT_SUCCESS, both headers on disk        *)
(* validate ("write fully or fail", spec sections 1 and 7); the unchecked  *)
(* fclose of line 787 is the last step before that return.                *)
SuccessMeansValid ==
  ret = "ok" =>
    \A h \in {Primary, Backup} :
      /\ h.arrayCrc = CrcOver(ZeroArray)
      /\ h.hdrCrc = CrcOver(Zeroed(h))

(* Action property: the option loop does not reject a well-formed       *)
(* "--disk-size <number>" (spec section 4.5: the requested size is       *)
(* validated against the minimum, not refused outright).               *)
DiskSizeOptionAccepted ==
  [][ (/\ pc = "args" /\ i + 2 <= Len(args)
      /\ args[i + 1] = "--disk-size" /\ args[i + 2] = "num")
      => ret' # "fail" ]_vars
=============================================================================
