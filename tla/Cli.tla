--------------------------------- MODULE Cli ---------------------------------
(***************************************************************************)
(* The command-line front end of src/src/util/pure64.c (main, lines        *)
(* 951-1029, and the commands it dispatches to), composed over successive *)
(* invocations on one image file.  init writes an empty GPT disk, mkfs a   *)
(* bootable image with an empty tree; every other command imports the     *)
(* tree from the image (ramfs_import, at the fixed PURE64_DISK_LOCATION),  *)
(* runs on it, and exports it again with ramfs_export, which rewrites the *)
(* whole file and puts the tree at its computed fs_offset.                *)
(*                                                                         *)
(* Only the file persists from one invocation to the next, so an          *)
(* invocation is one step.  The image is abstracted to its kind and the   *)
(* tree it holds; the tree to a set of entries under the root (path       *)
(* resolution is in fs.c and path.c, not in the repository).  The         *)
(* internals of the two writers are modelled by RamfsExport and GptInit;  *)
(* here each ends in success, a failure before its fopen (file unchanged) *)
(* or a failure after it (file truncated, "torn": a prefix of the image   *)
(* it was writing).                                                       *)
(*                                                                         *)
(* TLC only: the option loop is RECURSIVE.                                 *)
(***************************************************************************)
EXTENDS Integers, Sequences, FiniteSetsExt

CONSTANTS
  Stage2Size,    \* pure64_data_size of this build
  Stage3Size,    \* stage_three_data_size of this build
  DiskLocation,  \* PURE64_DISK_LOCATION (PURE64_FS_SECTOR * 512, fs.h)
  Names,         \* entry names a command may name
  DashArgs,      \* the arguments whose first character is '-'
  ArgVectors,    \* the argument vectors (argv[1 ..]) a user may run
  NULL           \* argv[argc]

VARIABLES
  disk,   \* the image file between invocations
  cmd,    \* the command word of the last invocation ("" if none)
  args,   \* its arguments
  read,   \* the tree its ramfs_import returned, or NULL
  ok      \* it exited with EXIT_SUCCESS

vars == <<disk, cmd, args, read, ok>>

Entry(k, n) == [kind |-> k, name |-> n]

Entries == {Entry(k, n) : k \in {"dir", "file"}, n \in Names}

Kinds == {"absent", "gpt", "boot", "tornGpt", "tornBoot"}

Image(k, t) == [kind |-> k, tree |-> t]

(* A torn image is a prefix of the one being written: "wb+" truncated the *)
(* file, and the writes run from its start (the MBR) to its end.         *)
TornKind == [gpt |-> "tornGpt", boot |-> "tornBoot"]

Complete(img) ==
  CASE img.kind = "tornGpt"  -> Image("gpt", img.tree)
    [] img.kind = "tornBoot" -> Image("boot", img.tree)
    [] OTHER                 -> img

(* pure64_init's default disk_size: the --disk-size option never takes. *)
GptDiskSize == 1048576

SectorRoundUp(x) == ((x + 511) \div 512) * 512

(* ramfs_export (lines 477-485): fs_offset from the unrounded stage 3.   *)
FsOffset == SectorRoundUp(8192 + Stage2Size + Stage3Size)

Stage3Offset == SectorRoundUp(8192 + Stage2Size)

(* PURE64_MINIMUM_DISK_SIZE (line 35): ramfs_export pads a shorter image *)
(* with zeros up to it (lines 557-559).                                  *)
MinimumDiskSize == 1048576

(* The bytes pure64_dir_export (dir.c 113-146) writes for the root and   *)
(* its subdirectories: a 24-byte header and the name of each.  The root  *)
(* is taken to have an empty name (pure64_fs_init is in fs.c, not in the *)
(* repository).  Files are not counted: their data has any length.       *)
DirBytes(t) ==
  24 + MapThenSumSet(LAMBDA e : 24 + Len(e.name), {e \in t : e.kind = "dir"})

HasFile(t) == \E e \in t : e.kind = "file"

(* What the 24 header bytes pure64_dir_import reads at loc of a complete *)
(* image are: the tree, zeros (a hole, a zeroed GPT array or padding),   *)
(* other bytes, or past the end.  In a boot image, past fs_offset come   *)
(* the tree's bytes, then the zero padding to the minimum size; a file's *)
(* data may reach any offset and hold anything.                          *)
WrittenRegions(img, loc) ==
  CASE img.kind = "gpt" ->
         IF loc < 1024 THEN {"garbage"}
         ELSE IF loc + 24 <= GptDiskSize - 512 THEN {"zeros"}
         ELSE IF loc < GptDiskSize THEN {"garbage"} ELSE {"eof"}
    [] img.kind = "boot" ->
         IF loc = FsOffset THEN {"tree"}
         ELSE IF loc < 512 THEN {"garbage"}
         ELSE IF loc < 8192 THEN {"zeros"}
         ELSE IF loc < 8192 + Stage2Size THEN {"garbage"}
         ELSE IF loc < Stage3Offset THEN {"zeros"}
         ELSE IF loc < Stage3Offset + Stage3Size THEN {"garbage"}
         ELSE IF loc < FsOffset THEN {"zeros"}
         ELSE IF loc < FsOffset + DirBytes(img.tree) THEN {"garbage"}
         ELSE IF HasFile(img.tree) THEN {"garbage", "zeros"}
         ELSE IF loc + 24 <= MinimumDiskSize THEN {"zeros"}
         ELSE {"zeros", "eof"}
    [] OTHER -> {}

(* A torn image holds what the complete one would at loc, or ends before. *)
Regions(img, loc) ==
  IF img.kind \in {"tornGpt", "tornBoot"}
  THEN WrittenRegions(Complete(img), loc) \cup {"eof"}
  ELSE WrittenRegions(img, loc)

Read(t) == [ok |-> TRUE, tree |-> t]

Failed == [ok |-> FALSE, tree |-> {}]

(* ramfs_import (lines 594-629): fopen "rb" fails on a missing file; a    *)
(* read or an allocation may fail anywhere; zeros decode to an empty      *)
(* root, other bytes to anything.                                         *)
ImportResults(img) ==
  {Failed} \cup UNION {CASE r = "tree"    -> {Read(img.tree)}
                         [] r = "zeros"   -> {Read({})}
                         [] r = "garbage" -> {Read(t) : t \in SUBSET Entries}
                         [] r = "eof"     -> {}
                       : r \in Regions(img, DiskLocation)}

Outcome(o, img) == [ok |-> o, img |-> img]

(* ramfs_export of tree t (lines 429-592): its result and the image it   *)
(* leaves.                                                               *)
ExportResults(img, t) ==
  {Outcome(TRUE, Image("boot", t)), Outcome(FALSE, img),
   Outcome(FALSE, Image(TornKind.boot, t))}

(* pure64_init (lines 635-790): its result and the image it leaves. *)
InitResults(img) ==
  {Outcome(TRUE, Image("gpt", {})), Outcome(FALSE, img),
   Outcome(FALSE, Image(TornKind.gpt, {}))}

NameTaken(t, n) == \E k \in {"dir", "file"} : Entry(k, n) \in t

(* pure64_cat (lines 792-808): every argument must open as a file. *)
CatResults(as, t) ==
  IF \A i \in DOMAIN as : Entry("file", as[i]) \in t THEN {Read(t)} ELSE {Failed}

(* pure64_ls (lines 884-911): "/" by default; every argument a directory. *)
LsResults(as, t) ==
  IF \A i \in DOMAIN as : as[i] = "/" \/ Entry("dir", as[i]) \in t
  THEN {Read(t)} ELSE {Failed}

RECURSIVE MkdirFromSkipLast(_, _, _)
(* Variant: the loop stops one argument early. *)
MkdirFromSkipLast(as, k, t) ==
  IF k >= Len(as) THEN {Read(t)}
  ELSE IF NameTaken(t, as[k]) THEN {Failed}
  ELSE {Failed} \cup MkdirFromSkipLast(as, k + 1, t \cup {Entry("dir", as[k])})

(* pure64_mkdir (lines 913-926): one pure64_fs_make_dir per argument    *)
(* from the k-th, the first failure (EEXIST, ENOMEM) ending the command. *)
RECURSIVE MkdirFrom(_, _, _)
MkdirFrom(as, k, t) ==
  IF k > Len(as) THEN {Read(t)}
  ELSE IF NameTaken(t, as[k]) THEN {Failed}
  ELSE {Failed} \cup MkdirFrom(as, k + 1, t \cup {Entry("dir", as[k])})

(* Variant: the file is named after the host path, argv[1], not argv[2]. *)
CpResultsHostName(as, t) ==
  IF Len(as) <= 1 THEN {Failed}
  ELSE {Failed} \cup IF NameTaken(t, as[2]) THEN {}
                     ELSE {Read(t \cup {Entry("file", as[1])})}

(* pure64_cp (lines 810-882): two arguments; the host file may fail to    *)
(* open or size; pure64_fs_make_file fails on a taken name; the malloc   *)
(* and the fread of the data may fail.                                   *)
CpResults(as, t) ==
  IF Len(as) <= 1 THEN {Failed}
  ELSE {Failed} \cup IF NameTaken(t, as[2]) THEN {}
                     ELSE {Read(t \cup {Entry("file", as[2])})}

(* The command of lines 999-1012 on the imported tree t; rm and rmdir   *)
(* have empty branches and leave err as ramfs_import set it.             *)
CommandResults(c, as, t) ==
  CASE c = "cat"   -> CatResults(as, t)
    [] c = "cp"    -> CpResults(as, t)
    [] c = "ls"    -> LsResults(as, t)
    [] c = "mkdir" -> MkdirFrom(as, 1, t)
    [] c \in {"rm", "rmdir"} -> {Read(t)}
    [] OTHER       -> {Failed}   \* "Unknown command"

(* check_opt (lines 376-399): arg is "-" s_opt or "--" opt. *)
CheckOpt(arg, opt, sopt) == arg = "-" \o sopt \/ arg = "--" \o opt

(* is_opt (lines 418-423): the argument starts with '-'. *)
IsOpt(arg) == arg \in DashArgs

RECURSIVE ParseOpts(_, _, _)
(* main's option loop (lines 957-971) from argument i with the file name *)
(* so far, and the checks of lines 973-981 after it.                     *)
ParseOpts(av, i, file) ==
  IF i > Len(av) THEN [status |-> IF file = NULL THEN "nofile" ELSE "nocmd"]
  ELSE CASE CheckOpt(av[i], "help", "h") -> [status |-> "help"]
         [] CheckOpt(av[i], "file", "f") ->
              ParseOpts(av, i + 2, IF i + 1 <= Len(av) THEN av[i + 1] ELSE NULL)
         [] IsOpt(av[i]) -> [status |-> "unknown"]
         [] OTHER -> IF file = NULL THEN [status |-> "nofile"]
                     ELSE [status |-> "cmd", cmd |-> av[i],
                           args |-> SubSeq(av, i + 1, Len(av))]

Parsed(av) == ParseOpts(av, 1, "pure64.img")

TypeOK ==
  /\ disk \in [kind : Kinds, tree : SUBSET Entries]
  /\ cmd \in STRING
  /\ args \in Seq(STRING)
  /\ read \in SUBSET Entries \cup {NULL}
  /\ ok \in BOOLEAN

Init ==
  /\ disk = Image("absent", {})
  /\ cmd = ""
  /\ args = <<>>
  /\ read = NULL
  /\ ok = FALSE

(* Lines 957-981: --help, an unknown option, -f without a name or no      *)
(* command: main returns EXIT_FAILURE before touching the file.          *)
Rejected ==
  \E av \in ArgVectors :
    /\ Parsed(av).status # "cmd"
    /\ cmd' = "" /\ args' = <<>> /\ read' = NULL /\ ok' = FALSE
    /\ UNCHANGED disk

(* Lines 985-986: pure64_init. *)
RunInit ==
  \E av \in ArgVectors :
    /\ Parsed(av).status = "cmd" /\ Parsed(av).cmd = "init"
    /\ \E o \in InitResults(disk) : disk' = o.img /\ ok' = o.ok
    /\ cmd' = "init" /\ args' = Parsed(av).args /\ read' = NULL

(* Lines 987-988: pure64_mkfs (lines 928-949) exports a fresh tree. *)
RunMkfs ==
  \E av \in ArgVectors :
    /\ Parsed(av).status = "cmd" /\ Parsed(av).cmd = "mkfs"
    /\ \E o \in ExportResults(disk, {}) : disk' = o.img /\ ok' = o.ok
    /\ cmd' = "mkfs" /\ args' = Parsed(av).args /\ read' = NULL

(* Lines 991-1029: import, run the command, export, free.  A failed      *)
(* import or command returns before ramfs_export touches the file.       *)
RunTreeCommand ==
  \E av \in ArgVectors :
    LET p == Parsed(av) IN
    /\ p.status = "cmd" /\ p.cmd \notin {"init", "mkfs"}
    /\ cmd' = p.cmd /\ args' = p.args
    /\ \E r \in ImportResults(disk) :
         \/ /\ ~r.ok
            /\ read' = NULL /\ ok' = FALSE /\ UNCHANGED disk
         \/ /\ r.ok
            /\ read' = r.tree
            /\ \E c \in CommandResults(p.cmd, p.args, r.tree) :
                 \/ ~c.ok /\ ok' = FALSE /\ UNCHANGED disk
                 \/ /\ c.ok
                    /\ \E o \in ExportResults(disk, c.tree) :
                         disk' = o.img /\ ok' = o.ok

Next == Rejected \/ RunInit \/ RunMkfs \/ RunTreeCommand

Spec == Init /\ [][Next]_vars

-----------------------------------------------------------------------------
(* A tree command run on an image mkfs or an earlier command built reads  *)
(* back exactly the tree that image holds (ramfs_import at                *)
(* PURE64_DISK_LOCATION against ramfs_export at fs_offset).               *)
ImportReadsExported ==
  [][disk.kind = "boot" /\ read' # NULL => read' = disk.tree]_vars

(* mkdir is all or nothing on the image: when it exits with success,     *)
(* every directory it names is in the image's tree; when one of them      *)
(* fails part-way through pure64_mkdir's loop (EEXIST, ENOMEM), main      *)
(* returns before ramfs_export, so the directories made before it in     *)
(* memory never reach the file, which keeps its tree.                    *)
MkdirAllOrNothing ==
  [][cmd' = "mkdir" /\ disk.kind = "boot" =>
       IF ok' THEN \A k \in DOMAIN args' : Entry("dir", args'[k]) \in disk'.tree
       ELSE disk' = disk \/ disk'.kind = "tornBoot"]_vars

(* The image is at once a GPT disk and a file tree (spec section 1): a    *)
(* tree command that succeeds on a disk init built leaves it a GPT disk.  *)
GptKept ==
  [][disk.kind = "gpt" /\ cmd' \notin {"init", "mkfs"} /\ ok' =>
       disk'.kind = "gpt"]_vars

(* print_help: "rm : Remove a file."  After a successful rm the files it  *)
(* names are gone from the image.                                         *)
RmRemoves ==
  [][cmd' = "rm" /\ ok' =>
       \A i \in DOMAIN args' : Entry("file", args'[i]) \notin disk'.tree]_vars
=============================================================================
