------------------------------ MODULE TreeCodec ------------------------------
(***************************************************************************)
(* The tree codec of src/src/lib/dir.c: pure64_dir_export writes a         *)
(* directory pre-order (three 64-bit counts, the name bytes, the          *)
(* subdirectories, the files); pure64_dir_import reads it back, allocating *)
(* the name and both child arrays before it recurses; pure64_dir_free      *)
(* tears the result down.  main (src/src/util/pure64.c lines 991-995)      *)
(* calls pure64_fs_free on the tree whatever pure64_fs_import returned.    *)
(*                                                                         *)
(* The wire is a sequence of tokens: a U64 per encode_uint64 and one       *)
(* Bytes token per non-empty byte string.  A read error (a short fread, a *)
(* truncated image) is a stream that ends after any token.  Each malloc    *)
(* may return NULL.  A decoded struct pure64_dir keeps, besides its        *)
(* fields, the state of the three blocks it points to: "null", "live",    *)
(* "freed" (freed but still pointed to) or "garbage" (never initialised).  *)
(* pure64_file_* live in file.c, which is not in the repository: a file is *)
(* encoded like a directory header plus its data and its slot is freed    *)
(* cleanly once initialised.                                               *)
(*                                                                         *)
(* TLC only: the codec is RECURSIVE.                                       *)
(***************************************************************************)
EXTENDS Integers, Sequences, SequencesExt

CONSTANTS
  Trees   \* the in-memory trees a command may export

Empty == ""   \* a name or a file's data of size 0 (a NULL name exports so)

VARIABLES
  tree,    \* the tree ramfs_export serialised
  image,   \* the tokens pure64_fs_export wrote at the file-system offset
  mem,     \* the struct pure64_dir pure64_fs_import filled in
  err,     \* what pure64_fs_import returned
  faults,  \* what pure64_fs_free did wrong while tearing mem down:
           \* double_free, free_garbage, null_index, use_after_free
  pc

vars == <<tree, image, mem, err, faults, pc>>

U64(n) == [t |-> "u64", v |-> n]

(* The bytes of a name or of file data: nothing on the wire when empty. *)
Bytes(x) == IF x = Empty THEN <<>> ELSE <<[t |-> "bytes", v |-> x]>>

ByteSize(x) == IF x = Empty THEN 0 ELSE 1

(* pure64_dir_init (dir.c lines 20-27): zero counts, NULL pointers. *)
Fresh == [nameSize |-> 0, subdirCount |-> 0, fileCount |-> 0, name |-> Empty,
          nameBuf |-> "null", subdirsBuf |-> "null", filesBuf |-> "null",
          subdirs |-> <<>>, files |-> <<>>]

(* A slot of a freshly malloc'd child array, not yet initialised. *)
Garbage == [Fresh EXCEPT !.nameBuf = "garbage", !.subdirsBuf = "garbage",
                         !.filesBuf = "garbage"]

FreshFile == [name |-> Empty, data |-> Empty, init |-> TRUE]

GarbageFile == [FreshFile EXCEPT !.init = FALSE]

Res(e, d, q) == [err |-> e, dir |-> d, pos |-> q]

(* pure64_file_export (file.c): the name and data sizes, then the bytes. *)
EncodeFile(f) ==
  <<U64(ByteSize(f.name)), U64(ByteSize(f.data))>>
  \o Bytes(f.name) \o Bytes(f.data)

(* Variant: the subdirectories written last to first. *)
RECURSIVE EncodeSubdirsReversed(_)
EncodeSubdirsReversed(d) ==
  <<U64(ByteSize(d.name)), U64(Len(d.subdirs)), U64(Len(d.files))>>
  \o Bytes(d.name)
  \o FlattenSeq([i \in DOMAIN d.subdirs |->
                   EncodeSubdirsReversed(d.subdirs[Len(d.subdirs) + 1 - i])])
  \o FlattenSeq([i \in DOMAIN d.files |-> EncodeFile(d.files[i])])

(* pure64_dir_export (lines 113-146). *)
RECURSIVE Encode(_)
Encode(d) ==
  <<U64(ByteSize(d.name)), U64(Len(d.subdirs)), U64(Len(d.files))>>
  \o Bytes(d.name)
  \o FlattenSeq([i \in DOMAIN d.subdirs |-> Encode(d.subdirs[i])])
  \o FlattenSeq([i \in DOMAIN d.files |-> EncodeFile(d.files[i])])

(* pure64_file_import (file.c): a short read or a failed malloc leaves the *)
(* initialised slot f as it was.                                         *)
DecodeFile(s, p, f) ==
  IF p + 1 > Len(s) THEN {Res("EIO", f, p)}
  ELSE LET nsz == s[p].v
           dsz == s[p + 1].v
           q   == p + 2 + nsz
       IN {Res("ENOMEM", f, p + 2)}
          \cup IF q + dsz - 1 > Len(s) THEN {Res("EIO", f, q)}
               ELSE {Res("ok", [name |-> IF nsz = 0 THEN Empty ELSE s[p + 2].v,
                                data |-> IF dsz = 0 THEN Empty ELSE s[q].v,
                                init |-> TRUE], q + dsz)}

(* Which of the three mallocs of lines 164-166 returned NULL (one at least). *)
AllocFailures ==
  {a \in [{"name", "subdirs", "files"} -> {"live", "null"}] :
     \E b \in DOMAIN a : a[b] = "null"}

(* Lines 167-173: the blocks that were allocated are freed and the        *)
(* pointers to them kept.                                                 *)
Released(d, a) ==
  [d EXCEPT !.nameBuf    = IF a["name"] = "live" THEN "freed" ELSE "null",
            !.subdirsBuf = IF a["subdirs"] = "live" THEN "freed" ELSE "null",
            !.filesBuf   = IF a["files"] = "live" THEN "freed" ELSE "null"]

RECURSIVE DecodeDir(_, _, _), DecodeSubdirs(_, _, _, _), DecodeFiles(_, _, _, _)

(* pure64_dir_import (lines 148-201) from token p of s into the struct d: *)
(* the set of its possible results.                                      *)
DecodeDir(s, p, d) ==
  IF p > Len(s) THEN {Res("EIO", d, p)}
  ELSE LET d1 == [d EXCEPT !.nameSize = s[p].v] IN
  IF p + 1 > Len(s) THEN {Res("EIO", d1, p + 1)}
  ELSE LET d2 == [d1 EXCEPT !.subdirCount = s[p + 1].v] IN
  IF p + 2 > Len(s) THEN {Res("EIO", d2, p + 2)}
  ELSE LET d3 == [d2 EXCEPT !.fileCount = s[p + 2].v]
           d4 == [d3 EXCEPT !.nameBuf = "live", !.subdirsBuf = "live",
                     !.filesBuf = "live",
                     !.subdirs = [i \in 1 .. d3.subdirCount |-> Garbage],
                     !.files = [i \in 1 .. d3.fileCount |-> GarbageFile]]
           q  == p + 3 + (IF d3.nameSize = 0 THEN 0 ELSE 1)
           d5 == [d4 EXCEPT !.name = IF d3.nameSize = 0 THEN Empty ELSE s[p + 3].v,
                     !.subdirs = [i \in 1 .. d3.subdirCount |-> Fresh],
                     !.files = [i \in 1 .. d3.fileCount |-> FreshFile]]
       IN {Res("ENOMEM", Released(d3, a), p + 3) : a \in AllocFailures}
          \cup IF q - 1 > Len(s) THEN {Res("EIO", d4, p + 3)}
               ELSE DecodeSubdirs(s, q, d5, 1)

(* Lines 188-192: subdirectory i onwards; the first error is returned. *)
DecodeSubdirs(s, p, d, i) ==
  IF i > d.subdirCount THEN DecodeFiles(s, p, d, 1)
  ELSE UNION {LET d1 == [d EXCEPT !.subdirs[i] = r.dir] IN
                IF r.err = "ok" THEN DecodeSubdirs(s, r.pos, d1, i + 1)
                ELSE {Res(r.err, d1, r.pos)}
              : r \in DecodeDir(s, p, d.subdirs[i])}

(* Lines 194-198: file i onwards. *)
DecodeFiles(s, p, d, i) ==
  IF i > d.fileCount THEN {Res("ok", d, p)}
  ELSE UNION {LET d1 == [d EXCEPT !.files[i] = r.dir] IN
                IF r.err = "ok" THEN DecodeFiles(s, r.pos, d1, i + 1)
                ELSE {Res(r.err, d1, r.pos)}
              : r \in DecodeFile(s, p, d.files[i])}

(* What free() of a block in state b does wrong. *)
FreeFault(b) == CASE b = "freed"   -> {"double_free"}
                  [] b = "garbage" -> {"free_garbage"}
                  [] OTHER         -> {}

(* What indexing count > 0 slots of an array in state b does wrong. *)
IndexFault(b, count) ==
  IF count = 0 THEN {}
  ELSE CASE b = "null"    -> {"null_index"}
         [] b = "freed"   -> {"use_after_free"}
         [] b = "garbage" -> {"free_garbage"}
         [] OTHER         -> {}

(* pure64_file_free (file.c) on a slot: only an uninitialised one is bad. *)
FileFaults(f) == IF f.init THEN {} ELSE {"free_garbage"}

(* Variant: the child arrays freed before the children are torn down. *)
RECURSIVE FreeFaultsArraysFirst(_)
FreeFaultsArraysFirst(d) ==
  FreeFault(d.nameBuf) \cup FreeFault(d.subdirsBuf) \cup FreeFault(d.filesBuf)
  \cup IndexFault(IF d.subdirsBuf = "live" THEN "freed" ELSE d.subdirsBuf,
                  d.subdirCount)
  \cup IndexFault(IF d.filesBuf = "live" THEN "freed" ELSE d.filesBuf,
                  d.fileCount)

(* pure64_dir_free (lines 29-45): the faults of tearing d down. *)
RECURSIVE FreeFaults(_)
FreeFaults(d) ==
  FreeFault(d.nameBuf)
  \cup IndexFault(d.subdirsBuf, d.subdirCount)
  \cup (IF d.subdirsBuf = "live"
        THEN UNION {FreeFaults(d.subdirs[i]) : i \in DOMAIN d.subdirs} ELSE {})
  \cup IndexFault(d.filesBuf, d.fileCount)
  \cup (IF d.filesBuf = "live"
        THEN UNION {FileFaults(d.files[i]) : i \in DOMAIN d.files} ELSE {})
  \cup FreeFault(d.subdirsBuf) \cup FreeFault(d.filesBuf)

(* The tree a struct pure64_dir holds: names, order and file data. *)
RECURSIVE Contents(_)
Contents(d) ==
  [name    |-> d.name,
   subdirs |-> [i \in DOMAIN d.subdirs |-> Contents(d.subdirs[i])],
   files   |-> [i \in DOMAIN d.files |->
                  [name |-> d.files[i].name, data |-> d.files[i].data]]]

Init ==
  /\ tree \in Trees
  /\ image = <<>>
  /\ mem = Fresh          \* pure64_fs_init
  /\ err = "none"
  /\ faults = {}
  /\ pc = "export"

(* ramfs_export's pure64_fs_export call (pure64.c line 543). *)
Export ==
  /\ pc = "export"
  /\ image' = Encode(tree)
  /\ pc' = "import"
  /\ UNCHANGED <<tree, mem, err, faults>>

(* ramfs_import (pure64.c lines 594-632) of a later command: the stream   *)
(* gives out after k tokens (k = Len(image): it does not).               *)
Import ==
  /\ pc = "import"
  /\ \E k \in 0 .. Len(image) :
       \E r \in DecodeDir(SubSeq(image, 1, k), 1, mem) :
         /\ mem' = r.dir
         /\ err' = r.err
  /\ pc' = "free"
  /\ UNCHANGED <<tree, image, faults>>

(* pure64_fs_free (pure64.c line 995 or 1026) tears the tree down. *)
Free ==
  /\ pc = "free"
  /\ faults' = FreeFaults(mem)
  /\ pc' = "done"
  /\ UNCHANGED <<tree, image, mem, err>>

Done == pc = "done" /\ UNCHANGED vars

Next == Export \/ Import \/ Free \/ Done

Spec == Init /\ [][Next]_vars

-----------------------------------------------------------------------------
(* Round trip (spec: import(export(tree)) reproduces the tree): when      *)
(* pure64_dir_import returns 0 on the stream pure64_dir_export wrote, the *)
(* structs it filled hold the same names, order and file data.            *)
RoundTrip ==
  pc \in {"free", "done"} /\ err = "ok" => Contents(mem) = tree

(* A successfully imported tree is torn down by pure64_dir_free without   *)
(* a bad free or a bad index.                                             *)
ImportedTreeFreesCleanly ==
  pc = "done" /\ err = "ok" => faults = {}

(* After pure64_dir_import failed for want of memory (lines 167-173),     *)
(* pure64_fs_free frees no block a second time.                           *)
NoDoubleFree == "double_free" \notin faults

(* After a read of the name failed (lines 176-178), pure64_fs_free frees *)
(* no pointer out of a child slot that was never initialised.            *)
NoGarbageFree == "free_garbage" \notin faults

(* After a count was read and a later one was not (lines 156-162),        *)
(* pure64_dir_free indexes no child array that is still NULL.             *)
NoNullIndex == "null_index" \notin faults
=============================================================================
