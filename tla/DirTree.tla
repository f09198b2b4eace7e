------------------------------- MODULE DirTree -------------------------------
(***************************************************************************)
(* The in-memory directory tree of src/src/lib/dir.c: pure64_dir_add_file, *)
(* pure64_dir_add_subdir (with pure64_dir_name_exists and the set_name     *)
(* calls they make) and the teardown pure64_dir_free.                      *)
(*                                                                         *)
(* A directory's children live in two heap arrays (files, subdirs) that   *)
(* grow by realloc.  The model keeps, per directory, the children each    *)
(* array logically holds and the heap block its pointer names, and the    *)
(* set of live heap blocks, so that a pointer to a freed block, a second  *)
(* pointer to one block, or a block no pointer names can be seen.  Path   *)
(* resolution (pure64_fs_make_file / make_dir, not under src/) is         *)
(* abstracted to choosing any directory of the tree.                      *)
(***************************************************************************)
EXTENDS Integers, Sequences, FiniteSets

CONSTANTS
  Names,    \* the names a command may create
  Nodes,    \* identities for directory and file nodes
  Root,     \* the root directory "/"
  Blocks,   \* heap blocks malloc/realloc can return
  NULL      \* the null pointer

ASSUME TreeAssumption ==
  /\ Root \in Nodes
  /\ NULL \notin Blocks
  /\ IsFiniteSet(Blocks)

VARIABLES
  nodes,     \* the nodes of the tree
  isDir,     \* isDir[n]: n is a struct pure64_dir (else a pure64_file)
  name,      \* name[n]
  subdirs,   \* subdirs[d]: d->subdirs[0 .. subdir_count - 1]
  files,     \* files[d]: d->files[0 .. file_count - 1]
  subdirsBlk,\* the block d->subdirs points to
  filesBlk,  \* the block d->files points to
  live,      \* the heap blocks allocated and not freed
  freed,     \* pure64_dir_free has torn the tree down
  ret        \* the result of the last operation

vars == <<nodes, isDir, name, subdirs, files, subdirsBlk, filesBlk, live,
          freed, ret>>

tree == <<nodes, isDir, name, subdirs, files>>
heap == <<subdirsBlk, filesBlk, live>>

Results == {"none", "ok", "EEXIST", "ENOMEM"}

TypeOK ==
  /\ nodes \subseteq Nodes
  /\ isDir \in [Nodes -> BOOLEAN]
  /\ name \in [Nodes -> Names \cup {NULL}]
  /\ subdirs \in [Nodes -> Seq(Nodes)]
  /\ files \in [Nodes -> Seq(Nodes)]
  /\ subdirsBlk \in [Nodes -> Blocks \cup {NULL}]
  /\ filesBlk \in [Nodes -> Blocks \cup {NULL}]
  /\ live \subseteq Blocks
  /\ freed \in BOOLEAN
  /\ ret \in Results

Elems(s) == {s[k] : k \in DOMAIN s}

Children(d) == Elems(files[d]) \cup Elems(subdirs[d])

(* Variant: a name check that only looks at the files of d. *)
NameExistsFilesOnly(d, n) == \E c \in Elems(files[d]) : name[c] = n

(* pure64_dir_name_exists (lines 203-218): a file or a subdirectory of d  *)
(* already has the name n.                                               *)
NameExists(d, n) == \E c \in Children(d) : name[c] = n

(* Variant: a NULL from realloc taken for a block. *)
ReallocUnchecked(p) == (IF p = NULL THEN {} ELSE {p}) \cup (Blocks \ live) \cup {NULL}

(* The blocks realloc(p, size) may return: p grown in place, or a block  *)
(* not in use; realloc(NULL, size) is malloc(size).                      *)
ReallocResults(p) == (IF p = NULL THEN {} ELSE {p}) \cup (Blocks \ live)

(* The live blocks after realloc(p) returned b: a moved block frees p.   *)
AfterRealloc(p, b) == IF p = NULL \/ b = p THEN live \cup {b}
                                          ELSE (live \ {p}) \cup {b}

-----------------------------------------------------------------------------
(* A pure64_fs_init'ed tree: the root directory with no children. *)
Init ==
  /\ nodes = {Root}
  /\ isDir = [n \in Nodes |-> n = Root]
  /\ name = [n \in Nodes |-> NULL]
  /\ subdirs = [n \in Nodes |-> <<>>]
  /\ files = [n \in Nodes |-> <<>>]
  /\ subdirsBlk = [n \in Nodes |-> NULL]
  /\ filesBlk = [n \in Nodes |-> NULL]
  /\ live = {}
  /\ freed = FALSE
  /\ ret = "none"

(* Lines 47-111, for the array arr/arrBlk of directory d (files or       *)
(* subdirs) and a new child that is a directory or not:                   *)
(*   - the name exists: PURE64_EEXIST, nothing changes;                  *)
(*   - realloc fails: PURE64_ENOMEM, the old array is intact;            *)
(*   - realloc returns b and set_name fails: PURE64_ENOMEM, and d keeps  *)
(*     its old pointer, which realloc freed if it moved the array;       *)
(*   - otherwise the array pointer becomes b and the count grows by one. *)
AddChild(d, n, arr, arrBlk, dir) ==
  /\ ~freed
  /\ d \in nodes
  /\ isDir[d]
  /\ \/ /\ NameExists(d, n)
        /\ ret' = "EEXIST"
        /\ UNCHANGED <<tree, heap>>
     \/ /\ ~NameExists(d, n)
        /\ ret' = "ENOMEM"
        /\ UNCHANGED <<tree, heap>>
     \/ /\ ~NameExists(d, n)
        /\ \E b \in ReallocResults(arrBlk[d]) :
             \/ /\ live' = AfterRealloc(arrBlk[d], b)
                /\ ret' = "ENOMEM"
                /\ UNCHANGED <<tree, subdirsBlk, filesBlk>>
             \/ /\ \E c \in Nodes \ nodes :
                     /\ nodes' = nodes \cup {c}
                     /\ isDir' = [isDir EXCEPT ![c] = dir]
                     /\ name' = [name EXCEPT ![c] = n]
                     /\ IF dir
                          THEN /\ subdirs' = [subdirs EXCEPT ![d] = Append(@, c)]
                               /\ subdirsBlk' = [subdirsBlk EXCEPT ![d] = b]
                               /\ UNCHANGED <<files, filesBlk>>
                          ELSE /\ files' = [files EXCEPT ![d] = Append(@, c)]
                               /\ filesBlk' = [filesBlk EXCEPT ![d] = b]
                               /\ UNCHANGED <<subdirs, subdirsBlk>>
                /\ live' = AfterRealloc(arrBlk[d], b)
                /\ ret' = "ok"
  /\ UNCHANGED freed

(* Variant of AddFile in which the new file is counted (dir->files and  *)
(* dir->file_count updated) before set_name, so that a failing set_name *)
(* leaves a nameless file in the directory.                            *)
AddFileCountFirst(d, n) ==
  \/ AddChild(d, n, files, filesBlk, FALSE)
  \/ /\ ~freed
     /\ d \in nodes
     /\ isDir[d]
     /\ ~NameExists(d, n)
     /\ \E b \in ReallocResults(filesBlk[d]), c \in Nodes \ nodes :
          /\ nodes' = nodes \cup {c}
          /\ files' = [files EXCEPT ![d] = Append(@, c)]
          /\ filesBlk' = [filesBlk EXCEPT ![d] = b]
          /\ live' = AfterRealloc(filesBlk[d], b)
     /\ ret' = "ENOMEM"
     /\ UNCHANGED <<isDir, name, subdirs, subdirsBlk, freed>>

(* pure64_dir_add_file (lines 47-78). *)
AddFile(d, n) == AddChild(d, n, files, filesBlk, FALSE)

(* pure64_dir_add_subdir (lines 80-111). *)
AddSubdir(d, n) == AddChild(d, n, subdirs, subdirsBlk, TRUE)

(* The blocks the tree's array pointers name. *)
Referenced == {subdirsBlk[d] : d \in nodes} \cup {filesBlk[d] : d \in nodes}

(* pure64_dir_free on the root (lines 29-45), when the command ends: it    *)
(* frees every array of every directory of the tree.                     *)
FreeTree ==
  /\ ~freed
  /\ freed' = TRUE
  /\ live' = live \ Referenced
  /\ ret' = "none"
  /\ UNCHANGED <<tree, subdirsBlk, filesBlk>>

Next ==
  \/ \E d \in Nodes, n \in Names : AddFile(d, n) \/ AddSubdir(d, n)
  \/ FreeTree
  \/ freed /\ UNCHANGED vars

Spec == Init /\ [][Next]_vars

(* The refinement mapping onto AbstractDir: a node's parent is the        *)
(* directory of the tree whose files or subdirs array holds it.          *)
ParentsOf == [x \in Nodes |-> {d \in nodes : x \in Children(d)}]

AD == INSTANCE AbstractDir WITH label <- name, parent <- ParentsOf, closed <- freed

-----------------------------------------------------------------------------
(* Property: no two children of one directory, files and subdirectories   *)
(* alike, share a name (spec section 3), after any sequence of adds.      *)
SiblingNamesUnique ==
  \A d \in nodes :
    /\ \A k1, k2 \in DOMAIN files[d] :
         k1 # k2 => name[files[d][k1]] # name[files[d][k2]]
    /\ \A k1, k2 \in DOMAIN subdirs[d] :
         k1 # k2 => name[subdirs[d][k1]] # name[subdirs[d][k2]]
    /\ \A f \in Elems(files[d]), s \in Elems(subdirs[d]) : name[f] # name[s]

(* Property: the tree owns its heap exactly: every array pointer names a   *)
(* live block, no block is named twice, and no live block is named by no *)
(* pointer (so the teardown frees every block once).                     *)
HeapOwned ==
  /\ \A d \in nodes :
       /\ subdirsBlk[d] \in live \cup {NULL}
       /\ filesBlk[d] \in live \cup {NULL}
  /\ \A d1, d2 \in nodes :
       /\ subdirsBlk[d1] # NULL => subdirsBlk[d1] # filesBlk[d2]
       /\ d1 # d2 => /\ subdirsBlk[d1] # NULL => subdirsBlk[d1] # subdirsBlk[d2]
                     /\ filesBlk[d1] # NULL => filesBlk[d1] # filesBlk[d2]
  /\ live \subseteq Referenced

(* Refinement: every behaviour of the code's tree (add_file, add_subdir   *)
(* with all their failures, and pure64_dir_free) is a behaviour of the   *)
(* abstract tree, a failed add being a stutter.                          *)
AbstractDirSpec == AD!Spec
=============================================================================
