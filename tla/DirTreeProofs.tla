---------------------------- MODULE DirTreeProofs ----------------------------
(***************************************************************************)
(* Proofs about DirTree for all names, nodes and heap blocks: the tree    *)
(* stays well formed, and the code's tree implements AbstractDir under    *)
(* the mapping parent = the directory whose array holds the node.         *)
(***************************************************************************)
EXTENDS DirTree, SequenceTheorems, TLAPS

USE TreeAssumption

(* The structural invariant the refinement needs: every child of a node   *)
(* of the tree is in the tree, and a node not yet in the tree has empty   *)
(* arrays, so a fresh node is nobody's child and has no children.         *)
Inv ==
  /\ TypeOK
  /\ Root \in nodes
  /\ \A d \in nodes : Children(d) \subseteq nodes
  /\ \A x \in Nodes \ nodes : files[x] = <<>> /\ subdirs[x] = <<>>

(* The elements of s with e appended are those of s and e. *)
LEMMA ElemsAppend ==
  ASSUME NEW S, NEW s \in Seq(S), NEW e \in S
  PROVE  Elems(Append(s, e)) = Elems(s) \cup {e}
BY AppendProperties DEF Elems

(* An empty array holds nothing. *)
LEMMA ElemsEmpty == Elems(<<>>) = {}
BY DEF Elems

(* realloc returns a block, and the live set stays a set of blocks. *)
LEMMA ReallocTyped ==
  ASSUME TypeOK, NEW p \in Blocks \cup {NULL}, NEW b \in ReallocResults(p)
  PROVE  /\ b \in Blocks
         /\ AfterRealloc(p, b) \subseteq Blocks
BY DEF TypeOK, ReallocResults, AfterRealloc

LEMMA InvInit == Init => Inv
<1> SUFFICES ASSUME Init PROVE Inv
  OBVIOUS
<1>1. TypeOK
  <2>1. nodes \subseteq Nodes /\ isDir \in [Nodes -> BOOLEAN]
    BY DEF Init
  <2>2. name \in [Nodes -> Names \cup {NULL}]
    BY DEF Init
  <2>3. subdirs \in [Nodes -> Seq(Nodes)] /\ files \in [Nodes -> Seq(Nodes)]
    BY DEF Init
  <2>4. subdirsBlk \in [Nodes -> Blocks \cup {NULL}]
        /\ filesBlk \in [Nodes -> Blocks \cup {NULL}]
    BY DEF Init
  <2>5. live \subseteq Blocks /\ freed \in BOOLEAN /\ ret \in Results
    BY DEF Init, Results
  <2>6. QED
    BY <2>1, <2>2, <2>3, <2>4, <2>5 DEF TypeOK
<1>2. \A d \in nodes : Children(d) \subseteq nodes
  BY DEF Init, Children, Elems
<1>3. \A x \in Nodes \ nodes : files[x] = <<>> /\ subdirs[x] = <<>>
  BY DEF Init
<1>4. QED
  BY <1>1, <1>2, <1>3 DEF Init, Inv

(* A step that leaves the tree as it was is an abstract stutter. *)
LEMMA TreeUnchangedStutters ==
  ASSUME UNCHANGED <<tree, freed>>
  PROVE  UNCHANGED AD!avars
<1>1. ParentsOf' = ParentsOf
  BY DEF tree, ParentsOf, Children, Elems
<1>2. QED
  BY <1>1 DEF tree, AD!avars

(* pure64_dir_add_file keeps the invariant and is an abstract insert of a *)
(* file or, when it fails, a stutter.                                     *)
LEMMA AddFileStep ==
  ASSUME Inv, NEW d \in Nodes, NEW n \in Names, AddFile(d, n)
  PROVE  Inv' /\ [AD!Next]_AD!avars
<1>t. TypeOK
  BY DEF Inv
<1>0. /\ ~freed /\ d \in nodes /\ isDir[d] /\ UNCHANGED freed
  BY DEF AddFile, AddChild
<1>h. filesBlk[d] \in Blocks \cup {NULL}
  BY <1>t DEF TypeOK
<1>a. CASE UNCHANGED <<tree, heap>> /\ ret' \in {"EEXIST", "ENOMEM"}
  <2>1. Inv'
    <3>1. TypeOK'
      BY <1>a, <1>t, <1>0 DEF TypeOK, Results, tree, heap
    <3>2. \A x \in nodes' : Children(x)' \subseteq nodes'
      BY <1>a DEF Inv, tree, Children, Elems
    <3>3. QED
      BY <1>a, <3>1, <3>2 DEF Inv, tree
  <2>2. UNCHANGED AD!avars
    BY <1>a, <1>0, TreeUnchangedStutters
  <2>3. QED
    BY <2>1, <2>2
<1>b. CASE \E b \in ReallocResults(filesBlk[d]) :
             /\ live' = AfterRealloc(filesBlk[d], b)
             /\ ret' = "ENOMEM"
             /\ UNCHANGED <<tree, subdirsBlk, filesBlk>>
  <2>1. PICK b \in ReallocResults(filesBlk[d]) :
             /\ live' = AfterRealloc(filesBlk[d], b)
             /\ ret' = "ENOMEM"
             /\ UNCHANGED <<tree, subdirsBlk, filesBlk>>
    BY <1>b
  <2>2. live' \subseteq Blocks
    BY <2>1, <1>t, <1>h, ReallocTyped
  <2>3. Inv'
    BY <2>1, <2>2, <1>0 DEF Inv, TypeOK, Results, tree, Children, Elems
  <2>4. UNCHANGED AD!avars
    BY <2>1, <1>0, TreeUnchangedStutters
  <2>5. QED
    BY <2>3, <2>4
<1>c. CASE /\ ~NameExists(d, n)
           /\ \E b \in ReallocResults(filesBlk[d]) :
                /\ \E c \in Nodes \ nodes :
                     /\ nodes' = nodes \cup {c}
                     /\ isDir' = [isDir EXCEPT ![c] = FALSE]
                     /\ name' = [name EXCEPT ![c] = n]
                     /\ files' = [files EXCEPT ![d] = Append(@, c)]
                     /\ filesBlk' = [filesBlk EXCEPT ![d] = b]
                     /\ UNCHANGED <<subdirs, subdirsBlk>>
                /\ live' = AfterRealloc(filesBlk[d], b)
                /\ ret' = "ok"
  <2>1. PICK b \in ReallocResults(filesBlk[d]), c \in Nodes \ nodes :
             /\ nodes' = nodes \cup {c}
             /\ isDir' = [isDir EXCEPT ![c] = FALSE]
             /\ name' = [name EXCEPT ![c] = n]
             /\ files' = [files EXCEPT ![d] = Append(@, c)]
             /\ filesBlk' = [filesBlk EXCEPT ![d] = b]
             /\ UNCHANGED <<subdirs, subdirsBlk>>
             /\ live' = AfterRealloc(filesBlk[d], b)
             /\ ret' = "ok"
    BY <1>c
  <2>2. c # d /\ c \notin nodes
    BY <2>1, <1>0
  <2>3. files[d] \in Seq(Nodes) /\ c \in Nodes
    BY <1>t, <2>1 DEF TypeOK
  <2>4. Children(d)' = Children(d) \cup {c}
    BY <2>1, <2>3, <1>t, ElemsAppend DEF Children, TypeOK
  <2>5. \A x \in Nodes \ {d} : Children(x)' = Children(x)
    BY <2>1, <1>t DEF Children, Elems, TypeOK
  <2>6. Children(c) = {}
    BY <2>2, <2>3 DEF Inv, Children, Elems
  <2>7. TypeOK'
    <3>1. b \in Blocks /\ live' \subseteq Blocks
      BY <2>1, <1>t, <1>h, ReallocTyped
    <3>2. files'[d] \in Seq(Nodes)
      BY <2>1, <2>3, <1>t, AppendProperties DEF TypeOK
    <3>3. QED
      BY <2>1, <3>1, <3>2, <1>t, <1>0, <2>3 DEF TypeOK, Results
  <2>8. Inv'
    <3>1. Root \in nodes'
      BY <2>1 DEF Inv
    <3>2. \A x \in nodes' : Children(x)' \subseteq nodes'
      <4>1. Children(d)' \subseteq nodes'
        BY <2>1, <2>4, <1>0 DEF Inv
      <4>2. Children(c)' \subseteq nodes'
        BY <2>2, <2>3, <2>5, <2>6
      <4>3. ASSUME NEW x \in nodes, x # d PROVE Children(x)' \subseteq nodes'
        BY <4>3, <2>1, <2>5, <1>t DEF Inv, TypeOK
      <4>4. QED
        BY <4>1, <4>2, <4>3, <2>1
    <3>3. \A x \in Nodes \ nodes' : files'[x] = <<>> /\ subdirs'[x] = <<>>
      BY <2>1, <2>2, <1>0, <1>t DEF Inv, TypeOK
    <3>4. QED
      BY <2>7, <3>1, <3>2, <3>3 DEF Inv
  <2>9. ParentsOf' = [ParentsOf EXCEPT ![c] = {d}]
    <3>1. ParentsOf'[c] = {d}
      <4>1. ASSUME NEW x \in nodes' PROVE c \in Children(x)' <=> x = d
        <5>1. CASE x = d
          BY <5>1, <2>4
        <5>2. CASE x = c
          BY <5>2, <2>2, <2>3, <2>5, <2>6
        <5>3. CASE x \in nodes /\ x # d
          BY <5>3, <2>2, <2>5, <1>t DEF Inv, TypeOK
        <5>4. QED
          BY <5>1, <5>2, <5>3, <2>1
      <4>2. {y \in nodes' : c \in Children(y)'} = {d}
        BY <4>1, <2>1, <1>0
      <4>3. QED
        BY <4>2, <2>3 DEF ParentsOf
    <3>2. ASSUME NEW x \in Nodes, x # c PROVE ParentsOf'[x] = ParentsOf[x]
      <4>1. ASSUME NEW y \in nodes' PROVE x \in Children(y)' <=> (y \in nodes /\ x \in Children(y))
        <5>1. CASE y = c
          BY <5>1, <2>2, <2>3, <2>5, <2>6
        <5>2. CASE y = d
          BY <5>2, <2>4, <3>2, <1>0
        <5>3. CASE y \in nodes /\ y # d
          BY <5>3, <2>5, <1>t DEF TypeOK
        <5>4. QED
          BY <5>1, <5>2, <5>3, <2>1
      <4>2. {y \in nodes' : x \in Children(y)'} = {y \in nodes : x \in Children(y)}
        BY <4>1, <2>1
      <4>3. QED
        BY <4>2, <3>2 DEF ParentsOf
    <3>3. QED
      BY <3>1, <3>2 DEF ParentsOf
  <2>10. AD!Insert(d, n, FALSE)
    <3>1. \A x \in nodes : d \in ParentsOf[x] => name[x] # n
      <4>1. SUFFICES ASSUME NEW x \in nodes, d \in ParentsOf[x] PROVE name[x] # n
        OBVIOUS
      <4>2. x \in Children(d)
        BY <4>1, <1>t DEF ParentsOf, TypeOK
      <4>3. QED
        BY <4>2, <1>c DEF NameExists
    <3>2. QED
      BY <3>1, <2>1, <2>2, <2>9, <1>0, <2>3 DEF AD!Insert
  <2>11. QED
    BY <2>8, <2>10 DEF AD!Next
<1>q. QED
  BY <1>a, <1>b, <1>c DEF AddFile, AddChild
(* pure64_dir_add_subdir likewise: an abstract insert of a directory or a *)
(* stutter.                                                              *)
LEMMA AddSubdirStep ==
  ASSUME Inv, NEW d \in Nodes, NEW n \in Names, AddSubdir(d, n)
  PROVE  Inv' /\ [AD!Next]_AD!avars
<1>t. TypeOK
  BY DEF Inv
<1>0. /\ ~freed /\ d \in nodes /\ isDir[d] /\ UNCHANGED freed
  BY DEF AddSubdir, AddChild
<1>h. subdirsBlk[d] \in Blocks \cup {NULL}
  BY <1>t DEF TypeOK
<1>a. CASE UNCHANGED <<tree, heap>> /\ ret' \in {"EEXIST", "ENOMEM"}
  <2>1. Inv'
    <3>1. TypeOK'
      BY <1>a, <1>t, <1>0 DEF TypeOK, Results, tree, heap
    <3>2. \A x \in nodes' : Children(x)' \subseteq nodes'
      BY <1>a DEF Inv, tree, Children, Elems
    <3>3. QED
      BY <1>a, <3>1, <3>2 DEF Inv, tree
  <2>2. UNCHANGED AD!avars
    BY <1>a, <1>0, TreeUnchangedStutters
  <2>3. QED
    BY <2>1, <2>2
<1>b. CASE \E b \in ReallocResults(subdirsBlk[d]) :
             /\ live' = AfterRealloc(subdirsBlk[d], b)
             /\ ret' = "ENOMEM"
             /\ UNCHANGED <<tree, subdirsBlk, filesBlk>>
  <2>1. PICK b \in ReallocResults(subdirsBlk[d]) :
             /\ live' = AfterRealloc(subdirsBlk[d], b)
             /\ ret' = "ENOMEM"
             /\ UNCHANGED <<tree, subdirsBlk, filesBlk>>
    BY <1>b
  <2>2. live' \subseteq Blocks
    BY <2>1, <1>t, <1>h, ReallocTyped
  <2>3. Inv'
    <3>1. TypeOK'
      BY <2>1, <2>2, <1>t, <1>h, <1>0 DEF TypeOK, Results, tree
    <3>2. QED
      BY <2>1, <3>1 DEF Inv, tree, Children, Elems
  <2>4. UNCHANGED AD!avars
    BY <2>1, <1>0, TreeUnchangedStutters
  <2>5. QED
    BY <2>3, <2>4
<1>c. CASE /\ ~NameExists(d, n)
           /\ \E b \in ReallocResults(subdirsBlk[d]) :
                /\ \E c \in Nodes \ nodes :
                     /\ nodes' = nodes \cup {c}
                     /\ isDir' = [isDir EXCEPT ![c] = TRUE]
                     /\ name' = [name EXCEPT ![c] = n]
                     /\ subdirs' = [subdirs EXCEPT ![d] = Append(@, c)]
                     /\ subdirsBlk' = [subdirsBlk EXCEPT ![d] = b]
                     /\ UNCHANGED <<files, filesBlk>>
                /\ live' = AfterRealloc(subdirsBlk[d], b)
                /\ ret' = "ok"
  <2>1. PICK b \in ReallocResults(subdirsBlk[d]), c \in Nodes \ nodes :
             /\ nodes' = nodes \cup {c}
             /\ isDir' = [isDir EXCEPT ![c] = TRUE]
             /\ name' = [name EXCEPT ![c] = n]
             /\ subdirs' = [subdirs EXCEPT ![d] = Append(@, c)]
             /\ subdirsBlk' = [subdirsBlk EXCEPT ![d] = b]
             /\ UNCHANGED <<files, filesBlk>>
             /\ live' = AfterRealloc(subdirsBlk[d], b)
             /\ ret' = "ok"
    BY <1>c
  <2>2. c # d /\ c \notin nodes
    BY <2>1, <1>0
  <2>3. subdirs[d] \in Seq(Nodes) /\ c \in Nodes
    BY <1>t, <2>1 DEF TypeOK
  <2>4. Children(d)' = Children(d) \cup {c}
    BY <2>1, <2>3, <1>t, ElemsAppend DEF Children, TypeOK
  <2>5. \A x \in Nodes \ {d} : Children(x)' = Children(x)
    BY <2>1, <1>t DEF Children, Elems, TypeOK
  <2>6. Children(c) = {}
    BY <2>2, <2>3 DEF Inv, Children, Elems
  <2>7. TypeOK'
    <3>1. b \in Blocks /\ live' \subseteq Blocks
      BY <2>1, <1>t, <1>h, ReallocTyped
    <3>2. subdirs'[d] \in Seq(Nodes)
      BY <2>1, <2>3, <1>t, AppendProperties DEF TypeOK
    <3>3. QED
      BY <2>1, <3>1, <3>2, <1>t, <1>0, <2>3 DEF TypeOK, Results
  <2>8. Inv'
    <3>1. Root \in nodes'
      BY <2>1 DEF Inv
    <3>2. \A x \in nodes' : Children(x)' \subseteq nodes'
      <4>1. Children(d)' \subseteq nodes'
        BY <2>1, <2>4, <1>0 DEF Inv
      <4>2. Children(c)' \subseteq nodes'
        BY <2>2, <2>3, <2>5, <2>6
      <4>3. ASSUME NEW x \in nodes, x # d PROVE Children(x)' \subseteq nodes'
        BY <4>3, <2>1, <2>5, <1>t DEF Inv, TypeOK
      <4>4. QED
        BY <4>1, <4>2, <4>3, <2>1
    <3>3. \A x \in Nodes \ nodes' : files'[x] = <<>> /\ subdirs'[x] = <<>>
      BY <2>1, <2>2, <1>0, <1>t DEF Inv, TypeOK
    <3>4. QED
      BY <2>7, <3>1, <3>2, <3>3 DEF Inv
  <2>9. ParentsOf' = [ParentsOf EXCEPT ![c] = {d}]
    <3>1. ParentsOf'[c] = {d}
      <4>1. ASSUME NEW x \in nodes' PROVE c \in Children(x)' <=> x = d
        <5>1. CASE x = d
          BY <5>1, <2>4
        <5>2. CASE x = c
          BY <5>2, <2>2, <2>3, <2>5, <2>6
        <5>3. CASE x \in nodes /\ x # d
          BY <5>3, <2>2, <2>5, <1>t DEF Inv, TypeOK
        <5>4. QED
          BY <5>1, <5>2, <5>3, <2>1
      <4>2. {y \in nodes' : c \in Children(y)'} = {d}
        BY <4>1, <2>1, <1>0
      <4>3. QED
        BY <4>2, <2>3 DEF ParentsOf
    <3>2. ASSUME NEW x \in Nodes, x # c PROVE ParentsOf'[x] = ParentsOf[x]
      <4>1. ASSUME NEW y \in nodes' PROVE x \in Children(y)' <=> (y \in nodes /\ x \in Children(y))
        <5>1. CASE y = c
          BY <5>1, <2>2, <2>3, <2>5, <2>6
        <5>2. CASE y = d
          BY <5>2, <2>4, <3>2, <1>0
        <5>3. CASE y \in nodes /\ y # d
          BY <5>3, <2>5, <1>t DEF TypeOK
        <5>4. QED
          BY <5>1, <5>2, <5>3, <2>1
      <4>2. {y \in nodes' : x \in Children(y)'} = {y \in nodes : x \in Children(y)}
        BY <4>1, <2>1
      <4>3. QED
        BY <4>2, <3>2 DEF ParentsOf
    <3>3. QED
      BY <3>1, <3>2 DEF ParentsOf
  <2>10. AD!Insert(d, n, TRUE)
    <3>1. \A x \in nodes : d \in ParentsOf[x] => name[x] # n
      <4>1. SUFFICES ASSUME NEW x \in nodes, d \in ParentsOf[x] PROVE name[x] # n
        OBVIOUS
      <4>2. x \in Children(d)
        BY <4>1, <1>t DEF ParentsOf, TypeOK
      <4>3. QED
        BY <4>2, <1>c DEF NameExists
    <3>2. QED
      BY <3>1, <2>1, <2>2, <2>9, <1>0, <2>3 DEF AD!Insert
  <2>11. QED
    BY <2>8, <2>10 DEF AD!Next
<1>q. QED
  BY <1>a, <1>b, <1>c DEF AddSubdir, AddChild

(* pure64_dir_free keeps the invariant and is the abstract Close. *)
LEMMA FreeTreeStep ==
  ASSUME Inv, FreeTree
  PROVE  Inv' /\ [AD!Next]_AD!avars
<1>1. TypeOK'
  <2>1. live' \subseteq Blocks
    BY DEF FreeTree, Inv, TypeOK
  <2>2. QED
    BY <2>1 DEF FreeTree, Inv, TypeOK, Results, tree
<1>2. Inv'
  BY <1>1 DEF FreeTree, Inv, tree, Children, Elems
<1>3. AD!Close
  <2>1. ParentsOf' = ParentsOf
    BY DEF FreeTree, tree, ParentsOf, Children, Elems
  <2>2. QED
    BY <2>1 DEF FreeTree, AD!Close, tree
<1>4. QED
  BY <1>2, <1>3 DEF AD!Next

(* Every step of the code's tree keeps the invariant and is an abstract   *)
(* step or a stutter.                                                     *)
LEMMA NextStep ==
  ASSUME Inv, [Next]_vars
  PROVE  Inv' /\ [AD!Next]_AD!avars
<1>1. CASE \E d \in Nodes, n \in Names : AddFile(d, n) \/ AddSubdir(d, n)
  BY <1>1, AddFileStep, AddSubdirStep
<1>2. CASE FreeTree
  BY <1>2, FreeTreeStep
<1>3. CASE freed /\ UNCHANGED vars
  <2>1. UNCHANGED AD!avars
    BY <1>3, TreeUnchangedStutters DEF vars, tree
  <2>2. QED
    BY <1>3, <2>1 DEF Inv, TypeOK, vars, Children, Elems
<1>4. CASE UNCHANGED vars
  <2>1. UNCHANGED AD!avars
    BY <1>4, TreeUnchangedStutters DEF vars, tree
  <2>2. QED
    BY <1>4, <2>1 DEF Inv, TypeOK, vars, Children, Elems
<1>5. QED
  BY <1>1, <1>2, <1>3, <1>4 DEF Next

(* The code's tree stays well formed: Inv holds in every reachable state. *)
THEOREM Invariance == Spec => []Inv
<1>1. Inv /\ [Next]_vars => Inv'
  BY NextStep
<1>2. QED
  BY InvInit, <1>1, PTL DEF Spec

(* Refinement: the tree of dir.c (add_file, add_subdir with all their     *)
(* failures, pure64_dir_free) implements AbstractDir for every set of     *)
(* names, nodes and heap blocks; a failed add is an abstract stutter.     *)
THEOREM Refinement == Spec => AbstractDirSpec
<1>1. ASSUME Init PROVE AD!Init
  <2>1. nodes = {Root}
    BY <1>1 DEF Init
  <2>2. Children(Root) = {}
    BY <1>1, ElemsEmpty DEF Init, Children
  <2>3. ParentsOf = [x \in Nodes |-> {}]
    BY <2>1, <2>2 DEF ParentsOf
  <2>4. QED
    BY <1>1, <2>1, <2>3 DEF Init, AD!Init
<1>2. Inv /\ [Next]_vars => [AD!Next]_AD!avars
  BY NextStep
<1>3. QED
  BY <1>1, <1>2, Invariance, PTL DEF Spec, AbstractDirSpec, AD!Spec

-----------------------------------------------------------------------------
(* Sibling names.  SiblingNamesUnique speaks of the positions of the two  *)
(* arrays; it is read here as three facts about one directory.            *)

(* No two positions of the array s hold nodes with one name under nm. *)
UniqueIn(s, nm) ==
  \A k1, k2 \in DOMAIN s : k1 # k2 => nm[s[k1]] # nm[s[k2]]

(* No node of s shares its name under nm with a node of t. *)
Apart(s, t, nm) == \A f \in Elems(s), g \in Elems(t) : nm[f] # nm[g]

(* The inductive invariant behind SiblingNamesUnique: the tree's shape    *)
(* (Inv) is needed because add_file and add_subdir name a node outside    *)
(* the tree, which must be nobody's child and have no children.          *)
UInv == Inv /\ SiblingNamesUnique

LEMMA SiblingsAsParts ==
  /\ SiblingNamesUnique <=>
       \A d \in nodes : /\ UniqueIn(files[d], name) /\ UniqueIn(subdirs[d], name)
                        /\ Apart(files[d], subdirs[d], name)
  /\ SiblingNamesUnique' <=>
       \A d \in nodes' : /\ UniqueIn(files'[d], name') /\ UniqueIn(subdirs'[d], name')
                         /\ Apart(files'[d], subdirs'[d], name')
BY DEF SiblingNamesUnique, UniqueIn, Apart

(* Renaming nodes outside an array keeps its names distinct. *)
LEMMA UniqueSameNames ==
  ASSUME NEW S, NEW s \in Seq(S), NEW f, NEW g,
         \A z \in Elems(s) : g[z] = f[z], UniqueIn(s, f)
  PROVE  UniqueIn(s, g)
BY DEF UniqueIn, Elems

LEMMA ApartSameNames ==
  ASSUME NEW s, NEW t, NEW f, NEW g,
         \A z \in Elems(s) \cup Elems(t) : g[z] = f[z], Apart(s, t, f)
  PROVE  Apart(s, t, g)
BY DEF Apart

(* Appending a node whose name no node of the array has keeps the names  *)
(* of the array distinct.                                                *)
LEMMA UniqueAppend ==
  ASSUME NEW S, NEW s \in Seq(S), NEW e \in S, NEW f, NEW g,
         UniqueIn(s, f), \A z \in Elems(s) : g[z] = f[z] /\ f[z] # g[e]
  PROVE  UniqueIn(Append(s, e), g)
<1>1. /\ DOMAIN Append(s, e) = 1 .. Len(s) + 1
      /\ \A k \in 1 .. Len(s) : Append(s, e)[k] = s[k]
      /\ Append(s, e)[Len(s) + 1] = e
  BY AppendProperties
<1>2. DOMAIN s = 1 .. Len(s) /\ Len(s) \in Nat
  OBVIOUS
<1>3. \A k \in 1 .. Len(s) : s[k] \in Elems(s)
  BY DEF Elems
<1>. QED  BY <1>1, <1>2, <1>3 DEF UniqueIn

(* Appending to one array a node named apart from the other array keeps *)
(* the two arrays apart.                                                *)
LEMMA ApartAppend ==
  ASSUME NEW S, NEW s \in Seq(S), NEW t, NEW e \in S, NEW f, NEW g,
         Apart(s, t, f), \A z \in Elems(s) \cup Elems(t) : g[z] = f[z],
         \A z \in Elems(t) : f[z] # g[e]
  PROVE  /\ Apart(Append(s, e), t, g)
         /\ Apart(t, Append(s, e), g)
BY ElemsAppend DEF Apart

(* A successful add_file or add_subdir of c named n under d keeps the    *)
(* names of every directory's children distinct.                          *)
LEMMA AddSuccessUnique ==
  ASSUME Inv, SiblingNamesUnique, NEW d \in nodes, NEW n \in Names,
         NEW c \in Nodes \ nodes, ~NameExists(d, n),
         nodes' = nodes \cup {c}, name' = [name EXCEPT ![c] = n],
         \/ files' = [files EXCEPT ![d] = Append(@, c)] /\ subdirs' = subdirs
         \/ subdirs' = [subdirs EXCEPT ![d] = Append(@, c)] /\ files' = files
  PROVE  SiblingNamesUnique'
<1>t. TypeOK
  BY DEF Inv
<1>0. /\ files[d] \in Seq(Nodes) /\ subdirs[d] \in Seq(Nodes) /\ c # d
      /\ name' \in [Nodes -> Names \cup {NULL}] /\ name'[c] = n
  BY <1>t DEF TypeOK
<1>1. \A x \in nodes : \A z \in Children(x) : name'[z] = name[z]
  BY <1>t DEF Inv, TypeOK
<1>2. \A z \in Children(d) : name[z] # name'[c]
  BY <1>0 DEF NameExists
<1>3. /\ UniqueIn(files[d], name) /\ UniqueIn(subdirs[d], name)
      /\ Apart(files[d], subdirs[d], name)
  BY SiblingsAsParts
<1>4. ASSUME NEW x \in nodes', x # d
      PROVE  /\ UniqueIn(files'[x], name') /\ UniqueIn(subdirs'[x], name')
             /\ Apart(files'[x], subdirs'[x], name')
  <2>1. files'[x] = files[x] /\ subdirs'[x] = subdirs[x]
    BY <1>4, <1>t DEF TypeOK
  <2>2. CASE x = c
    <3>1. files[c] = <<>> /\ subdirs[c] = <<>>
      BY DEF Inv
    <3>. QED  BY <2>1, <2>2, <3>1 DEF UniqueIn, Apart, Elems
  <2>3. CASE x \in nodes
    <3>1. /\ UniqueIn(files[x], name) /\ UniqueIn(subdirs[x], name)
          /\ Apart(files[x], subdirs[x], name)
      BY <2>3, SiblingsAsParts
    <3>2. /\ \A z \in Elems(files[x]) : name'[z] = name[z]
          /\ \A z \in Elems(subdirs[x]) : name'[z] = name[z]
      BY <2>3, <1>1 DEF Children
    <3>3. files[x] \in Seq(Nodes) /\ subdirs[x] \in Seq(Nodes)
      BY <2>3, <1>t DEF TypeOK
    <3>. QED  BY <2>1, <3>1, <3>2, <3>3, UniqueSameNames, ApartSameNames
  <2>. QED  BY <2>2, <2>3, <1>4
<1>5. /\ \A z \in Elems(files[d]) : name'[z] = name[z] /\ name[z] # name'[c]
      /\ \A z \in Elems(subdirs[d]) : name'[z] = name[z] /\ name[z] # name'[c]
  BY <1>1, <1>2 DEF Children
<1>6. /\ UniqueIn(files'[d], name') /\ UniqueIn(subdirs'[d], name')
      /\ Apart(files'[d], subdirs'[d], name')
  <2>1. CASE files' = [files EXCEPT ![d] = Append(@, c)] /\ subdirs' = subdirs
    <3>1. files'[d] = Append(files[d], c) /\ subdirs'[d] = subdirs[d]
      BY <2>1, <1>t DEF TypeOK
    <3>2. UniqueIn(Append(files[d], c), name')
      BY <1>0, <1>3, <1>5, UniqueAppend
    <3>3. UniqueIn(subdirs[d], name')
      BY <1>3, <1>5 DEF UniqueIn, Elems
    <3>4. Apart(Append(files[d], c), subdirs[d], name')
      BY <1>0, <1>3, <1>5, ApartAppend
    <3>. QED  BY <3>1, <3>2, <3>3, <3>4
  <2>2. CASE subdirs' = [subdirs EXCEPT ![d] = Append(@, c)] /\ files' = files
    <3>1. subdirs'[d] = Append(subdirs[d], c) /\ files'[d] = files[d]
      BY <2>2, <1>t DEF TypeOK
    <3>2. UniqueIn(Append(subdirs[d], c), name')
      BY <1>0, <1>3, <1>5, UniqueAppend
    <3>3. UniqueIn(files[d], name')
      BY <1>0, <1>3, <1>5, UniqueSameNames
    <3>4. Apart(subdirs[d], files[d], name)
      BY <1>3 DEF Apart
    <3>5. Apart(files[d], Append(subdirs[d], c), name')
      BY <1>0, <3>4, <1>5, ApartAppend
    <3>. QED  BY <3>1, <3>2, <3>3, <3>5
  <2>. QED  BY <2>1, <2>2
<1>. QED  BY <1>4, <1>6, SiblingsAsParts

(* A step that changes the tree is a successful insert. *)
LEMMA AddChangesTree ==
  ASSUME NEW d \in Nodes, NEW n \in Names, NEW dir \in BOOLEAN,
         NEW arr, NEW arrBlk, AddChild(d, n, arr, arrBlk, dir),
         arr = IF dir THEN subdirs ELSE files
  PROVE  \/ UNCHANGED tree
         \/ /\ d \in nodes /\ ~NameExists(d, n) /\ ret' = "ok"
            /\ \E c \in Nodes \ nodes :
                 /\ nodes' = nodes \cup {c} /\ name' = [name EXCEPT ![c] = n]
                 /\ \/ files' = [files EXCEPT ![d] = Append(@, c)] /\ subdirs' = subdirs
                    \/ subdirs' = [subdirs EXCEPT ![d] = Append(@, c)] /\ files' = files
BY Zenon DEF AddChild, tree

(* Every step keeps the names of each directory's children distinct. *)
LEMMA UniqueStep ==
  ASSUME Inv, SiblingNamesUnique, [Next]_vars
  PROVE  SiblingNamesUnique'
<1>u. CASE UNCHANGED tree
  BY <1>u DEF SiblingNamesUnique, tree
<1>1. ASSUME NEW d \in Nodes, NEW n \in Names, NEW dir \in BOOLEAN,
             AddChild(d, n, IF dir THEN subdirs ELSE files,
                      IF dir THEN subdirsBlk ELSE filesBlk, dir)
      PROVE  SiblingNamesUnique'
  <2>1. CASE UNCHANGED tree
    BY <2>1, <1>u
  <2>2. CASE /\ d \in nodes /\ ~NameExists(d, n)
             /\ \E c \in Nodes \ nodes :
                  /\ nodes' = nodes \cup {c} /\ name' = [name EXCEPT ![c] = n]
                  /\ \/ files' = [files EXCEPT ![d] = Append(@, c)] /\ subdirs' = subdirs
                     \/ subdirs' = [subdirs EXCEPT ![d] = Append(@, c)] /\ files' = files
    BY <2>2, AddSuccessUnique
  <2>. QED  BY <1>1, <2>1, <2>2, AddChangesTree
<1>2. ASSUME NEW d \in Nodes, NEW n \in Names, AddFile(d, n) \/ AddSubdir(d, n)
      PROVE  SiblingNamesUnique'
  <2>1. CASE AddFile(d, n)
    <3>1. AddChild(d, n, IF FALSE THEN subdirs ELSE files,
                   IF FALSE THEN subdirsBlk ELSE filesBlk, FALSE)
      BY <2>1 DEF AddFile
    <3>. QED  BY <3>1, <1>1
  <2>2. CASE AddSubdir(d, n)
    <3>1. AddChild(d, n, IF TRUE THEN subdirs ELSE files,
                   IF TRUE THEN subdirsBlk ELSE filesBlk, TRUE)
      BY <2>2 DEF AddSubdir
    <3>. QED  BY <3>1, <1>1
  <2>. QED  BY <1>2, <2>1, <2>2
<1>. QED  BY <1>u, <1>2 DEF Next, FreeTree, vars, tree

(* Theorem: every reachable state of the directory tree is well typed,  *)
(* whatever add_file, add_subdir and pure64_dir_free do.                  *)
THEOREM TypeCorrect == Spec => []TypeOK
<1>1. Inv => TypeOK
  BY DEF Inv
<1>. QED  BY Invariance, <1>1, PTL

(* Theorem (SiblingNamesUnique): after any sequence of add_file and      *)
(* add_subdir calls, with every EEXIST and ENOMEM path, no two children  *)
(* of a directory share a name, across the files and subdirs arrays, as  *)
(* the check of pure64_dir_name_exists (lines 203-218) is meant to keep. *)
THEOREM SiblingsCorrect == Spec => []SiblingNamesUnique
<1>1. Init => UInv
  <2> SUFFICES ASSUME Init PROVE SiblingNamesUnique
    BY InvInit DEF UInv
  <2>. QED  BY DEF Init, SiblingNamesUnique, Elems
<1>2. UInv /\ [Next]_vars => UInv'
  BY NextStep, UniqueStep DEF UInv
<1>3. UInv => SiblingNamesUnique
  BY DEF UInv
<1>. QED  BY <1>1, <1>2, <1>3, PTL DEF Spec
=============================================================================
