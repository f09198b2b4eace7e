----------------------------- MODULE AbstractDir -----------------------------
(***************************************************************************)
(* What the directory tree of src/src/lib/dir.c promises its callers       *)
(* (spec sections 3 and 4.3), without arrays, counts or heap: a tree of   *)
(* labelled nodes under a root, grown one named child at a time, whose    *)
(* siblings never share a label, and closed once by the teardown.  A      *)
(* failed insert is not a step here: it changes nothing.                  *)
(***************************************************************************)
CONSTANTS
  Names,   \* child names
  Nodes,   \* node identities
  Root,    \* the root directory
  NULL     \* the label of a node not in the tree

VARIABLES
  nodes,   \* the nodes of the tree
  isDir,   \* isDir[x]: x is a directory
  label,   \* label[x]: the name of x
  parent,  \* parent[x]: the set holding x's parent (empty for the root)
  closed   \* the tree has been torn down

avars == <<nodes, isDir, label, parent, closed>>

Init ==
  /\ nodes = {Root}
  /\ isDir = [x \in Nodes |-> x = Root]
  /\ label = [x \in Nodes |-> NULL]
  /\ parent = [x \in Nodes |-> {}]
  /\ closed = FALSE

(* A new node c named n, a directory or not, becomes a child of the       *)
(* directory d, where no child of d is named n yet.                        *)
Insert(d, n, dir) ==
  /\ ~closed
  /\ d \in nodes
  /\ isDir[d]
  /\ \A x \in nodes : d \in parent[x] => label[x] # n
  /\ \E c \in Nodes \ nodes :
       /\ nodes' = nodes \cup {c}
       /\ isDir' = [isDir EXCEPT ![c] = dir]
       /\ label' = [label EXCEPT ![c] = n]
       /\ parent' = [parent EXCEPT ![c] = {d}]
  /\ UNCHANGED closed

Close ==
  /\ ~closed
  /\ closed' = TRUE
  /\ UNCHANGED <<nodes, isDir, label, parent>>

Next ==
  \/ \E d \in Nodes, n \in Names, dir \in BOOLEAN : Insert(d, n, dir)
  \/ Close

Spec == Init /\ [][Next]_avars
=============================================================================
