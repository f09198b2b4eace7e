---------------------------- MODULE MC_TreeCodec ----------------------------
(***************************************************************************)
(* Model-checking instance of TreeCodec: the root of a fresh mkfs, a    *)
(* root with a file and a subdirectory that has a file of its own (one   *)
(* of them empty), a chain of two subdirectories, and two sibling        *)
(* subdirectories of different shape, so that every read of the decoder *)
(* (counts, name bytes, data bytes, a nested directory) can be the one   *)
(* that fails, and siblings can be told apart by their order.            *)
(***************************************************************************)
EXTENDS TreeCodec

Dir(n, ds, fs) == [name |-> n, subdirs |-> ds, files |-> fs]

File(n, x) == [name |-> n, data |-> x]

MCTrees ==
  { Dir("", <<>>, <<>>),
    Dir("", <<Dir("b", <<>>, <<File("a", "")>>)>>, <<File("a", "x")>>),
    Dir("", <<Dir("a", <<Dir("b", <<>>, <<>>)>>, <<>>)>>, <<>>),
    Dir("", <<Dir("a", <<>>, <<>>), Dir("b", <<>>, <<File("a", "")>>)>>, <<>>) }
=============================================================================
