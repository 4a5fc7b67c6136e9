---------------------------- MODULE MCPushIllTyped ----------------------------
(***************************************************************************)
(* One push of a tree t with an entry that names a commit c, under a mode  *)
(* other than gitlink, and of a second commit d over it: objects that hash *)
(* and decode, whose links do not respect the order of the kinds.          *)
(***************************************************************************)
EXTENDS Push, TLC

CONSTANTS b, t0, c, t, d, p, main

MCObjects == {b, t0, c, t, d}
MCKind == (b :> "blob") @@ (t0 :> "tree") @@ (c :> "commit") @@ (t :> "tree") @@ (d :> "commit")
MCChildren == (b :> <<>>) @@ (t0 :> <<b>>) @@ (c :> <<t0>>) @@ (t :> <<c>>) @@ (d :> <<t>>)
MCDepth == (b :> 0) @@ (t0 :> 1) @@ (c :> 2) @@ (t :> 3) @@ (d :> 4)
MCCommands == (p :> <<[ref |-> main, old |-> None, new |-> d]>>)
MCPack == (p :> MCObjects)
MCThinBases == (p :> {})
=============================================================================
