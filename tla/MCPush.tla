------------------------------- MODULE MCPush -------------------------------
(***************************************************************************)
(* Three pushes that meet on one branch:                                   *)
(*   p1 creates main at c1, and also tries to move the symbolic HEAD;      *)
(*   p2 carries the whole history, names main twice, so that its second    *)
(*      command must see its first, and creates a tag;                     *)
(*   p3 sends a thin pack against b, deletes main and reuses c1, both of   *)
(*      which exist only if p1 or p2 got far enough.                       *)
(***************************************************************************)
EXTENDS WellTypedPush, TLC

CONSTANTS b, t, c1, c2, g, p1, p2, p3, main, rel, HEAD

MCObjects == {b, t, c1, c2, g}
MCKind == (b :> "blob") @@ (t :> "tree") @@ (c1 :> "commit") @@ (c2 :> "commit") @@ (g :> "tag")
MCChildren == (b :> <<>>) @@ (t :> <<b>>) @@ (c1 :> <<t>>) @@ (c2 :> <<t, c1>>) @@ (g :> <<c2>>)
MCDepth == (b :> 0) @@ (t :> 1) @@ (c1 :> 2) @@ (c2 :> 3) @@ (g :> 4)

Cmd(r, o, n) == [ref |-> r, old |-> o, new |-> n]

AllCommands ==
    (p1 :> <<Cmd(main, None, c1), Cmd(HEAD, None, c1)>>) @@
    (p2 :> <<Cmd(main, None, c1), Cmd(main, c1, c2), Cmd(rel, None, g)>>) @@
    (p3 :> <<Cmd(main, c1, None), Cmd(rel, None, c1)>>)
MCCommands == [p \in Pushes |-> AllCommands[p]]
MCPack == [p \in Pushes |-> IF p = p1 THEN {b, t, c1} ELSE IF p = p2 THEN {b, t, c1, c2, g} ELSE {}]
MCThinBases == [p \in Pushes |-> IF p = p3 THEN {b} ELSE {}]
=============================================================================
