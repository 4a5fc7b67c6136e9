---------------------------- MODULE WellTypedPush ----------------------------
(***************************************************************************)
(* Pushes of well-typed objects.  Promotion groups the post-order by kind, *)
(* which keeps children before parents only if no object names one of a    *)
(* kind that is written later: trees name blobs and trees, commits name    *)
(* trees and commits, tags name anything.  git writes only such objects;   *)
(* object_children does not check it.                                      *)
(***************************************************************************)
EXTENDS Push

ASSUME WellTypedAssumption ==
    \A o \in Objects : \A c \in Kids(o) : KindOrder[Kind[c]] <= KindOrder[Kind[o]]
=============================================================================
