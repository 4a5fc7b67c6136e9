----------------------------- MODULE MCFetchPlan -----------------------------
(***************************************************************************)
(* The planning of a fetch for TLC.  Where the bounds name nothing to ask  *)
(* for, select_commits runs alone, over every commit graph; elsewhere      *)
(* plan_pack runs, over a small object store: trees 10..13, blobs 20..22,  *)
(* a submodule 99, and tags 30..32 of which 32 names a tree.               *)
(***************************************************************************)
EXTENDS FetchPlan

MCTrees == {10, 11, 12, 13}
MCBlobs == {20, 21, 22}
MCTags == {30, 31, 32}
MCEntries == [t \in MCTrees |-> CASE t = 10 -> {20}
                                 [] t = 11 -> {20, 21}
                                 [] t = 12 -> {10, 21, 99}
                                 [] t = 13 -> {10, 11, 22}]
MCTarget == [t \in MCTags |-> CASE t = 30 -> 2 [] t = 31 -> 30 [] t = 32 -> 10]
MCBlobSize == [b \in MCBlobs |-> b - 19]
MCFilters == {NoFilter, BlobNone, BlobLimit(2)}

\* The bounds of a walk alone, and of a plan.
Walk(commits, nw, nh, upTo, holes) ==
    [commits |-> commits, wants |-> nw, haves |-> nh, corruptUpTo |-> upTo, holes |-> holes,
     recorded |-> IF holes = 0 THEN {Commits} ELSE SUBSET (1..commits),
     roots |-> {[c \in Commits |-> 12]}, asked |-> {{}}, losses |-> {{}}]

Plan(commits, nh, holes, roots, ids, losses) ==
    [commits |-> commits, wants |-> 0, haves |-> nh, corruptUpTo |-> 0, holes |-> holes,
     recorded |-> IF holes = 0 THEN {Commits} ELSE SUBSET (1..commits),
     roots |-> {f \in [Commits -> roots] : \A c \in Commits : c > commits => f[c] = 12},
     asked |-> ids, losses |-> losses]

MCBounds ==
    [ exact   |-> Walk(4, 2, 2, 0, 0),
      corrupt |-> Walk(4, 1, 1, 2, 0),
      holes   |-> Walk(3, 2, 1, 0, 2),
      plan    |-> Plan(3, 2, 0, {11, 12, 13}, {{2, 22}, {10, 22}, {3, 30}}, {{}}),
      losses  |-> Plan(2, 1, 1, {12, 13}, {{2}, {31}, {32}, {1, 50}}, {{}, {21}, {30}}) ]

Alone == Bounds[bound].asked = {{}}

MCInit ==
    \/ /\ Init /\ Alone
       /\ root \in Bounds[bound].roots /\ lost = {} /\ asked = {} /\ filter = NoFilter
       /\ direct = {} /\ tags = {} /\ haveObjects = {} /\ objects = {} /\ trees = {}
       /\ queue = <<>>
    \/ PlanInit /\ ~Alone

MCNext == (Alone /\ Discover) \/ (~Alone /\ PlanNext)

MCSpec == MCInit /\ [][MCNext]_allVars /\ WF_allVars(MCNext)

==============================================================================
