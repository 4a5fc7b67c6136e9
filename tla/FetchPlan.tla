------------------------------ MODULE FetchPlan ------------------------------
(***************************************************************************)
(* plan_pack: from the raw wants and haves of a fetch to the objects to    *)
(* pack.  The wants are split into history (commits and annotated tags)    *)
(* and direct wants (trees and blobs); tags are peeled; Discovery selects  *)
(* the commits; Phase II then collects trees and blobs, one tree depth at  *)
(* a time, leaving out what the trees of the recognised haves hold; the    *)
(* direct wants are added last.  The order of objects in the pack is not   *)
(* modelled here.                                                          *)
(***************************************************************************)
EXTENDS Discovery

CONSTANTS
    Trees, Blobs, Tags,   \* object ids, as numbers above N
    Entries,              \* tree -> ids of its entries, submodules included
    Target,               \* tag -> object it names
    BlobSize,             \* blob -> size
    Filters               \* (Bounds also give roots, asked and losses: the root trees
                          \* of the commits, the ids a request may want, and the ids
                          \* that may be missing from storage)

\* Ids are numbered like the commits: what a tree or a tag names comes before
\* it, as the id of an object is the hash of a body with the ids it names.
ASSUME FetchPlanAssumption ==
    /\ IsFiniteSet(Trees) /\ IsFiniteSet(Tags)
    /\ Trees \cup Tags \subseteq Nat
    /\ Trees \cap Blobs = {} /\ Trees \cap Tags = {} /\ Blobs \cap Tags = {}
    /\ (Trees \cup Blobs \cup Tags) \cap Commits = {}
    /\ \A t \in Trees : \A x \in Entries[t] \cap Trees : x < t
    /\ \A t \in Tags : Target[t] \in Tags => Target[t] < t
    /\ \A b \in DOMAIN Bounds : Bounds[b].roots \subseteq [Commits -> Trees]

VARIABLES
    root,                 \* commit -> its root tree
    lost,                 \* trees, blobs and tags missing from storage
    asked, filter,        \* the request
    direct, tags,
    haveObjects, objects,
    trees,                \* the trees of the current depth
    queue                 \* the rest of the send list

planVars == <<root, lost, asked, filter, direct, tags, haveObjects, objects, trees, queue>>
allVars == <<vars, planVars>>

Present(o) == IF o \in Commits THEN o \in stored
              ELSE o \in Trees \cup Blobs \cup Tags /\ o \notin lost

NoFilter == [kind |-> "none"]
BlobNone == [kind |-> "blob:none"]
BlobLimit(n) == [kind |-> "blob:limit", limit |-> n]

Admits(b) ==
    \/ filter.kind = "none"
    \/ filter.kind = "blob:limit" /\ BlobSize[b] <= filter.limit

\* read_tree: gitlinks are dropped.
Subtrees(S) == UNION {Entries[t] \cap Trees : t \in S}
Leaves(S) == UNION {Entries[t] \cap Blobs : t \in S}

FPTypeOK ==
    /\ direct \subseteq Trees \cup Blobs /\ tags \subseteq Tags
    /\ haveObjects \cup trees \subseteq Trees \cup Blobs
    /\ objects \subseteq Commits \cup Trees \cup Blobs \cup Tags
    /\ ToSet(queue) \subseteq Commits \cup Tags
    /\ pc = "collect" => trees \subseteq objects \ haveObjects
    /\ pc = "expand" => trees \subseteq haveObjects

PlanInit ==
    /\ InitRepository
    /\ InitWalk
    /\ pc = "partition"
    /\ wants = {}
    /\ haves \in AtMost(Bounds[bound].haves, 1..Bounds[bound].commits)
    /\ root \in Bounds[bound].roots
    /\ lost \in Bounds[bound].losses
    /\ asked \in Bounds[bound].asked
    /\ filter \in Filters
    /\ direct = {} /\ tags = {} /\ haveObjects = {} /\ objects = {} /\ trees = {}
    /\ queue = <<>>

Fail == pc' = "failed"

------------------------------------------------------------------------------
\* partition_wants, and the early return when there is no history to walk.
Partition ==
    LET history == asked \cap (Commits \cup Tags)
    IN /\ pc = "partition"
       /\ IF \A w \in asked : Present(w)
          THEN /\ direct' = asked \ history
               /\ IF history = {} THEN pc' = "planned" /\ objects' = direct'
                                  ELSE pc' = "haves" /\ UNCHANGED objects
          ELSE Fail /\ UNCHANGED <<direct, objects>>
       /\ UNCHANGED <<repoVars, wants, haves, disc, level, done, toSend, common, bounded,
                      root, lost, asked, filter, tags, haveObjects, trees, queue>>

\* peel_want: the tags from t down to the first object that is not a tag.
Chain(t) ==
    LET c[x \in Tags] == {x} \cup IF Target[x] \in Tags THEN c[Target[x]] ELSE {}
    IN c[t]

Peeled(t) ==
    LET p[x \in Tags] == IF Target[x] \in Tags THEN p[Target[x]] ELSE Target[x]
    IN p[t]

\* peel_wants, between the haves and the marks of the wants: each tag of a
\* chain is sent; a chain must end in a commit.
Peel ==
    LET tagged == asked \cap Tags
        chains == UNION {Chain(t) : t \in tagged}
        ends == {Peeled(t) : t \in tagged}
    IN /\ pc = "wants" /\ wants = {}
       /\ IF (\A t \in chains : Present(t)) /\ (\A c \in ends : c \in Commits /\ Present(c))
          THEN /\ wants' = (asked \cap Commits) \cup ends
               /\ tags' = chains
               /\ UNCHANGED pc
          ELSE Fail /\ UNCHANGED <<wants, tags>>
       /\ UNCHANGED <<repoVars, haves, disc, level, done, toSend, common, bounded,
                      root, lost, asked, filter, direct, haveObjects, objects, trees, queue>>

Discover == Step /\ UNCHANGED planVars

collectVars == <<repoVars, wants, haves, disc, level, done, toSend, common, bounded,
                 root, lost, asked, filter, direct, tags>>

\* collect_inner starts from the root trees of the recognised haves.
StartCollect ==
    /\ pc = "selected"
    /\ pc' = "expand"
    /\ haveObjects' = {root[c] : c \in common}
    /\ trees' = haveObjects'
    /\ UNCHANGED <<collectVars, objects, queue>>

HaveLeaves(S) == IF filter.kind = "blob:none" THEN {} ELSE Leaves(S)

\* expand_haves, one depth.
ExpandHaves ==
    /\ pc = "expand" /\ trees # {}
    /\ IF \A t \in trees : Present(t)
       THEN /\ haveObjects' = haveObjects \cup Subtrees(trees) \cup HaveLeaves(trees)
            /\ trees' = Subtrees(trees) \ haveObjects
            /\ UNCHANGED pc
       ELSE Fail /\ UNCHANGED <<haveObjects, trees>>
    /\ UNCHANGED <<collectVars, objects, queue>>

\* The send list is classified in one batch: every object must be there.
Classify ==
    /\ pc = "expand" /\ trees = {}
    /\ IF \A c \in ToSet(toSend) : Present(c)
       THEN pc' = "collect" /\ queue' = toSend \o SetToSeq(tags)
       ELSE Fail /\ UNCHANGED queue
    /\ UNCHANGED <<collectVars, haveObjects, objects, trees>>

\* (Mutant of NewTrees: a tree that shares a blob with the haves is pruned.)
NewTreesOverpruned(S) ==
    {t \in S \ (objects \cup haveObjects) : Entries[t] \cap haveObjects = {}}

NewTrees(S) == S \ (objects \cup haveObjects)

\* (Mutant of CollectNext: the send list is never advanced.)
CollectNextAgain ==
    /\ pc = "collect" /\ trees = {} /\ queue # <<>>
    /\ LET id == queue[1]
           new == IF id \in Commits THEN NewTrees({root[id]}) ELSE {}
       IN /\ objects' = objects \cup {id} \cup new
          /\ trees' = new
    /\ UNCHANGED <<collectVars, pc, haveObjects, queue>>

\* The next commit, with its root tree unless that is had or collected; or
\* the next tag.
CollectNext ==
    /\ pc = "collect" /\ trees = {} /\ queue # <<>>
    /\ LET id == queue[1]
           new == IF id \in Commits THEN NewTrees({root[id]}) ELSE {}
       IN /\ objects' = objects \cup {id} \cup new
          /\ trees' = new
    /\ queue' = Tail(queue)
    /\ UNCHANGED <<collectVars, pc, haveObjects>>

\* walk_tree, one depth, with admit_blobs: a size filter looks every
\* candidate up.
WalkTree ==
    LET candidates == Leaves(trees) \ (objects \cup haveObjects)
        admitted == {b \in candidates : Admits(b)}
        readable == /\ \A t \in trees : Present(t)
                    /\ filter.kind = "blob:limit" => \A b \in candidates : Present(b)
    IN /\ pc = "collect" /\ trees # {}
       /\ IF readable
          THEN /\ objects' = objects \cup NewTrees(Subtrees(trees)) \cup admitted
               /\ trees' = NewTrees(Subtrees(trees))
               /\ UNCHANGED pc
          ELSE Fail /\ UNCHANGED <<objects, trees>>
       /\ UNCHANGED <<collectVars, haveObjects, queue>>

AddDirect ==
    /\ pc = "collect" /\ trees = {} /\ queue = <<>>
    /\ objects' = objects \cup direct
    /\ pc' = "planned"
    /\ UNCHANGED <<collectVars, haveObjects, trees, queue>>

PlanNext ==
    \/ Partition \/ Peel \/ Discover \/ StartCollect \/ ExpandHaves \/ Classify
    \/ CollectNext \/ WalkTree \/ AddDirect

PlanSpec == PlanInit /\ [][PlanNext]_allVars /\ WF_allVars(PlanNext)

------------------------------------------------------------------------------
(* Properties                                                              *)

\* The trees and blobs under a tree that a complete client holds.
Under(t) ==
    LET u[x \in Trees] == {x} \cup {b \in Entries[x] \cap Blobs : Admits(b)}
                              \cup UNION {u[y] : y \in Entries[x] \cap Trees}
    IN u[t]

ClosureOf(S) == Ancestry(S) \cup UNION {Under(root[c]) : c \in Ancestry(S)}

\* A planned pack completes the client: together with what is reachable
\* from the recognised haves (under the same filter), it holds everything
\* reachable from the wanted commits and tags, and the wanted tags
\* themselves.
PackCompletesClient ==
    pc = "planned" =>
        tags \cup ClosureOf(wants) \subseteq objects \cup ClosureOf(common)

\* An explicitly requested object is never filtered out: it is packed, or a
\* wanted commit is one the client has.
WantsAreServed ==
    pc = "planned" => asked \subseteq objects \cup Ancestry(common)

\* An incremental fetch is proportional to the diff: no tree or blob of a
\* recognised have's snapshot is sent unless it was asked for by id.
SnapshotsNotResent ==
    pc = "planned" =>
        (objects \ direct) \cap UNION {Under(root[c]) : c \in common} = {}

\* Planning fails only over a want that does not exist or peels to no
\* commit, or over an object missing from storage.
FailuresHaveCause ==
    pc \in {"error", "failed"} =>
        \/ \E w \in asked : ~Present(w)
        \/ \E t \in asked \cap Tags : \E x \in Chain(t) : Target[x] \notin Commits \cup Tags
        \/ lost # {} \/ stored # Commits

\* The pack is what the client needs: everything it lacks and nothing of the
\* snapshots it has.
PlanExact ==
    FPTypeOK /\ PackCompletesClient /\ WantsAreServed /\ SnapshotsNotResent /\ NothingCommonSent

\* Missing objects are told apart from haves the server does not know: the
\* first are an error, and nothing else is.
FailuresExplained == HolesSurface /\ FailuresHaveCause

\* The commits a request wants, its tags peeled.  (select_commits alone is
\* given its wants: nothing is asked for.)
Wanted == IF asked = {} THEN wants
          ELSE Commits \cap (asked \cup {Peeled(t) : t \in asked \cap Tags})

\* A repository as pushes leave it: nothing is missing, generations are exact.
Intact == generation = ExactGeneration(parents) /\ stored = Commits /\ lost = {}

NoSelection == [pc |-> "walking"]

\* What select_commits has answered; a request without history has no walk.
Outcome == IF Intact /\ wants # {} /\ pc \in {"selected", "expand", "collect", "planned"}
           THEN [common |-> common, sent |-> Sent, bounded |-> bounded]
           ELSE NoSelection

Promise == INSTANCE Selection
    WITH Commit <- Commits, NoAnswer <- NoSelection, known <- stored, wants <- Wanted, answer <- Outcome

\* The level-by-level walk of select_commits implements Selection on an intact
\* repository: it sends exactly the wanted commits that no recognised have
\* reaches, bounded_by_haves, which ends a negotiation, is true exactly when
\* the haves kept the walk from sending a root, and the planner around it
\* neither changes that answer nor gives it up.
ImplementsSelection == Promise!SelectionSpec

\* Discovery ends, alone or within a plan, and so does planning.
PlanningEnds ==
    /\ pc = "haves" ~> pc \in {"selected", "error", "failed"}
    /\ pc = "partition" ~> pc \in {"planned", "error", "failed"}

==============================================================================
