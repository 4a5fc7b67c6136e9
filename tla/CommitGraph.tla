----------------------------- MODULE CommitGraph -----------------------------
(***************************************************************************)
(* The commit-graph segment: one derived record per commit, holding its    *)
(* generation.  Three writers share it, and none of them takes a lock:     *)
(*                                                                         *)
(*   - a push records the commits it promoted (validate_and_promote,       *)
(*     phase 3), asking get_commit_info for the parents;                   *)
(*   - get_commit_info backfills whatever record it misses, for fetches    *)
(*     and for pushes, many calls at a time (prefetch_records);            *)
(*   - rebuild_commit_graph recomputes everything, offline.                *)
(*                                                                         *)
(* Records are written with relaxed durability: a crash loses the tail.    *)
(* Each await is a step.  Only commits are modelled; module Push has the   *)
(* other kinds, the refs and their transactions.                           *)
(***************************************************************************)
EXTENDS Integers, Sequences, FiniteSetsExt

CONSTANTS
    Commits,
    Parents,      \* the parents of a commit, in body order
    Generation,   \* what the topology says: 1 + the highest of the parents
    Walkers,      \* get_commit_info calls made by fetches
    Pushes,
    New,          \* New[p]: the commits push p promotes, ancestors first
    Rebuilder,    \* the rebuild-graph command
    Stored,       \* commits durable at the start
    Recorded,     \* the graph record of each of them at the start (0: none)
    MaxCrashes    \* bound on server crashes

Actors == Walkers \cup Pushes \cup {Rebuilder}

ParentSet(c) == {Parents[c][i] : i \in DOMAIN Parents[c]}

ASSUME CommitAssumption ==
    /\ Commits # {} /\ Parents \in [Commits -> Seq(Commits)]
    /\ Generation \in [Commits -> Nat]
    /\ \A c \in Commits : Generation[c] = 1 + Max({0} \cup {Generation[d] : d \in ParentSet(c)})

ASSUME StartAssumption ==
    /\ Stored \subseteq Commits
    /\ \A c \in Stored : ParentSet(c) \subseteq Stored
    /\ Recorded \in [Commits -> Nat]
    /\ \A c \in Commits : Recorded[c] # 0 =>
          c \in Stored /\ \A d \in ParentSet(c) : Recorded[d] # 0
    /\ MaxCrashes \in Nat

\* The pushes are what validate let through: what New[p] does not carry
\* itself was committed before.
ASSUME PushAssumption ==
    /\ New \in [Pushes -> Seq(Commits)]
    /\ \A p \in Pushes : \A i \in DOMAIN New[p] : \A d \in ParentSet(New[p][i]) :
          d \in Stored \/ \E j \in 1..(i - 1) : New[p][j] = d
    /\ Walkers \cap Pushes = {} /\ Rebuilder \notin Walkers \cup Pushes

VARIABLES
    durObjs, durGraph,   \* commits and records that survive a crash
    queue,               \* writes not yet durable, in submission order
    objs, graph,         \* what a read returns
    tips,                \* commits the refs name (durable)
    pc,
    todo,                \* push: index of the commit it works on
    asked,               \* push: how many parents' generations it has
    best,                \* push: max_parent_generation
    target,              \* get_commit_info: its argument
    stack,               \* backfill, rebuild: commits to resolve
    gens,                \* backfill, rebuild: generations resolved (0: none)
    result,              \* backfill: target's generation once written (0: none)
    owed,                \* queue entries a flush still waits for
    crashes

disk  == <<durObjs, durGraph, crashes>>
push  == <<todo, asked, best>>
walk  == <<target, stack, gens, result>>
vars  == <<disk, queue, objs, graph, tips, pc, push, walk, owed>>

ObjectWrite(c)    == [type |-> "object", commit |-> c]
RecordWrite(c, g) == [type |-> "record", commit |-> c, generation |-> g]

\* Some commit: the target while no call is under way.
Anywhere == CHOOSE c \in Commits : TRUE

NoRecords == [c \in Commits |-> 0]

Running == {"object", "put_object", "extend", "lookup", "read", "parse", "put", "flush"}
Ended   == {"done", "missing", "failed"}

Init ==
    /\ durObjs = Stored /\ objs = Stored
    /\ durGraph = Recorded /\ graph = Recorded
    /\ queue = <<>>
    /\ tips = {c \in Stored : \A d \in Stored : c \notin ParentSet(d)}
    /\ pc = [a \in Actors |-> "idle"]
    /\ todo = [a \in Actors |-> 1]
    /\ asked = [a \in Actors |-> 0]
    /\ best = [a \in Actors |-> 0]
    /\ target = [a \in Actors |-> Anywhere]
    /\ stack = [a \in Actors |-> <<>>]
    /\ gens = [a \in Actors |-> NoRecords]
    /\ result = [a \in Actors |-> 0]
    /\ owed = [a \in Actors |-> 0]
    /\ crashes = 0

Goto(a, l) == pc' = [pc EXCEPT ![a] = l]

\* a returns, or is dropped: its locals are gone.
Leave(a, l) ==
    /\ Goto(a, l)
    /\ todo' = [todo EXCEPT ![a] = 1]
    /\ asked' = [asked EXCEPT ![a] = 0]
    /\ best' = [best EXCEPT ![a] = 0]
    /\ target' = [target EXCEPT ![a] = Anywhere]
    /\ stack' = [stack EXCEPT ![a] = <<>>]
    /\ gens' = [gens EXCEPT ![a] = NoRecords]
    /\ result' = [result EXCEPT ![a] = 0]
    /\ owed' = [owed EXCEPT ![a] = 0]

\* put_commit_graph with Durability::Relaxed.
PutCommitGraph(c, g) ==
    /\ queue' = Append(queue, RecordWrite(c, g))
    /\ graph' = [graph EXCEPT ![c] = g]

\* The rebuild runs offline: while nothing else does.
Offline == \A a \in Actors \ {Rebuilder} : pc[a] \notin Running
Online  == pc[Rebuilder] \notin Running

-----------------------------------------------------------------------------
(* get_commit_info and backfill_commit_info, on behalf of actor a *)

Call(a, c) ==
    /\ Goto(a, "lookup")
    /\ target' = [target EXCEPT ![a] = c]

\* The call returns generation g: a fetch has what it asked for, a push goes
\* on with the next parent.
Return(a, g) ==
    IF a \in Pushes
    THEN /\ Goto(a, "extend")
         /\ best' = [best EXCEPT ![a] = Max({@, g})]
         /\ asked' = [asked EXCEPT ![a] = @ + 1]
         /\ UNCHANGED <<todo, walk, owed>>
    ELSE Leave(a, "done")

\* A fetch asks for the record of a commit it found.
StartWalk(w) ==
    /\ pc[w] = "idle" /\ Online
    /\ \E c \in objs : Call(w, c)
    /\ UNCHANGED <<disk, queue, objs, graph, tips, push, stack, gens, result, owed>>

LookupHit(a) ==
    /\ pc[a] = "lookup"
    /\ graph[target[a]] # 0
    /\ Return(a, graph[target[a]])
    /\ UNCHANGED <<disk, queue, objs, graph, tips>>

LookupMiss(a) ==
    /\ pc[a] = "lookup"
    /\ graph[target[a]] = 0
    /\ Goto(a, "read")
    /\ stack' = [stack EXCEPT ![a] = <<target[a]>>]
    /\ gens' = [gens EXCEPT ![a] = NoRecords]
    /\ result' = [result EXCEPT ![a] = 0]
    /\ UNCHANGED <<disk, queue, objs, graph, tips, push, target, owed>>

Top(a) == stack[a][Len(stack[a])]
Pop(a) == stack' = [stack EXCEPT ![a] = SubSeq(@, 1, Len(@) - 1)]

\* (Mutant of Resolved: the duplicate is not popped.)
ResolvedStays(a) ==
    /\ pc[a] = "read" /\ stack[a] # <<>>
    /\ gens[a][Top(a)] # 0
    /\ UNCHANGED vars

\* A second stack entry of a commit resolved meanwhile.
Resolved(a) ==
    /\ pc[a] = "read" /\ stack[a] # <<>>
    /\ gens[a][Top(a)] # 0
    /\ Pop(a)
    /\ UNCHANGED <<disk, queue, objs, graph, tips, pc, push, target, gens, result, owed>>

\* (Mutant of ReadHit: the rebuild trusts records too.)
ReadHitTrusting(a) ==
    /\ pc[a] = "read" /\ stack[a] # <<>>
    /\ gens[a][Top(a)] = 0 /\ graph[Top(a)] # 0
    /\ gens' = [gens EXCEPT ![a][Top(a)] = graph[Top(a)]]
    /\ Pop(a)
    /\ UNCHANGED <<disk, queue, objs, graph, tips, pc, push, target, result, owed>>

\* The store has a record for the top.  (A rebuild trusts none.)
ReadHit(a) ==
    /\ pc[a] = "read" /\ stack[a] # <<>>
    /\ a # Rebuilder
    /\ gens[a][Top(a)] = 0 /\ graph[Top(a)] # 0
    /\ gens' = [gens EXCEPT ![a][Top(a)] = graph[Top(a)]]
    /\ Pop(a)
    /\ UNCHANGED <<disk, queue, objs, graph, tips, pc, push, target, result, owed>>

ReadMiss(a) ==
    /\ pc[a] = "read" /\ stack[a] # <<>>
    /\ gens[a][Top(a)] = 0
    /\ a = Rebuilder \/ graph[Top(a)] = 0
    /\ Goto(a, "parse")
    /\ UNCHANGED <<disk, queue, objs, graph, tips, push, walk, owed>>

\* (Mutant of Missing: no parent is waited for.)
MissingNone(a) == <<>>

\* The commits of a sequence that g has no generation for, in order.
Unresolved(commits, g) ==
    LET keep[n \in 0..Len(commits)] ==
            IF n = 0 THEN <<>>
            ELSE IF g[commits[n]] = 0 THEN Append(keep[n - 1], commits[n])
            ELSE keep[n - 1]
    IN  keep[Len(commits)]

\* The parents of the top that are not resolved, in order.
Missing(a) == Unresolved(Parents[Top(a)], gens[a])

\* (Mutant of Parse: the missing parents are pushed as one entry.)
ParsePushesList(a) ==
    /\ pc[a] = "parse"
    /\ Goto(a, IF Missing(a) = <<>> THEN "put" ELSE "read")
    /\ stack' = [stack EXCEPT ![a] = IF Missing(a) = <<>> THEN @ ELSE Append(@, Missing(a))]
    /\ UNCHANGED <<disk, queue, objs, graph, tips, push, target, gens, result, owed>>

\* parse_commit of the top, which fails if there is no object.  A resolved
\* commit is written next; otherwise its parents come first.
Parse(a) ==
    /\ pc[a] = "parse"
    /\ IF Top(a) \notin objs
       THEN Leave(a, "missing")
       ELSE /\ Goto(a, IF Missing(a) = <<>> THEN "put" ELSE "read")
            /\ stack' = [stack EXCEPT ![a] = @ \o Missing(a)]
            /\ UNCHANGED <<push, target, gens, result, owed>>
    /\ UNCHANGED <<disk, queue, objs, graph, tips>>

PutRecord(a) ==
    LET c == Top(a)
        g == 1 + Max({0} \cup {gens[a][d] : d \in ParentSet(c)})
    IN  /\ pc[a] = "put"
        /\ PutCommitGraph(c, g)
        /\ gens' = [gens EXCEPT ![a][c] = g]
        /\ result' = [result EXCEPT ![a] = IF a # Rebuilder /\ c = target[a] THEN g ELSE @]
        /\ Pop(a)
        /\ Goto(a, "read")
        /\ UNCHANGED <<disk, objs, tips, push, target, owed>>

\* The stack is empty and the target's record was written here.
BackfillDone(a) ==
    /\ pc[a] = "read" /\ stack[a] = <<>> /\ a # Rebuilder
    /\ result[a] # 0
    /\ Return(a, result[a])
    /\ UNCHANGED <<disk, queue, objs, graph, tips>>

\* The stack is empty without it: result.ok_or(MissingObject(target)).
BackfillMissing(a) ==
    /\ pc[a] = "read" /\ stack[a] = <<>> /\ a # Rebuilder
    /\ result[a] = 0
    /\ Leave(a, "missing")
    /\ UNCHANGED <<disk, queue, objs, graph, tips>>

GetCommitInfo(a) ==
    \/ LookupHit(a) \/ LookupMiss(a) \/ Resolved(a) \/ ReadHit(a) \/ ReadMiss(a)
    \/ Parse(a) \/ PutRecord(a) \/ BackfillDone(a) \/ BackfillMissing(a)

-----------------------------------------------------------------------------
(* validate_and_promote, phases 2 (its commits) and 3 *)

Current(p) == New[p][todo[p]]

StartPush(p) ==
    /\ pc[p] = "idle" /\ Online
    /\ Goto(p, "object")
    /\ UNCHANGED <<disk, queue, objs, graph, tips, push, walk, owed>>

\* ObjectDb::put of a commit that has a record, and of one that has none.
ObjectExists(p) ==
    /\ pc[p] = "object"
    /\ todo[p] <= Len(New[p]) /\ Current(p) \in objs
    /\ todo' = [todo EXCEPT ![p] = @ + 1]
    /\ UNCHANGED <<disk, queue, objs, graph, tips, pc, asked, best, walk, owed>>

ObjectAbsent(p) ==
    /\ pc[p] = "object"
    /\ todo[p] <= Len(New[p]) /\ Current(p) \notin objs
    /\ Goto(p, "put_object")
    /\ UNCHANGED <<disk, queue, objs, graph, tips, push, walk, owed>>

PutObject(p) ==
    /\ pc[p] = "put_object"
    /\ queue' = Append(queue, ObjectWrite(Current(p)))
    /\ objs' = objs \cup {Current(p)}
    /\ todo' = [todo EXCEPT ![p] = @ + 1]
    /\ Goto(p, "object")
    /\ UNCHANGED <<disk, graph, tips, asked, best, walk, owed>>

ObjectsDone(p) ==
    /\ pc[p] = "object"
    /\ todo[p] > Len(New[p])
    /\ todo' = [todo EXCEPT ![p] = 1]
    /\ Goto(p, "extend")
    /\ UNCHANGED <<disk, queue, objs, graph, tips, asked, best, walk, owed>>

\* Phase 3: the next parent of the current commit.
AskParent(p) ==
    /\ pc[p] = "extend"
    /\ todo[p] <= Len(New[p]) /\ asked[p] < Len(Parents[Current(p)])
    /\ Call(p, Parents[Current(p)][asked[p] + 1])
    /\ UNCHANGED <<disk, queue, objs, graph, tips, push, stack, gens, result, owed>>

\* (Mutant of Extend: the last parent is not asked.)
ExtendEarly(p) ==
    /\ pc[p] = "extend"
    /\ todo[p] <= Len(New[p]) /\ asked[p] + 1 >= Len(Parents[Current(p)])
    /\ PutCommitGraph(Current(p), best[p] + 1)
    /\ todo' = [todo EXCEPT ![p] = @ + 1]
    /\ asked' = [asked EXCEPT ![p] = 0]
    /\ best' = [best EXCEPT ![p] = 0]
    /\ UNCHANGED <<disk, objs, tips, pc, walk, owed>>

\* All parents are known: write the record.
Extend(p) ==
    /\ pc[p] = "extend"
    /\ todo[p] <= Len(New[p]) /\ asked[p] = Len(Parents[Current(p)])
    /\ PutCommitGraph(Current(p), best[p] + 1)
    /\ todo' = [todo EXCEPT ![p] = @ + 1]
    /\ asked' = [asked EXCEPT ![p] = 0]
    /\ best' = [best EXCEPT ![p] = 0]
    /\ UNCHANGED <<disk, objs, tips, pc, walk, owed>>

\* Store::flush waits for everything submitted so far.
ExtendDone(p) ==
    /\ pc[p] = "extend"
    /\ todo[p] > Len(New[p])
    /\ Goto(p, "flush")
    /\ owed' = [owed EXCEPT ![p] = Len(queue)]
    /\ UNCHANGED <<disk, queue, objs, graph, tips, push, walk>>

\* The refs follow (module Push): they name the push's last commit.
PushDone(p) ==
    /\ pc[p] = "flush" /\ owed[p] = 0
    /\ Leave(p, "done")
    /\ tips' = tips \cup {New[p][i] : i \in DOMAIN New[p] \cap {Len(New[p])}}
    /\ UNCHANGED <<disk, queue, objs, graph>>

PromoteCommits(p) ==
    \/ ObjectExists(p) \/ ObjectAbsent(p) \/ PutObject(p) \/ ObjectsDone(p)
    \/ AskParent(p) \/ Extend(p) \/ ExtendDone(p) \/ PushDone(p)

-----------------------------------------------------------------------------
(* rebuild_commit_graph *)

StartRebuild ==
    /\ pc[Rebuilder] = "idle" /\ Offline
    /\ Goto(Rebuilder, "read")
    /\ UNCHANGED <<disk, queue, objs, graph, tips, push, walk, owed>>

\* The next root that is not resolved yet.  (list_refs fixes some order.)
NextRoot ==
    /\ pc[Rebuilder] = "read" /\ stack[Rebuilder] = <<>>
    /\ \E c \in tips :
          /\ gens[Rebuilder][c] = 0
          /\ stack' = [stack EXCEPT ![Rebuilder] = <<c>>]
    /\ UNCHANGED <<disk, queue, objs, graph, tips, pc, push, target, gens, result, owed>>

RootsDone ==
    /\ pc[Rebuilder] = "read" /\ stack[Rebuilder] = <<>>
    /\ \A c \in tips : gens[Rebuilder][c] # 0
    /\ Goto(Rebuilder, "flush")
    /\ owed' = [owed EXCEPT ![Rebuilder] = Len(queue)]
    /\ UNCHANGED <<disk, queue, objs, graph, tips, push, walk>>

RebuildDone ==
    /\ pc[Rebuilder] = "flush" /\ owed[Rebuilder] = 0
    /\ Leave(Rebuilder, "done")
    /\ UNCHANGED <<disk, queue, objs, graph, tips>>

Rebuild ==
    NextRoot \/ RootsDone \/ RebuildDone

-----------------------------------------------------------------------------
\* A store error or a dropped request ends an actor at its current await.
Fail(a) ==
    /\ pc[a] \in Running
    /\ Leave(a, "failed")
    /\ UNCHANGED <<disk, queue, objs, graph, tips>>

\* The WAL flush task persists the oldest write.
WalFlush ==
    /\ queue # <<>>
    /\ LET e == Head(queue) IN
       IF e.type = "object"
       THEN durObjs' = durObjs \cup {e.commit} /\ UNCHANGED durGraph
       ELSE durGraph' = [durGraph EXCEPT ![e.commit] = e.generation] /\ UNCHANGED durObjs
    /\ queue' = Tail(queue)
    /\ owed' = [a \in Actors |-> IF owed[a] > 0 THEN owed[a] - 1 ELSE 0]
    /\ UNCHANGED <<objs, graph, tips, pc, push, walk, crashes>>

\* The process dies and restarts on what was durable.
Crash ==
    /\ crashes < MaxCrashes
    /\ crashes' = crashes + 1
    /\ objs' = durObjs /\ graph' = durGraph /\ queue' = <<>>
    /\ pc' = [a \in Actors |-> IF pc[a] \in Running THEN "failed" ELSE pc[a]]
    /\ todo' = [a \in Actors |-> 1]
    /\ asked' = [a \in Actors |-> 0]
    /\ best' = [a \in Actors |-> 0]
    /\ target' = [a \in Actors |-> Anywhere]
    /\ stack' = [a \in Actors |-> <<>>]
    /\ gens' = [a \in Actors |-> NoRecords]
    /\ result' = [a \in Actors |-> 0]
    /\ owed' = [a \in Actors |-> 0]
    /\ UNCHANGED <<durObjs, durGraph, tips>>

Next ==
    \/ \E a \in Actors : GetCommitInfo(a) \/ Fail(a)
    \/ \E w \in Walkers : StartWalk(w)
    \/ \E p \in Pushes : StartPush(p) \/ PromoteCommits(p)
    \/ StartRebuild \/ Rebuild
    \/ WalFlush
    \/ Crash

Spec == Init /\ [][Next]_vars

\* A call that was made is polled until it returns, and the flush task runs.
FairSpec ==
    /\ Spec
    /\ WF_vars(WalFlush)
    /\ WF_vars(Rebuild)
    /\ \A a \in Actors : WF_vars(GetCommitInfo(a))
    /\ \A p \in Pushes : WF_vars(PromoteCommits(p))

-----------------------------------------------------------------------------
ObjectWrites == [type : {"object"}, commit : Commits]
RecordWrites == [type : {"record"}, commit : Commits, generation : Nat]

GraphTypeOK ==
    /\ durObjs \subseteq Commits /\ objs \subseteq Commits /\ tips \subseteq Commits
    /\ durGraph \in [Commits -> Nat] /\ graph \in [Commits -> Nat]
    /\ queue \in Seq(ObjectWrites \cup RecordWrites)
    /\ pc \in [Actors -> Running \cup Ended \cup {"idle"}]
    /\ todo \in [Actors -> Nat] /\ asked \in [Actors -> Nat] /\ best \in [Actors -> Nat]
    /\ target \in [Actors -> Commits] /\ stack \in [Actors -> Seq(Commits)]
    /\ gens \in [Actors -> [Commits -> Nat]] /\ result \in [Actors -> Nat]
    /\ owed \in [Actors -> Nat] /\ crashes \in Nat

\* walk.rs: "generations are always 1 + max(parent generations)", for every
\* record a reader or a recovery can meet, whoever wrote it beside whom.
GenerationsExact ==
    /\ \A c \in Commits : graph[c] \in {0, Generation[c]} /\ durGraph[c] \in {0, Generation[c]}
    /\ \A i \in DOMAIN queue :
          queue[i].type = "record" => queue[i].generation = Generation[queue[i].commit]

\* The commits, and the commits with a record, if the first n writes survive.
ObjectsAt(n) == durObjs \cup {c \in Commits : \E i \in 1..n : queue[i] = ObjectWrite(c)}
RecordedAt(n) ==
    {c \in Commits : \/ durGraph[c] # 0
                     \/ \E i \in 1..n : queue[i].type = "record" /\ queue[i].commit = c}

\* Whatever a crash leaves of the relaxed writes, a record has its commit and
\* the records of the parents: the graph never gets ahead of the objects, and
\* has gaps only towards the tips.
RecordsGrounded ==
    \A n \in 0..Len(queue) : \A c \in RecordedAt(n) :
        c \in ObjectsAt(n) /\ ParentSet(c) \subseteq RecordedAt(n)

\* Every commit reachable from S: what no set around S leaves out that holds
\* the parents of all its members.
Ancestry(S) ==
    {c \in Commits : \A A \in SUBSET Commits :
        S \subseteq A /\ (\A d \in A : ParentSet(d) \subseteq A) => c \in A}

\* walk.rs: "a rebuild also corrects a record that had gone stale or been
\* corrupted": what it leaves is exact, and durable, below every ref.
RebuildCorrects ==
    [][ pc[Rebuilder] = "flush" /\ pc'[Rebuilder] = "done" =>
           \A c \in Ancestry(tips) : durGraph[c] = Generation[c] ]_vars

\* walk.rs: MissingObject "indicates corruption: promotion only commits full
\* closures", and "Concurrent lazy backfills of overlapping ancestries are
\* safe": no call ends in MissingObject here, where no object is missing.
NoneMissing == \A a \in Actors : pc[a] # "missing"

\* Every get_commit_info call, push and rebuild that started ends.
EveryCallEnds == \A a \in Actors : pc[a] \in Running ~> pc[a] \in Ended
=============================================================================
