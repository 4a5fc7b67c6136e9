-------------------------------- MODULE Push --------------------------------
(***************************************************************************)
(* Pushes into one repository: receive_pack ingests a pack, validates the  *)
(* connectivity of the pushed tips, promotes the new objects, extends the  *)
(* commit graph, flushes, and applies the ref updates as one transaction.  *)
(* Any number of pushes run concurrently in one server process over        *)
(*                                                                         *)
(*   - SlateDB: writes are visible at once and become durable in           *)
(*     submission order; a crash keeps a prefix of them;                   *)
(*   - the blob store: an upload is durable when it returns.               *)
(*                                                                         *)
(* Each `await` of the code at which another request can run is a step     *)
(* boundary here.  Object bodies are abstracted to their kind and their    *)
(* outgoing links.                                                         *)
(***************************************************************************)
EXTENDS Integers, Sequences

CONSTANTS
    Objects,     \* object ids
    Kind,        \* the kind of each object
    Children,    \* the ids an object names, in body order (object_children)
    Depth,       \* a height of each object over the links (hash links are acyclic)
    Offloaded,   \* blobs longer than inline_threshold
    Refs,        \* ref names
    Symbolic,    \* the refs stored as symbolic targets (HEAD)
    Pushes,      \* receive-pack requests
    Commands,    \* Commands[p]: the command list of push p
    Pack,        \* Pack[p]: the objects whose entries the pack carries
    ThinBases,   \* Pack's ref-delta bases that are not in the pack itself
    None,        \* absent: no oid
    MaxCrashes   \* bound on server crashes

KindOrder == [blob |-> 1, tree |-> 2, commit |-> 3, tag |-> 4]

Oid == Objects \cup {None}

Kids(o) == {Children[o][i] : i \in DOMAIN Children[o]}

Command == [ref : Refs, old : Oid, new : Oid]

ASSUME NoneAssumption == None \notin Objects

ASSUME ObjectAssumption ==
    /\ Kind \in [Objects -> DOMAIN KindOrder]
    /\ Children \in [Objects -> Seq(Objects)]
    /\ Depth \in [Objects -> Nat]
    /\ Offloaded \subseteq {o \in Objects : Kind[o] = "blob"}

\* An object id is the hash of a body that contains the ids of its children.
ASSUME AcyclicAssumption ==
    \A o \in Objects : \A c \in Kids(o) : Depth[c] < Depth[o]

ASSUME RequestAssumption ==
    /\ Symbolic \subseteq Refs
    /\ Commands \in [Pushes -> Seq(Command)]
    /\ Pack \in [Pushes -> SUBSET Objects]
    /\ ThinBases \in [Pushes -> SUBSET Objects]
    /\ MaxCrashes \in Nat

\* UPDATE_REFS_ATTEMPTS
UpdateRefsAttempts == 2

-----------------------------------------------------------------------------
VARIABLES
    (* storage *)
    durObjs,     \* object records recovery would find
    durRefs,     \* direct ref targets recovery would find
    queue,       \* writes submitted to SlateDB and not yet durable, in order
    visObjs,     \* object records a read returns
    visRefs,     \* direct ref targets a read returns
    blobs,       \* offloaded bodies in the blob store
    (* each request in flight *)
    pc,          \* where it is
    path,        \* validate: the objects being visited, outermost first
    at,          \* validate: how many children each of them has entered
    done,        \* validate: visits that are settled
    order,       \* validate's result: the new objects in post-order
    put,         \* indices of order already put
    cur,         \* the index objectdb.put is working on
    owed,        \* queue entries that must become durable before it goes on
    attempt,     \* conflicts met by update_refs
    view,        \* the ref transaction: its snapshot with its own writes
    wrote,       \* the ref transaction: the names it writes
    stale,       \* names committed by others since its snapshot
    results,     \* outcome per command so far
    (* bookkeeping *)
    landed,      \* pushes whose ref transaction is durable
    crashes

store   == <<durObjs, durRefs, queue, visObjs, visRefs, blobs, landed, crashes>>
walk    == <<path, at, done, order>>
promote == <<put, cur>>
txn     == <<attempt, view, wrote, stale, results>>
vars    == <<store, pc, walk, promote, owed, txn>>

\* A queue entry is an object record or the write set of a ref transaction.
ObjectWrite(o)    == [type |-> "object", oid |-> o]
RefWrite(p, v, W) == [type |-> "refs", by |-> p, target |-> v, names |-> W]

ObjectWrites == [type : {"object"}, oid : Objects]
RefWrites    == [type : {"refs"}, by : Pushes, target : [Refs -> Oid], names : SUBSET Refs]

Outcomes == {"ok", "symbolic", "non-fast-forward", "conflict"}

Running == {"validate", "write", "upload", "record", "graph", "barrier",
            "begin", "apply", "await"}
Ended   == {"done", "rejected", "failed"}

NoRefs == [r \in Refs |-> None]

\* The refs after applying the write set e to refs.
Overlay(refs, e) == [r \in Refs |-> IF r \in e.names THEN e.target[r] ELSE refs[r]]

\* Everything validate_and_promote can read from the staging area: the pack,
\* completed with the thin bases that ingest fetched from storage.
Staged(p) == Pack[p] \cup ThinBases[p]

CommandRefs(p) == {Commands[p][i].ref : i \in DOMAIN Commands[p]}

\* The tips of a push.  A deletion has none; None is settled from the start.
Tips(p) == [i \in DOMAIN Commands[p] |-> Commands[p][i].new]

\* What a visit enters: below an object its children, at the root the tips.
Links(p, o) == IF o = None THEN Tips(p) ELSE Children[o]

Init ==
    /\ durObjs = {} /\ visObjs = {} /\ blobs = {}
    /\ durRefs = NoRefs /\ visRefs = NoRefs
    /\ queue = <<>>
    /\ pc = [p \in Pushes |-> "idle"]
    /\ path = [p \in Pushes |-> <<>>]
    /\ at = [p \in Pushes |-> <<>>]
    /\ done = [p \in Pushes |-> {}]
    /\ order = [p \in Pushes |-> <<>>]
    /\ put = [p \in Pushes |-> {}]
    /\ cur = [p \in Pushes |-> 0]
    /\ owed = [p \in Pushes |-> 0]
    /\ attempt = [p \in Pushes |-> 0]
    /\ view = [p \in Pushes |-> NoRefs]
    /\ wrote = [p \in Pushes |-> {}]
    /\ stale = [p \in Pushes |-> {}]
    /\ results = [p \in Pushes |-> <<>>]
    /\ landed = {} /\ crashes = 0

Goto(p, l) == pc' = [pc EXCEPT ![p] = l]

\* The handlers of the pushes in P return: their locals are gone.  (results
\* is what they answered.)
Drop(P) ==
    /\ path' = [p \in Pushes |-> IF p \in P THEN <<>> ELSE path[p]]
    /\ at' = [p \in Pushes |-> IF p \in P THEN <<>> ELSE at[p]]
    /\ done' = [p \in Pushes |-> IF p \in P THEN {} ELSE done[p]]
    /\ order' = [p \in Pushes |-> IF p \in P THEN <<>> ELSE order[p]]
    /\ put' = [p \in Pushes |-> IF p \in P THEN {} ELSE put[p]]
    /\ cur' = [p \in Pushes |-> IF p \in P THEN 0 ELSE cur[p]]
    /\ owed' = [p \in Pushes |-> IF p \in P THEN 0 ELSE owed[p]]
    /\ attempt' = [p \in Pushes |-> IF p \in P THEN 0 ELSE attempt[p]]
    /\ view' = [p \in Pushes |-> IF p \in P THEN NoRefs ELSE view[p]]
    /\ wrote' = [p \in Pushes |-> IF p \in P THEN {} ELSE wrote[p]]
    /\ stale' = [p \in Pushes |-> IF p \in P THEN {} ELSE stale[p]]

-----------------------------------------------------------------------------
(* ingest_pack *)

\* The pack indexes, its thin bases found in storage: start the traversal
\* from the tips.
Ingest(p) ==
    /\ pc[p] = "idle"
    /\ ThinBases[p] \subseteq visObjs
    /\ Goto(p, "validate")
    /\ path' = [path EXCEPT ![p] = <<None>>]
    /\ at' = [at EXCEPT ![p] = <<0>>]
    /\ done' = [done EXCEPT ![p] = {None}]
    /\ UNCHANGED <<store, order, promote, owed, txn>>

\* A ref-delta base that exists nowhere: the pack cannot be indexed.
IngestRejected(p) ==
    /\ pc[p] = "idle"
    /\ ~ (ThinBases[p] \subseteq visObjs)
    /\ Goto(p, "rejected")
    /\ UNCHANGED <<store, walk, promote, owed, txn>>

-----------------------------------------------------------------------------
(* validate.  The code's stack holds, for each object on path, an Emit step *)
(* and above it an Enter step for each child not yet entered.               *)

Top(p) == path[p][Len(path[p])]

\* An Enter step is on top of the stack, for Entered(p).
Entering(p) == at[p][Len(path[p])] < Len(Links(p, Top(p)))
Entered(p)  == Links(p, Top(p))[at[p][Len(path[p])] + 1]

Advance(p) == [at[p] EXCEPT ![Len(path[p])] = @ + 1]

\* Step::Enter of an object seen before, or already committed.
Settled(p) ==
    /\ pc[p] = "validate"
    /\ Entering(p)
    /\ Entered(p) \in done[p] \cup visObjs
    /\ at' = [at EXCEPT ![p] = Advance(p)]
    /\ done' = [done EXCEPT ![p] = @ \cup {Entered(p)}]
    /\ UNCHANGED <<store, pc, path, order, promote, owed, txn>>

\* Step::Enter of a staged object: go on with its children.
Descend(p) ==
    /\ pc[p] = "validate"
    /\ Entering(p)
    /\ Entered(p) \notin done[p] \cup visObjs
    /\ Entered(p) \in Staged(p)
    /\ path' = [path EXCEPT ![p] = Append(@, Entered(p))]
    /\ at' = [at EXCEPT ![p] = Append(Advance(p), 0)]
    /\ done' = [done EXCEPT ![p] = @ \cup {Entered(p)}]
    /\ UNCHANGED <<store, pc, order, promote, owed, txn>>

\* (Mutant of Disconnected: the staged pack is not consulted.)
DisconnectedStaged(p) ==
    /\ pc[p] = "validate"
    /\ Entering(p)
    /\ Entered(p) \notin done[p] \cup visObjs
    /\ Goto(p, "rejected")
    /\ Drop({p})
    /\ UNCHANGED <<store, results>>

\* Step::Enter of an object that is nowhere: PromoteError::Connectivity.
Disconnected(p) ==
    /\ pc[p] = "validate"
    /\ Entering(p)
    /\ Entered(p) \notin done[p] \cup visObjs \cup Staged(p)
    /\ Goto(p, "rejected")
    /\ Drop({p})
    /\ UNCHANGED <<store, results>>

\* (Mutant of Emit: only one of the two stacks is popped.)
EmitKeepsAt(p) ==
    /\ pc[p] = "validate"
    /\ Len(path[p]) > 1
    /\ ~ Entering(p)
    /\ order' = [order EXCEPT ![p] = Append(@, Top(p))]
    /\ path' = [path EXCEPT ![p] = SubSeq(@, 1, Len(@) - 1)]
    /\ UNCHANGED <<store, pc, at, done, promote, owed, txn>>

\* Step::Emit: every child has been emitted.
Emit(p) ==
    /\ pc[p] = "validate"
    /\ Len(path[p]) > 1
    /\ ~ Entering(p)
    /\ order' = [order EXCEPT ![p] = Append(@, Top(p))]
    /\ path' = [path EXCEPT ![p] = SubSeq(@, 1, Len(@) - 1)]
    /\ at' = [at EXCEPT ![p] = SubSeq(@, 1, Len(@) - 1)]
    /\ UNCHANGED <<store, pc, done, promote, owed, txn>>

\* The stack is empty.
Validated(p) ==
    /\ pc[p] = "validate"
    /\ Len(path[p]) = 1
    /\ ~ Entering(p)
    /\ Goto(p, "write")
    /\ path' = [path EXCEPT ![p] = <<>>]
    /\ at' = [at EXCEPT ![p] = <<>>]
    /\ done' = [done EXCEPT ![p] = {}]
    /\ UNCHANGED <<store, order, promote, owed, txn>>

-----------------------------------------------------------------------------
(* validate_and_promote, phase 2: blobs, trees, commits, tags, each group  *)
(* in post-order; and ObjectDb::put for each object.                       *)

\* (Mutant of WrittenBefore: the groups are written from tags to blobs.)
WrittenAfter(p, i, j) ==
    LET rank(k) == KindOrder[Kind[order[p][k]]] IN
    \/ rank(i) > rank(j)
    \/ rank(i) = rank(j) /\ i < j

\* The grouped order: i is written before j.
WrittenBefore(p, i, j) ==
    LET rank(k) == KindOrder[Kind[order[p][k]]] IN
    \/ rank(i) < rank(j)
    \/ rank(i) = rank(j) /\ i < j

\* (Mutant of NextPut: the puts are issued in any order.)
NextPutAny(p, i) == i \in DOMAIN order[p] \ put[p]

NextPut(p, i) ==
    /\ i \in DOMAIN order[p] \ put[p]
    /\ \A j \in DOMAIN order[p] : WrittenBefore(p, j, i) => j \in put[p]

\* ObjectDb::put of an object that got a record meanwhile is a no-op.
PutExisting(p) ==
    /\ pc[p] = "write"
    /\ \E i \in DOMAIN order[p] :
        /\ NextPut(p, i)
        /\ order[p][i] \in visObjs
        /\ put' = [put EXCEPT ![p] = @ \cup {i}]
    /\ UNCHANGED <<store, pc, walk, cur, owed, txn>>

\* (Mutant of PutAbsent: the pointer record does not wait for the body.)
PutAbsentNoUpload(p) ==
    /\ pc[p] = "write"
    /\ \E i \in DOMAIN order[p] :
        /\ NextPut(p, i)
        /\ order[p][i] \notin visObjs
        /\ cur' = [cur EXCEPT ![p] = i]
        /\ Goto(p, "record")
    /\ UNCHANGED <<store, walk, put, owed, txn>>

\* ObjectDb::put found no record: upload the body first if it is offloaded.
PutAbsent(p) ==
    /\ pc[p] = "write"
    /\ \E i \in DOMAIN order[p] :
        /\ NextPut(p, i)
        /\ order[p][i] \notin visObjs
        /\ cur' = [cur EXCEPT ![p] = i]
        /\ Goto(p, IF order[p][i] \in Offloaded THEN "upload" ELSE "record")
    /\ UNCHANGED <<store, walk, put, owed, txn>>

\* BlobStore::put, awaited before the pointer record is written.
UploadBlob(p) ==
    /\ pc[p] = "upload"
    /\ blobs' = blobs \cup {order[p][cur[p]]}
    /\ Goto(p, "record")
    /\ UNCHANGED <<durObjs, durRefs, queue, visObjs, visRefs, landed, crashes,
                   walk, promote, owed, txn>>

\* Store::put_object with Durability::Relaxed.
PutRecord(p) ==
    LET o == order[p][cur[p]] IN
    /\ pc[p] = "record"
    /\ queue' = Append(queue, ObjectWrite(o))
    /\ visObjs' = visObjs \cup {o}
    /\ put' = [put EXCEPT ![p] = @ \cup {cur[p]}]
    /\ cur' = [cur EXCEPT ![p] = 0]
    /\ Goto(p, "write")
    /\ UNCHANGED <<durObjs, durRefs, visRefs, blobs, landed, crashes,
                   walk, owed, txn>>

\* (Mutant of PutsDone: the tags are left out.)
PutsDoneBeforeTags(p) ==
    /\ pc[p] = "write"
    /\ \A i \in DOMAIN order[p] : i \in put[p] \/ Kind[order[p][i]] = "tag"
    /\ Goto(p, "graph")
    /\ order' = [order EXCEPT ![p] = <<>>]
    /\ put' = [put EXCEPT ![p] = {}]
    /\ UNCHANGED <<store, path, at, done, cur, owed, txn>>

PutsDone(p) ==
    /\ pc[p] = "write"
    /\ put[p] = DOMAIN order[p]
    /\ Goto(p, "graph")
    /\ order' = [order EXCEPT ![p] = <<>>]
    /\ put' = [put EXCEPT ![p] = {}]
    /\ UNCHANGED <<store, path, at, done, cur, owed, txn>>

\* (Mutant of StartFlush: the barrier waits for one write too many.)
StartFlushOneMore(p) ==
    /\ pc[p] = "graph"
    /\ Goto(p, "barrier")
    /\ owed' = [owed EXCEPT ![p] = Len(queue) + 1]
    /\ UNCHANGED <<store, walk, promote, txn>>

\* Phase 3 writes only commit-graph records, which nothing here reads (module
\* CommitGraph models it); then Store::flush waits for everything submitted.
StartFlush(p) ==
    /\ pc[p] = "graph"
    /\ Goto(p, "barrier")
    /\ owed' = [owed EXCEPT ![p] = Len(queue)]
    /\ UNCHANGED <<store, walk, promote, txn>>

Flushed(p) ==
    /\ pc[p] = "barrier"
    /\ owed[p] = 0
    /\ Goto(p, "begin")
    /\ UNCHANGED <<store, walk, promote, owed, txn>>

-----------------------------------------------------------------------------
(* Store::update_refs *)

BeginTxn(p) ==
    /\ pc[p] = "begin"
    /\ Goto(p, "apply")
    /\ view' = [view EXCEPT ![p] = visRefs]
    /\ wrote' = [wrote EXCEPT ![p] = {}]
    /\ stale' = [stale EXCEPT ![p] = {}]
    /\ results' = [results EXCEPT ![p] = <<>>]
    /\ UNCHANGED <<store, walk, promote, owed, attempt>>

NextCommand(p) == Commands[p][Len(results[p]) + 1]

\* (Mutant of Outcome: the ref is read outside the transaction.)
OutcomeOutside(p, cmd) ==
    IF cmd.ref \in Symbolic THEN "symbolic"
    ELSE IF visRefs[cmd.ref] # cmd.old THEN "non-fast-forward"
    ELSE "ok"

\* The command's outcome against the transaction's own view.
Outcome(p, cmd) ==
    IF cmd.ref \in Symbolic THEN "symbolic"
    ELSE IF view[p][cmd.ref] # cmd.old THEN "non-fast-forward"
    ELSE "ok"

ApplyCommand(p) ==
    /\ pc[p] = "apply"
    /\ Len(results[p]) < Len(Commands[p])
    /\ LET cmd == NextCommand(p)
           out == Outcome(p, cmd)
       IN  /\ results' = [results EXCEPT ![p] = Append(@, out)]
           /\ IF out = "ok"
              THEN /\ view' = [view EXCEPT ![p] = [@ EXCEPT ![cmd.ref] = cmd.new]]
                   /\ wrote' = [wrote EXCEPT ![p] = @ \cup {cmd.ref}]
              ELSE UNCHANGED <<view, wrote>>
    /\ UNCHANGED <<store, pc, walk, promote, owed, attempt, stale>>

\* (Mutant of Conflicting: no conflict is detected.)
ConflictingNever(p) == FALSE

\* SlateDB may or may not look for read conflicts of a transaction that
\* writes nothing: both are allowed.
Conflicting(p) == stale[p] \cap CommandRefs(p) # {}
MayCommit(p)   == ~ Conflicting(p) \/ wrote[p] = {}

\* The commit is accepted: visible at once, and awaited until durable.
Commit(p) ==
    /\ pc[p] = "apply"
    /\ Len(results[p]) = Len(Commands[p])
    /\ MayCommit(p)
    /\ Goto(p, "await")
    /\ IF wrote[p] = {}
       THEN /\ owed' = [owed EXCEPT ![p] = 0]
            /\ UNCHANGED <<queue, visRefs, stale>>
       ELSE LET e == RefWrite(p, view[p], wrote[p]) IN
            /\ queue' = Append(queue, e)
            /\ visRefs' = Overlay(visRefs, e)
            /\ owed' = [owed EXCEPT ![p] = Len(queue) + 1]
            /\ stale' = [q \in Pushes |-> IF q # p /\ pc[q] = "apply"
                                          THEN stale[q] \cup wrote[p]
                                          ELSE stale[q]]
    /\ UNCHANGED <<durObjs, durRefs, visObjs, blobs, landed, crashes, walk,
                   promote, attempt, view, wrote, results>>

\* The commit conflicts: try again from a new snapshot.
Retry(p) ==
    /\ pc[p] = "apply"
    /\ Len(results[p]) = Len(Commands[p])
    /\ Conflicting(p)
    /\ attempt[p] + 1 < UpdateRefsAttempts
    /\ attempt' = [attempt EXCEPT ![p] = @ + 1]
    /\ Goto(p, "begin")
    /\ UNCHANGED <<store, walk, promote, owed, view, wrote, stale, results>>

\* The commit conflicts and the budget is spent: every command is rejected.
GiveUp(p) ==
    /\ pc[p] = "apply"
    /\ Len(results[p]) = Len(Commands[p])
    /\ Conflicting(p)
    /\ attempt[p] + 1 >= UpdateRefsAttempts
    /\ results' = [results EXCEPT ![p] = [i \in DOMAIN Commands[p] |-> "conflict"]]
    /\ Goto(p, "done")
    /\ Drop({p})
    /\ UNCHANGED store

\* (Mutant of Report: the commit's durability is not awaited.)
ReportEarly(p) ==
    /\ pc[p] = "await"
    /\ Goto(p, "done")
    /\ Drop({p})
    /\ UNCHANGED <<store, results>>

\* The transaction is durable: report each command's outcome.
Report(p) ==
    /\ pc[p] = "await"
    /\ owed[p] = 0
    /\ Goto(p, "done")
    /\ Drop({p})
    /\ UNCHANGED <<store, results>>

-----------------------------------------------------------------------------
(* Failures *)

\* A store, blob store, staging or commit-graph error, or a client that hangs
\* up: the request ends at its current await.  What it submitted stays.
Fail(p) ==
    /\ pc[p] \in Running
    /\ Goto(p, "failed")
    /\ Drop({p})
    /\ UNCHANGED <<store, results>>

\* The WAL flush task persists the oldest unflushed write.
WalFlush ==
    /\ queue # <<>>
    /\ LET e == Head(queue) IN
       IF e.type = "object"
       THEN /\ durObjs' = durObjs \cup {e.oid}
            /\ UNCHANGED <<durRefs, landed>>
       ELSE /\ durRefs' = Overlay(durRefs, e)
            /\ landed' = landed \cup {e.by}
            /\ UNCHANGED durObjs
    /\ queue' = Tail(queue)
    /\ owed' = [p \in Pushes |-> IF owed[p] > 0 THEN owed[p] - 1 ELSE 0]
    /\ UNCHANGED <<visObjs, visRefs, blobs, crashes, pc, walk, promote, txn>>

\* The process dies and restarts on what was durable; every request in
\* flight is lost, and the staging root is wiped.
Crash ==
    /\ crashes < MaxCrashes
    /\ crashes' = crashes + 1
    /\ visObjs' = durObjs
    /\ visRefs' = durRefs
    /\ queue' = <<>>
    /\ pc' = [p \in Pushes |-> IF pc[p] \in Running THEN "failed" ELSE pc[p]]
    /\ Drop({p \in Pushes : pc[p] \in Running})
    /\ UNCHANGED <<durObjs, durRefs, blobs, landed, results>>

-----------------------------------------------------------------------------
Validate(p) == Settled(p) \/ Descend(p) \/ Disconnected(p) \/ Emit(p) \/ Validated(p)
Promote(p)  == PutExisting(p) \/ PutAbsent(p) \/ UploadBlob(p) \/ PutRecord(p)
                 \/ PutsDone(p) \/ StartFlush(p) \/ Flushed(p)
UpdateRefs(p) == BeginTxn(p) \/ ApplyCommand(p) \/ Commit(p) \/ Retry(p)
                   \/ GiveUp(p) \/ Report(p)

ReceivePack(p) == Ingest(p) \/ IngestRejected(p) \/ Validate(p) \/ Promote(p) \/ UpdateRefs(p)

Next ==
    \/ \E p \in Pushes : ReceivePack(p) \/ Fail(p)
    \/ WalFlush
    \/ Crash

Spec == Init /\ [][Next]_vars

\* Every handler is polled until it answers, and the flush task runs.  A
\* request need not arrive, and nothing need fail.
FairSpec ==
    /\ Spec
    /\ WF_vars(WalFlush)
    /\ \A p \in Pushes : WF_vars(Validate(p) \/ Promote(p) \/ UpdateRefs(p))

-----------------------------------------------------------------------------
StoreType ==
    /\ durObjs \subseteq Objects
    /\ visObjs \subseteq Objects
    /\ durRefs \in [Refs -> Oid]
    /\ visRefs \in [Refs -> Oid]
    /\ queue \in Seq(ObjectWrites \cup RefWrites)
    /\ blobs \subseteq Objects
    /\ landed \subseteq Pushes
    /\ crashes \in Nat

\* While it traverses, the root is at the bottom and only objects are above.
WalkType(p) ==
    /\ path[p] \in Seq(Oid)
    /\ at[p] \in Seq(Nat)
    /\ Len(at[p]) = Len(path[p])
    /\ pc[p] = "validate" => Len(path[p]) >= 1
    /\ \A k \in 2..Len(path[p]) : path[p][k] \in Objects
    /\ done[p] \subseteq Oid
    /\ order[p] \in Seq(Objects)

PromoteType(p) ==
    /\ put[p] \subseteq DOMAIN order[p]
    /\ cur[p] \in Nat
    /\ pc[p] \in {"upload", "record"} => cur[p] \in DOMAIN order[p]
    /\ owed[p] \in Nat

TxnType(p) ==
    /\ attempt[p] \in Nat
    /\ view[p] \in [Refs -> Oid]
    /\ wrote[p] \subseteq Refs
    /\ stale[p] \subseteq Refs
    /\ results[p] \in Seq(Outcomes)

\* Each request variable is a function on Pushes.
PerPush ==
    /\ pc \in [Pushes -> Running \cup Ended \cup {"idle"}]
    /\ path = [p \in Pushes |-> path[p]]
    /\ at = [p \in Pushes |-> at[p]]
    /\ done = [p \in Pushes |-> done[p]]
    /\ order = [p \in Pushes |-> order[p]]
    /\ put = [p \in Pushes |-> put[p]]
    /\ cur = [p \in Pushes |-> cur[p]]
    /\ owed = [p \in Pushes |-> owed[p]]
    /\ attempt = [p \in Pushes |-> attempt[p]]
    /\ view = [p \in Pushes |-> view[p]]
    /\ wrote = [p \in Pushes |-> wrote[p]]
    /\ stale = [p \in Pushes |-> stale[p]]
    /\ results = [p \in Pushes |-> results[p]]

TypeOK ==
    /\ StoreType
    /\ PerPush
    /\ \A p \in Pushes : WalkType(p) /\ PromoteType(p) /\ TxnType(p)

\* The objects recovery finds if the first n unflushed writes reach the disk.
Recovered(objs, q, n) ==
    objs \cup {o \in Objects : \E i \in 1..n : q[i] = ObjectWrite(o)}

RecoveredObjs(n) == Recovered(durObjs, queue, n)

Closed(S) == \A o \in S : Kids(o) \subseteq S

\* promote.rs: "committed storage only ever holds objects whose full closure
\* is already present, even if the server dies mid-promotion": whatever prefix
\* of the submitted writes survives, every object found has its children.
EveryPrefixClosed == \A n \in 0..Len(queue) : Closed(RecoveredObjs(n))

\* promote.rs: "a recovered state that contains a ref necessarily contains
\* that ref's entire closure": a ref target becomes durable only after the
\* object itself, which EveryPrefixClosed completes.
EveryPrefixResolves ==
    /\ \A r \in Refs : durRefs[r] \in durObjs \cup {None}
    /\ \A n \in 1..Len(queue) :
          queue[n].type = "refs" =>
             \A r \in queue[n].names :
                queue[n].target[r] \in RecoveredObjs(n - 1) \cup {None}

\* What a fetch reads right now: refs resolve, and nothing below is missing.
VisibleComplete ==
    /\ Closed(visObjs)
    /\ \A r \in Refs : visRefs[r] \in visObjs \cup {None}

\* ObjectDb::put: the body of an offloaded blob is uploaded before any reader,
\* before or after a crash, can find its pointer record.
PointersBacked == (visObjs \cup durObjs) \cap Offloaded \subseteq blobs

\* A push that reported `ok` for some command cannot be undone by a crash.
ReportedIsDurable ==
    \A p \in Pushes :
        /\ pc[p] = "done"
        /\ \E i \in DOMAIN results[p] : results[p][i] = "ok"
        => p \in landed

\* The first command of p on ref r that the transaction accepted.
FirstAccepted(p, r) ==
    {i \in DOMAIN Commands[p] :
        /\ Commands[p][i].ref = r
        /\ results[p][i] = "ok"
        /\ \A j \in 1..(i - 1) :
              Commands[p][j].ref # r \/ results[p][j] # "ok"}

\* No lost update: a ref moves only in the commit of a push that accepted a
\* command on it whose expected old value is what the ref held, or in a crash.
RefsMoveByCas ==
    [][ \A r \in Refs : visRefs'[r] # visRefs[r] =>
           \/ crashes' = crashes + 1
           \/ \E p \in Pushes :
                 /\ pc[p] = "apply" /\ pc'[p] = "await"
                 /\ \E i \in FirstAccepted(p, r) : Commands[p][i].old = visRefs[r]
      ]_vars

\* A push whose pack carries the whole closure of its tips is never rejected.
SelfContained(p) ==
    /\ ThinBases[p] = {}
    /\ Closed(Pack[p])
    /\ \A i \in DOMAIN Commands[p] : Commands[p][i].new \in Pack[p] \cup {None}

SelfContainedAccepted ==
    \A p \in Pushes : SelfContained(p) => pc[p] # "rejected"

\* Recovery, whenever it happens, sees the outcome of whole pushes applied one
\* after the other, each against the refs its predecessors left (update_refs is
\* serializable and durable in commit order), over a closed object set.
Durable == INSTANCE Repository WITH objs <- durObjs, refs <- durRefs

DurableHistory == Durable!Spec

\* Every request that started is answered.
EveryPushEnds ==
    \A p \in Pushes : pc[p] \in Running ~> pc[p] \in Ended
=============================================================================
