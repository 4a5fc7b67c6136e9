------------------------------- MODULE Registry -------------------------------
(***************************************************************************)
(* The repository registry: names are mapped to numeric ids inside one     *)
(* serializable transaction, and everything a repository holds is keyed by *)
(* its id.  A request resolves its name (lookup_repo, then create_repo if  *)
(* auto-create is on) and then writes under the id it got.                 *)
(*                                                                         *)
(* Lookups read what is committed, durable or not, while the creator still *)
(* waits for durability; a crash may take back a mapping, and with it the  *)
(* id counter, so that the id is handed out again, to any name.            *)
(***************************************************************************)
EXTENDS Integers, Sequences, FiniteSets

CONSTANTS
    Names,            \* repository names
    Requests,
    NameOf,           \* the repository each request is about
    AutoCreate,       \* the auto_create_repos setting
    MaxId,            \* u64::MAX
    CreateAttempts,   \* CREATE_ATTEMPTS
    MaxCrashes        \* bound on server crashes

FirstRepoId == 1

Ids == FirstRepoId..MaxId

\* No repository: RepoId::GLOBAL, which is never handed out.
NoRepo == 0

ASSUME RegistryAssumption ==
    /\ NameOf \in [Requests -> Names]
    /\ AutoCreate \in BOOLEAN
    /\ MaxId \in Nat /\ MaxId >= FirstRepoId
    /\ CreateAttempts \in Nat \ {0}
    /\ MaxCrashes \in Nat
    /\ IsFiniteSet(Names) /\ Cardinality(Names) < MaxId

VARIABLES
    durMap, durNext,            \* what recovery would find of the registry
    durData,                    \* <<id, name>>: written under id on behalf of name
    map,                        \* repo:<name> -> id, as read
    next,                       \* next_repo_id, as read
    queue,                      \* writes not yet durable, in order
    pc,
    snapshot,                   \* create_repo: the registry its transaction reads
    stale,                      \* create_repo: a creation committed since
    attempts,                   \* create_repo: conflicts met
    id,                         \* the id the request resolved
    owed,                       \* queue entries its commit waits for
    created,                    \* requests whose creation committed
    crashes

disk     == <<durMap, durNext, durData, crashes>>
registry == <<map, next>>
request  == <<snapshot, stale, attempts, id, owed>>
vars     == <<disk, registry, queue, pc, request, created>>

MapWrite(n, i)  == [type |-> "repo", name |-> n, id |-> i]
DataWrite(i, n) == [type |-> "data", name |-> n, id |-> i]

Running == {"lookup", "begin", "read", "commit", "await", "use"}
Ended   == {"done", "not_found", "contention", "failed"}

NoMap == [n \in Names |-> NoRepo]
NoSnapshot == [map |-> NoMap, next |-> FirstRepoId]

\* (Mutant of SaturatingNext: the counter is not advanced.)
SaturatingNextStuck(i) == i

\* saturating_add(1)
SaturatingNext(i) == IF i < MaxId THEN i + 1 ELSE MaxId

Init ==
    /\ durMap = NoMap /\ map = NoMap
    /\ durNext = FirstRepoId /\ next = FirstRepoId
    /\ durData = {}
    /\ queue = <<>>
    /\ pc = [r \in Requests |-> "idle"]
    /\ snapshot = [r \in Requests |-> NoSnapshot]
    /\ stale = [r \in Requests |-> FALSE]
    /\ attempts = [r \in Requests |-> 0]
    /\ id = [r \in Requests |-> NoRepo]
    /\ owed = [r \in Requests |-> 0]
    /\ created = {}
    /\ crashes = 0

Goto(r, l) == pc' = [pc EXCEPT ![r] = l]

\* The request is answered or dropped: its locals are gone.
Leave(R, l) ==
    /\ pc' = [r \in Requests |-> IF r \in R THEN l ELSE pc[r]]
    /\ snapshot' = [r \in Requests |-> IF r \in R THEN NoSnapshot ELSE snapshot[r]]
    /\ stale' = [r \in Requests |-> r \notin R /\ stale[r]]
    /\ attempts' = [r \in Requests |-> IF r \in R THEN 0 ELSE attempts[r]]
    /\ id' = [r \in Requests |-> IF r \in R THEN NoRepo ELSE id[r]]
    /\ owed' = [r \in Requests |-> IF r \in R THEN 0 ELSE owed[r]]

Name(r) == NameOf[r]

-----------------------------------------------------------------------------
(* resolve_repo: get_or_create_repo, or lookup_repo alone *)

Arrive(r) ==
    /\ pc[r] = "idle"
    /\ Goto(r, "lookup")
    /\ UNCHANGED <<disk, registry, queue, request, created>>

\* (Mutant of LookupFound: the id is not kept.)
LookupFoundDropsId(r) ==
    /\ pc[r] = "lookup"
    /\ map[Name(r)] # NoRepo
    /\ Goto(r, "use")
    /\ UNCHANGED <<disk, registry, queue, request, created>>

\* lookup_repo reads outside any transaction.
LookupFound(r) ==
    /\ pc[r] = "lookup"
    /\ map[Name(r)] # NoRepo
    /\ id' = [id EXCEPT ![r] = map[Name(r)]]
    /\ Goto(r, "use")
    /\ UNCHANGED <<disk, registry, queue, snapshot, stale, attempts, owed, created>>

LookupNone(r) ==
    /\ pc[r] = "lookup"
    /\ map[Name(r)] = NoRepo
    /\ Goto(r, IF AutoCreate THEN "begin" ELSE "not_found")
    /\ UNCHANGED <<disk, registry, queue, request, created>>

(* create_repo *)

\* (Mutant of BeginTxn: a conflict is remembered across attempts.)
BeginTxnKeepsStale(r) ==
    /\ pc[r] = "begin"
    /\ snapshot' = [snapshot EXCEPT ![r] = [map |-> map, next |-> next]]
    /\ Goto(r, "read")
    /\ UNCHANGED <<disk, registry, queue, stale, attempts, id, owed, created>>

BeginTxn(r) ==
    /\ pc[r] = "begin"
    /\ snapshot' = [snapshot EXCEPT ![r] = [map |-> map, next |-> next]]
    /\ stale' = [stale EXCEPT ![r] = FALSE]
    /\ Goto(r, "read")
    /\ UNCHANGED <<disk, registry, queue, attempts, id, owed, created>>

\* (Mutant of AlreadyCreated: it returns the last id handed out.)
AlreadyCreatedLast(r) ==
    /\ pc[r] = "read"
    /\ snapshot[r].map[Name(r)] # NoRepo
    /\ id' = [id EXCEPT ![r] = snapshot[r].next - 1]
    /\ Goto(r, "use")
    /\ UNCHANGED <<disk, registry, queue, snapshot, stale, attempts, owed, created>>

\* A race winner's mapping: roll back and return it.
AlreadyCreated(r) ==
    /\ pc[r] = "read"
    /\ snapshot[r].map[Name(r)] # NoRepo
    /\ id' = [id EXCEPT ![r] = snapshot[r].map[Name(r)]]
    /\ Goto(r, "use")
    /\ UNCHANGED <<disk, registry, queue, snapshot, stale, attempts, owed, created>>

\* Allocate the next id of the snapshot and write the whole repository.
Allocate(r) ==
    /\ pc[r] = "read"
    /\ snapshot[r].map[Name(r)] = NoRepo
    /\ id' = [id EXCEPT ![r] = snapshot[r].next]
    /\ Goto(r, "commit")
    /\ UNCHANGED <<disk, registry, queue, snapshot, stale, attempts, owed, created>>

\* (Mutant of Conflicting: snapshot isolation without conflict detection.)
ConflictingNever(r) == FALSE

\* Every creation reads and writes the id counter, so the commit conflicts
\* with any creation that committed since the snapshot.
Conflicting(r) == stale[r]

CommitCreate(r) ==
    /\ pc[r] = "commit"
    /\ ~ Conflicting(r)
    /\ map' = [map EXCEPT ![Name(r)] = id[r]]
    /\ next' = SaturatingNext(id[r])
    /\ queue' = Append(queue, MapWrite(Name(r), id[r]))
    /\ owed' = [owed EXCEPT ![r] = Len(queue) + 1]
    /\ stale' = [q \in Requests |-> stale[q] \/ (q # r /\ pc[q] \in {"read", "commit"})]
    /\ created' = created \cup {r}
    /\ Goto(r, "await")
    /\ UNCHANGED <<disk, snapshot, attempts, id>>

CreateConflict(r) ==
    /\ pc[r] = "commit"
    /\ Conflicting(r)
    /\ IF attempts[r] + 1 < CreateAttempts
       THEN /\ Goto(r, "begin")
            /\ attempts' = [attempts EXCEPT ![r] = @ + 1]
            /\ id' = [id EXCEPT ![r] = NoRepo]
            /\ UNCHANGED <<snapshot, stale, owed>>
       ELSE Leave({r}, "contention")
    /\ UNCHANGED <<disk, registry, queue, created>>

\* The creation is durable.
Created(r) ==
    /\ pc[r] = "await"
    /\ owed[r] = 0
    /\ Goto(r, "use")
    /\ UNCHANGED <<disk, registry, queue, request, created>>

-----------------------------------------------------------------------------
\* The request stores something under the id, with relaxed durability.
Use(r) ==
    /\ pc[r] = "use"
    /\ queue' = Append(queue, DataWrite(id[r], Name(r)))
    /\ Leave({r}, "done")
    /\ UNCHANGED <<disk, registry, created>>

Fail(r) ==
    /\ pc[r] \in Running
    /\ Leave({r}, "failed")
    /\ UNCHANGED <<disk, registry, queue, created>>

\* A creation's writes are one atomic batch: mapping and counter together.
WalFlush ==
    /\ queue # <<>>
    /\ LET e == Head(queue) IN
       IF e.type = "repo"
       THEN /\ durMap' = [durMap EXCEPT ![e.name] = e.id]
            /\ durNext' = SaturatingNext(e.id)
            /\ UNCHANGED durData
       ELSE /\ durData' = durData \cup {<<e.id, e.name>>}
            /\ UNCHANGED <<durMap, durNext>>
    /\ queue' = Tail(queue)
    /\ owed' = [r \in Requests |-> IF owed[r] > 0 THEN owed[r] - 1 ELSE 0]
    /\ UNCHANGED <<registry, pc, snapshot, stale, attempts, id, created, crashes>>

Crash ==
    /\ crashes < MaxCrashes
    /\ crashes' = crashes + 1
    /\ map' = durMap /\ next' = durNext
    /\ queue' = <<>>
    /\ Leave({r \in Requests : pc[r] \in Running}, "failed")
    /\ UNCHANGED <<durMap, durNext, durData, created>>

Resolve(r) ==
    \/ LookupFound(r) \/ LookupNone(r) \/ BeginTxn(r) \/ AlreadyCreated(r)
    \/ Allocate(r) \/ CommitCreate(r) \/ CreateConflict(r) \/ Created(r)

Next ==
    \/ \E r \in Requests : Arrive(r) \/ Resolve(r) \/ Use(r) \/ Fail(r)
    \/ WalFlush
    \/ Crash

Spec == Init /\ [][Next]_vars

-----------------------------------------------------------------------------
RegistryTypeOK ==
    /\ durMap \in [Names -> Ids \cup {NoRepo}] /\ map \in [Names -> Ids \cup {NoRepo}]
    /\ durNext \in Ids /\ next \in Ids
    /\ durData \subseteq Ids \X Names
    /\ queue \in Seq([type : {"repo", "data"}, name : Names, id : Ids])
    /\ pc \in [Requests -> Running \cup Ended \cup {"idle"}]
    /\ snapshot \in [Requests -> [map : [Names -> Ids \cup {NoRepo}], next : Ids]]
    /\ stale \in [Requests -> BOOLEAN]
    /\ attempts \in [Requests -> Nat]
    /\ id \in [Requests -> Ids \cup {NoRepo}]
    /\ owed \in [Requests -> Nat]
    /\ created \subseteq Requests /\ crashes \in Nat

\* store.rs: "the loser of a race observes and returns the winner's repository
\* rather than allocating a second id", and no two repositories share one.
OneIdPerName ==
    \A m, n \in Names : map[m] # NoRepo /\ map[m] = map[n] => m = n

\* What a request holds and goes on to write under is its own repository.
ResolvedIsMapped ==
    \A r \in Requests : pc[r] \in {"await", "use"} => map[Name(r)] = id[r]

\* Everything found under an id, now or after any crash, was written for the
\* name that id belongs to: an id that a crash took back holds nothing.
MapAt(n) ==
    [m \in Names |->
        LET I == {i \in 1..n : queue[i].type = "repo" /\ queue[i].name = m}
        IN  IF I = {} THEN durMap[m] ELSE queue[CHOOSE i \in I : \A j \in I : j <= i].id]

DataAt(n) ==
    durData \cup {<<queue[i].id, queue[i].name>> : i \in {j \in 1..n : queue[j].type = "data"}}

DataHasOwner ==
    \A n \in 0..Len(queue) : \A d \in DataAt(n) : MapAt(n)[d[2]] = d[1]

\* store.rs: "contention is bounded by the number of concurrent creators; the
\* cap only guards against pathological livelock": a request gives up only
\* after as many other requests created a repository.
ContentionNeedsCreators ==
    \A r \in Requests :
        pc[r] = "contention" => Cardinality(created \ {r}) >= CreateAttempts
=============================================================================
