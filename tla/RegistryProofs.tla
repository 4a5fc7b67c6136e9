--------------------------- MODULE RegistryProofs ---------------------------
(***************************************************************************)
(* For any number of names and requests and any number of crashes: ids are *)
(* handed out without a gap and never twice, what a request writes goes    *)
(* under the id of its own name, and a creator gives up only when as many  *)
(* others succeeded.                                                       *)
(***************************************************************************)
EXTENDS Registry, FiniteSetTheorems, FunctionTheorems, SequenceTheorems, TLAPS

\* The mapping of name m to id i is among what the first n queued writes
\* leave on disk.
Known(n, m, i) ==
    \/ durMap[m] = i
    \/ \E j \in 1..n : queue[j].type = "repo" /\ queue[j].name = m /\ queue[j].id = i

\* The ids below k are those in use after the first n queued writes.
FilledAt(n, k) == \A i \in Ids : i < k <=> \E m \in Names : Known(n, m, i)

\* Ids are handed out without a gap, on disk, in every queued creation and in
\* what is read, and a queued creation is the first of its name.
LogInv ==
    /\ FilledAt(0, durNext)
    /\ FilledAt(Len(queue), next)
    /\ \A j \in 1..Len(queue) : queue[j].type = "repo" =>
          FilledAt(j - 1, queue[j].id) /\ \A i \in Ids : ~Known(j - 1, queue[j].name, i)
    /\ \A m \in Names, i \in Ids : map[m] = i <=> Known(Len(queue), m, i)

\* No id has two names, on disk or as read.
NoSharedId ==
    /\ \A m, n \in Names : durMap[m] # NoRepo /\ durMap[m] = durMap[n] => m = n
    /\ OneIdPerName

\* What is written under an id is preceded by its mapping to the same name.
DataFollowsMap ==
    /\ \A d \in durData : durMap[d[2]] = d[1]
    /\ \A j \in 1..Len(queue) : queue[j].type = "data" => Known(j - 1, queue[j].name, queue[j].id)

\* A transaction without a conflict still sees the current registry, and one
\* with a conflict no mapping that is not current.
SnapshotFresh ==
    \A r \in Requests : pc[r] \in {"read", "commit"} =>
        /\ \A n \in Names : snapshot[r].map[n] # NoRepo => map[n] = snapshot[r].map[n]
        /\ ~stale[r] => snapshot[r] = [map |-> map, next |-> next]
        /\ pc[r] = "commit" => id[r] = snapshot[r].next /\ snapshot[r].map[Name(r)] = NoRepo

Resolved == \A r \in Requests : pc[r] \in {"await", "use"} => id[r] # NoRepo /\ map[Name(r)] = id[r]

\* Every conflict a request met is the creation of another request.
ConflictsCounted ==
    /\ IsFiniteSet(created)
    /\ \A r \in created : pc[r] \in {"await", "use"} \cup Ended
    /\ \A r \in Requests :
          /\ attempts[r] <= Cardinality(created \ {r})
          /\ pc[r] \in {"read", "commit"} /\ stale[r] => attempts[r] + 1 <= Cardinality(created \ {r})
          /\ pc[r] = "contention" => CreateAttempts <= Cardinality(created \ {r})

RegInv ==
    /\ RegistryTypeOK /\ LogInv /\ NoSharedId /\ DataFollowsMap
    /\ SnapshotFresh /\ Resolved /\ ConflictsCounted

logVars == <<durMap, durNext, durData, map, next, queue>>

-----------------------------------------------------------------------------
\* FirstRepoId..MaxId: every id is a positive number.
LEMMA IdFacts ==
    /\ MaxId \in Nat /\ 1 <= MaxId /\ Ids = 1..MaxId /\ 0 \notin Ids /\ Ids \subseteq Nat
    /\ \A r \in Requests : Name(r) \in Names
  BY RegistryAssumption DEF Ids, FirstRepoId, Name

\* Two bounds that leave the same ids below them are the same.
LEMMA SameBound ==
    ASSUME NEW a \in Ids, NEW b \in Ids, \A i \in Ids : i < a <=> i < b
    PROVE  a = b
  BY IdFacts

\* While a name has no id, an id is left: saturating_add does not saturate.
LEMMA IdLeft ==
    ASSUME RegInv, NEW n \in Names, map[n] = NoRepo
    PROVE  next < MaxId
<1> SUFFICES ASSUME ~(next < MaxId) PROVE FALSE
  OBVIOUS
<1>1. next = MaxId /\ MaxId \in Nat /\ map \in [Names -> Ids \cup {NoRepo}]
  BY IdFacts DEF RegInv, RegistryTypeOK
<1>2. \A i \in 1..(MaxId - 1) : \E m \in Names : map[m] = i
  <2> SUFFICES ASSUME NEW i \in 1..(MaxId - 1) PROVE \E m \in Names : map[m] = i
    OBVIOUS
  <2>1. i \in Ids /\ i < next
    BY <1>1, IdFacts
  <2> QED BY <2>1 DEF RegInv, LogInv, FilledAt
<1> DEFINE f == [i \in 1..(MaxId - 1) |-> CHOOSE m \in Names : map[m] = i]
           S == Names \ {n}
<1>3. \A i \in 1..(MaxId - 1) : f[i] \in Names /\ map[f[i]] = i
  BY <1>2
<1>4. f \in Injection(1..(MaxId - 1), S)
  <2>1. \A i \in 1..(MaxId - 1) : f[i] \in S
    BY <1>1, <1>3 DEF NoRepo
  <2>2. \A i, j \in 1..(MaxId - 1) : f[i] = f[j] => i = j
    BY <1>3
  <2>3. f \in [1..(MaxId - 1) -> S]
    BY <2>1
  <2> QED BY <2>2, <2>3 DEF Injection, IsInjective
<1>5. IsFiniteSet(Names) /\ Cardinality(Names) \in Nat /\ Cardinality(Names) < MaxId
  BY RegistryAssumption, FS_CardinalityType
<1>6. IsFiniteSet(S) /\ Cardinality(S) = Cardinality(Names) - 1
  BY <1>5, FS_RemoveElement
<1>7. Cardinality(1..(MaxId - 1)) = MaxId - 1
  BY <1>1, IdFacts, FS_Interval
<1>8. Cardinality(1..(MaxId - 1)) <= Cardinality(S)
  BY <1>4, <1>6, FS_Injection
<1> QED BY <1>1, <1>5, <1>6, <1>7, <1>8

Writes == [type : {"repo", "data"}, name : Names, id : Ids]

LEMMA QueueType ==
    ASSUME RegInv
    PROVE  /\ queue \in Seq(Writes) /\ Len(queue) \in Nat
           /\ \A j \in 1..Len(queue) :
                 queue[j] \in Writes /\ queue[j].name \in Names /\ queue[j].id \in Ids
<1>1. queue \in Seq(Writes)
  BY DEF RegInv, RegistryTypeOK, Writes
<1>2. \A j \in 1..Len(queue) : queue[j] \in Writes
  BY <1>1
<1> QED BY <1>1, <1>2 DEF Writes

\* A queued creation's id is below the counter: its successor is an id too.
LEMMA QueuedBelowNext ==
    ASSUME RegInv, NEW j \in 1..Len(queue), queue[j].type = "repo"
    PROVE  queue[j].id \in Ids /\ queue[j].id < next /\ SaturatingNext(queue[j].id) = queue[j].id + 1
<1>1. queue[j].id \in Ids /\ queue[j].name \in Names /\ next \in Ids /\ Len(queue) \in Nat
  BY QueueType DEF RegInv, RegistryTypeOK
<1>2. Known(Len(queue), queue[j].name, queue[j].id)
  BY DEF Known
<1>3. queue[j].id < next
  BY <1>1, <1>2 DEF RegInv, LogInv, FilledAt
<1> QED BY <1>1, <1>3, IdFacts DEF SaturatingNext

-----------------------------------------------------------------------------
(* The log: what is read, what is queued and what is durable *)

LEMMA LogKept ==
    ASSUME RegInv, UNCHANGED logVars
    PROVE  LogInv' /\ NoSharedId' /\ DataFollowsMap'
<1>1. /\ durMap' = durMap /\ durNext' = durNext /\ durData' = durData
      /\ map' = map /\ next' = next /\ queue' = queue
  BY DEF logVars
<1> QED BY <1>1 DEF RegInv, LogInv, NoSharedId, DataFollowsMap, OneIdPerName, FilledAt, Known

\* Appending a write leaves what the earlier ones leave on disk.
LEMMA KnownAppend ==
    ASSUME RegInv, NEW e \in Writes,
           queue' = Append(queue, e), durMap' = durMap
    PROVE  /\ Len(queue') = Len(queue) + 1 /\ Len(queue) \in Nat
           /\ \A j \in 1..Len(queue) : queue'[j] = queue[j]
           /\ queue'[Len(queue) + 1] = e
           /\ \A n \in 0..Len(queue) : \A m \in Names, i \in Ids : Known(n, m, i)' <=> Known(n, m, i)
           /\ \A m \in Names, i \in Ids : Known(Len(queue), m, i)' <=>
                  Known(Len(queue), m, i) \/ (e.type = "repo" /\ e.name = m /\ e.id = i)
<1>1. /\ Len(queue') = Len(queue) + 1 /\ Len(queue) \in Nat
      /\ \A j \in 1..Len(queue) : queue'[j] = queue[j]
      /\ queue'[Len(queue) + 1] = e
  BY QueueType
<1>2. \A n \in 0..Len(queue) : \A m \in Names, i \in Ids : Known(n, m, i)' <=> Known(n, m, i)
  <2> SUFFICES ASSUME NEW n \in 0..Len(queue), NEW m \in Names, NEW i \in Ids
               PROVE  Known(n, m, i)' <=> Known(n, m, i)
    OBVIOUS
  <2>1. \A j \in 1..n : j \in 1..Len(queue)
    BY <1>1
  <2> QED BY <1>1, <2>1 DEF Known
<1>3. \A m \in Names, i \in Ids : Known(Len(queue), m, i)' <=>
          Known(Len(queue), m, i) \/ (e.type = "repo" /\ e.name = m /\ e.id = i)
  <2> SUFFICES ASSUME NEW m \in Names, NEW i \in Ids
               PROVE  Known(Len(queue), m, i)' <=>
                        Known(Len(queue), m, i) \/ (e.type = "repo" /\ e.name = m /\ e.id = i)
    OBVIOUS
  <2>1. 1..Len(queue') = 1..Len(queue) \cup {Len(queue) + 1}
    BY <1>1
  <2> QED BY <1>1, <2>1 DEF Known
<1> QED BY <1>1, <1>2, <1>3

\* A creation that does not conflict gets the next id.
LEMMA CommitLog ==
    ASSUME RegInv, NEW r \in Requests, CommitCreate(r)
    PROVE  /\ LogInv' /\ NoSharedId' /\ DataFollowsMap'
           /\ id[r] = next /\ next' = next + 1 /\ map[Name(r)] = NoRepo /\ next < MaxId
<1> DEFINE e == MapWrite(Name(r), id[r])
<1>1. /\ pc[r] = "commit" /\ ~stale[r] /\ queue' = Append(queue, e)
      /\ map' = [map EXCEPT ![Name(r)] = id[r]] /\ next' = SaturatingNext(id[r])
      /\ durMap' = durMap /\ durNext' = durNext /\ durData' = durData
  BY DEF CommitCreate, Conflicting, disk
<1>2. id[r] = next /\ map[Name(r)] = NoRepo
  BY <1>1 DEF RegInv, SnapshotFresh
<1>3. next < MaxId /\ next \in Ids /\ Name(r) \in Names
  BY <1>2, IdLeft, IdFacts DEF RegInv, RegistryTypeOK
<1>4. next' = next + 1
  BY <1>1, <1>2, <1>3 DEF SaturatingNext
<1>5. e \in Writes
      /\ e.type = "repo" /\ e.name = Name(r) /\ e.id = next
  BY <1>2, <1>3 DEF MapWrite, Writes
<1> HIDE DEF e
<1>6. /\ Len(queue') = Len(queue) + 1 /\ Len(queue) \in Nat
      /\ \A j \in 1..Len(queue) : queue'[j] = queue[j]
      /\ queue'[Len(queue) + 1] = e
      /\ \A n \in 0..Len(queue) : \A m \in Names, i \in Ids : Known(n, m, i)' <=> Known(n, m, i)
      /\ \A m \in Names, i \in Ids : Known(Len(queue), m, i)' <=>
             Known(Len(queue), m, i) \/ (Name(r) = m /\ next = i)
  BY <1>1, <1>5, KnownAppend
<1>7. \A n \in 0..Len(queue) : \A k : FilledAt(n, k) => FilledAt(n, k)'
  BY <1>6 DEF FilledAt
<1>8. \A i \in Ids : ~Known(Len(queue), Name(r), i)
  BY <1>2, <1>3, IdFacts DEF RegInv, LogInv, NoRepo
<1>9. FilledAt(0, durNext)'
  BY <1>1, <1>6, <1>7 DEF RegInv, LogInv, FilledAt
<1>10. FilledAt(Len(queue), next)'
  <2>1. \A i \in Ids : i < next + 1 <=> i < next \/ i = next
    BY <1>3, IdFacts
  <2> QED BY <1>3, <1>4, <1>6, <2>1 DEF RegInv, LogInv, FilledAt
<1>11. ASSUME NEW j \in 1..Len(queue'), queue'[j].type = "repo"
       PROVE  FilledAt(j - 1, queue[j].id)' /\ \A i \in Ids : ~Known(j - 1, queue[j].name, i)'
  <2>1. CASE j = Len(queue) + 1
    <3>1. FilledAt(Len(queue), next)
      BY DEF RegInv, LogInv
    <3>2. j - 1 = Len(queue) /\ queue'[j] = e
      BY <1>6, <2>1
    <3>3. FilledAt(j - 1, queue[j].id)'
      BY <1>5, <1>6, <3>1, <3>2 DEF FilledAt
    <3> QED BY <1>3, <1>5, <1>6, <1>8, <3>2, <3>3
  <2>2. CASE j # Len(queue) + 1
    <3>1. j \in 1..Len(queue) /\ j - 1 \in 0..Len(queue) /\ queue'[j] = queue[j]
      BY <1>6, <2>2
    <3>2. FilledAt(j - 1, queue[j].id) /\ \A i \in Ids : ~Known(j - 1, queue[j].name, i)
      BY <1>11, <3>1 DEF RegInv, LogInv
    <3>3. queue[j].name \in Names
      BY <3>1, QueueType
    <3>4. FilledAt(j - 1, queue[j].id)'
      BY <1>6, <3>1, <3>2 DEF FilledAt
    <3> QED BY <1>6, <3>1, <3>2, <3>3, <3>4
  <2> QED BY <2>1, <2>2
<1>12. \A m \in Names, i \in Ids : map'[m] = i <=> Known(Len(queue), m, i)'
  <2> SUFFICES ASSUME NEW m \in Names, NEW i \in Ids
               PROVE  map'[m] = i <=> Known(Len(queue), m, i)'
    OBVIOUS
  <2>1. map \in [Names -> Ids \cup {NoRepo}]
    BY DEF RegInv, RegistryTypeOK
  <2>2. map[m] = i <=> Known(Len(queue), m, i)
    BY DEF RegInv, LogInv
  <2> QED BY <1>1, <1>2, <1>3, <1>6, <1>8, <2>1, <2>2, IdFacts
<1>13. LogInv'
  BY <1>9, <1>10, <1>11, <1>12 DEF LogInv
<1>14. NoSharedId'
  <2>1. \A m \in Names : map[m] # next
    BY <1>3, IdFacts DEF RegInv, LogInv, FilledAt
  <2> QED BY <1>1, <1>2, <1>3, <2>1 DEF RegInv, RegistryTypeOK, NoSharedId, OneIdPerName
<1>15. DataFollowsMap'
  <2> SUFFICES ASSUME NEW j \in 1..Len(queue'), queue'[j].type = "data"
               PROVE  Known(j - 1, queue[j].name, queue[j].id)'
    BY <1>1 DEF RegInv, DataFollowsMap
  <2>1. j \in 1..Len(queue) /\ queue'[j] = queue[j] /\ j - 1 \in 0..Len(queue)
    BY <1>5, <1>6
  <2>2. queue[j].name \in Names /\ queue[j].id \in Ids
    BY <2>1, QueueType
  <2>3. Known(j - 1, queue[j].name, queue[j].id)
    BY <2>1 DEF RegInv, DataFollowsMap
  <2> QED BY <1>6, <2>1, <2>2, <2>3
<1> QED BY <1>2, <1>3, <1>4, <1>13, <1>14, <1>15

\* A request writes under the id it resolved, which its name is mapped to.
LEMMA UseLog ==
    ASSUME RegInv, NEW r \in Requests, Use(r)
    PROVE  LogInv' /\ NoSharedId' /\ DataFollowsMap' /\ id[r] \in Ids
<1> DEFINE e == DataWrite(id[r], Name(r))
<1>1. /\ pc[r] = "use" /\ queue' = Append(queue, e)
      /\ map' = map /\ next' = next
      /\ durMap' = durMap /\ durNext' = durNext /\ durData' = durData
  BY DEF Use, disk, registry
<1>2. id[r] \in Ids /\ map[Name(r)] = id[r] /\ Name(r) \in Names
  BY <1>1, IdFacts DEF RegInv, RegistryTypeOK, Resolved
<1>3. e \in Writes /\ e.type = "data" /\ e.name = Name(r) /\ e.id = id[r]
  BY <1>2 DEF DataWrite, Writes
<1> HIDE DEF e
<1>4. /\ Len(queue') = Len(queue) + 1 /\ Len(queue) \in Nat
      /\ \A j \in 1..Len(queue) : queue'[j] = queue[j]
      /\ queue'[Len(queue) + 1] = e
      /\ \A n \in 0..Len(queue) : \A m \in Names, i \in Ids : Known(n, m, i)' <=> Known(n, m, i)
      /\ \A m \in Names, i \in Ids : Known(Len(queue), m, i)' <=> Known(Len(queue), m, i)
  BY <1>1, <1>3, KnownAppend
<1>5. FilledAt(0, durNext)' /\ FilledAt(Len(queue), next)'
  BY <1>1, <1>4 DEF RegInv, LogInv, FilledAt
<1>6. ASSUME NEW j \in 1..Len(queue'), queue'[j].type = "repo"
      PROVE  FilledAt(j - 1, queue[j].id)' /\ \A i \in Ids : ~Known(j - 1, queue[j].name, i)'
  <2>1. j \in 1..Len(queue) /\ j - 1 \in 0..Len(queue) /\ queue'[j] = queue[j]
    BY <1>3, <1>4, <1>6
  <2>2. FilledAt(j - 1, queue[j].id) /\ \A i \in Ids : ~Known(j - 1, queue[j].name, i)
    BY <1>6, <2>1 DEF RegInv, LogInv
  <2>3. queue[j].name \in Names
    BY <2>1, QueueType
  <2>4. FilledAt(j - 1, queue[j].id)'
    BY <1>4, <2>1, <2>2 DEF FilledAt
  <2> QED BY <1>4, <2>1, <2>2, <2>3, <2>4
<1>7. LogInv'
  BY <1>1, <1>4, <1>5, <1>6 DEF RegInv, LogInv
<1>8. NoSharedId'
  BY <1>1 DEF RegInv, NoSharedId, OneIdPerName
<1>9. DataFollowsMap'
  <2> SUFFICES ASSUME NEW j \in 1..Len(queue'), queue'[j].type = "data"
               PROVE  Known(j - 1, queue[j].name, queue[j].id)'
    BY <1>1 DEF RegInv, DataFollowsMap
  <2>1. CASE j = Len(queue) + 1
    <3>1. j - 1 = Len(queue) /\ j - 1 \in 0..Len(queue) /\ queue'[j] = e
      BY <1>4, <2>1
    <3>2. Known(Len(queue), Name(r), id[r])
      BY <1>2 DEF RegInv, LogInv
    <3> QED BY <1>2, <1>3, <1>4, <3>1, <3>2
  <2>2. CASE j # Len(queue) + 1
    <3>1. j \in 1..Len(queue) /\ queue'[j] = queue[j] /\ j - 1 \in 0..Len(queue)
      BY <1>4, <2>2
    <3>2. queue[j].name \in Names /\ queue[j].id \in Ids
      BY <3>1, QueueType
    <3>3. Known(j - 1, queue[j].name, queue[j].id)
      BY <3>1 DEF RegInv, DataFollowsMap
    <3> QED BY <1>4, <3>1, <3>2, <3>3
  <2> QED BY <2>1, <2>2
<1> QED BY <1>2, <1>7, <1>8, <1>9

\* A flush moves the oldest write to the disk: what every longer prefix
\* leaves is the same.
LEMMA FlushLog ==
    ASSUME RegInv, WalFlush
    PROVE  LogInv' /\ NoSharedId' /\ DataFollowsMap'
           /\ durMap' \in [Names -> Ids \cup {NoRepo}] /\ durNext' \in Ids /\ durData' \subseteq Ids \X Names
<1> DEFINE e == queue[1]
<1>1. /\ queue # <<>> /\ queue' = Tail(queue) /\ map' = map /\ next' = next /\ Head(queue) = queue[1]
      /\ IF e.type = "repo"
         THEN /\ durMap' = [durMap EXCEPT ![e.name] = e.id]
              /\ durNext' = SaturatingNext(e.id)
              /\ durData' = durData
         ELSE /\ durData' = durData \cup {<<e.id, e.name>>}
              /\ durMap' = durMap /\ durNext' = durNext
  BY DEF WalFlush, registry
<1>2. /\ Len(queue) \in Nat /\ Len(queue) > 0 /\ Len(queue') = Len(queue) - 1
      /\ \A j \in 1..Len(queue') : queue'[j] = queue[j + 1] /\ j + 1 \in 1..Len(queue)
      /\ 1 \in 1..Len(queue)
  BY <1>1, QueueType
<1>3. e \in Writes /\ e.name \in Names /\ e.id \in Ids
  BY <1>2, QueueType
<1>4. durMap \in [Names -> Ids \cup {NoRepo}] /\ durNext \in Ids /\ durData \subseteq Ids \X Names
  BY DEF RegInv, RegistryTypeOK
<1> HIDE DEF e
<1>5. e.type = "repo" => durMap[e.name] = NoRepo /\ e.id = durNext /\ durNext' = durNext + 1 /\ durNext' \in Ids
  <2> SUFFICES ASSUME e.type = "repo"
               PROVE  durMap[e.name] = NoRepo /\ e.id = durNext /\ durNext' = durNext + 1 /\ durNext' \in Ids
    OBVIOUS
  <2>1. FilledAt(0, e.id) /\ \A i \in Ids : ~Known(0, e.name, i)
    BY <1>2 DEF RegInv, LogInv, e
  <2>2. durMap[e.name] = NoRepo
    BY <1>3, <1>4, <2>1 DEF Known
  <2>3. e.id = durNext
    BY <1>3, <1>4, <2>1, SameBound DEF RegInv, LogInv, FilledAt
  <2>4. SaturatingNext(e.id) = e.id + 1 /\ e.id < next /\ next \in Ids
    BY <1>2, QueuedBelowNext DEF e, RegInv, RegistryTypeOK
  <2> QED BY <1>1, <1>3, <2>2, <2>3, <2>4, IdFacts
<1>6. \A m \in Names, i \in Ids : durMap'[m] = i <=> Known(1, m, i)
  <2> SUFFICES ASSUME NEW m \in Names, NEW i \in Ids PROVE durMap'[m] = i <=> Known(1, m, i)
    OBVIOUS
  <2>1. Known(1, m, i) <=> durMap[m] = i \/ (e.type = "repo" /\ e.name = m /\ e.id = i)
    BY DEF Known, e
  <2> QED BY <1>1, <1>3, <1>4, <1>5, <2>1, IdFacts DEF NoRepo
<1>7. \A n \in 0..Len(queue') : \A m \in Names, i \in Ids : Known(n, m, i)' <=> Known(n + 1, m, i)
  <2> SUFFICES ASSUME NEW n \in 0..Len(queue'), NEW m \in Names, NEW i \in Ids
               PROVE  Known(n, m, i)' <=> Known(n + 1, m, i)
    OBVIOUS
  <2>1. ASSUME Known(n, m, i)' PROVE Known(n + 1, m, i)
    <3>1. CASE durMap'[m] = i
      BY <1>6, <3>1 DEF Known
    <3>2. CASE \E j \in 1..n : queue'[j].type = "repo" /\ queue'[j].name = m /\ queue'[j].id = i
      <4>1. PICK j \in 1..n : queue'[j].type = "repo" /\ queue'[j].name = m /\ queue'[j].id = i
        BY <3>2
      <4>2. j + 1 \in 1..(n + 1) /\ queue'[j] = queue[j + 1]
        BY <1>2
      <4> QED BY <4>1, <4>2 DEF Known
    <3> QED BY <2>1, <3>1, <3>2 DEF Known
  <2>2. ASSUME Known(n + 1, m, i) PROVE Known(n, m, i)'
    <3>1. CASE durMap[m] = i
      BY <1>6, <3>1 DEF Known
    <3>2. CASE \E j \in 1..(n + 1) : queue[j].type = "repo" /\ queue[j].name = m /\ queue[j].id = i
      <4>1. PICK j \in 1..(n + 1) : queue[j].type = "repo" /\ queue[j].name = m /\ queue[j].id = i
        BY <3>2
      <4>2. CASE j = 1
        BY <1>6, <4>1, <4>2 DEF Known
      <4>3. CASE j # 1
        <5>1. j - 1 \in 1..n /\ j - 1 \in 1..Len(queue') /\ queue'[j - 1] = queue[j]
          BY <1>2, <4>3
        <5> QED BY <4>1, <5>1 DEF Known
      <4> QED BY <4>2, <4>3
    <3> QED BY <2>2, <3>1, <3>2 DEF Known
  <2> QED BY <2>1, <2>2
<1>8. FilledAt(0, durNext)'
  <2>1. \A m \in Names, i \in Ids : Known(0, m, i)' <=> durMap'[m] = i
    BY DEF Known
  <2>2. \A i \in Ids : i < durNext <=> \E m \in Names : durMap[m] = i
    BY DEF RegInv, LogInv, FilledAt, Known
  <2>3. \A i \in Ids : i < durNext' <=> \E m \in Names : durMap'[m] = i
    <3>1. CASE e.type = "repo"
      <4>1. \A i \in Ids : i < durNext' <=> i < durNext \/ i = durNext
        BY <1>4, <1>5, <3>1, IdFacts
      <4> QED BY <1>1, <1>3, <1>4, <1>5, <2>2, <3>1, <4>1, IdFacts DEF NoRepo
    <3>2. CASE e.type # "repo"
      BY <1>1, <2>2, <3>2
    <3> QED BY <3>1, <3>2
  <2> QED BY <2>1, <2>3 DEF FilledAt
<1>9. FilledAt(Len(queue), next)'
  <2>1. Len(queue') + 1 = Len(queue) /\ Len(queue') \in 0..Len(queue')
    BY <1>2
  <2> QED BY <1>1, <1>7, <2>1 DEF RegInv, LogInv, FilledAt
<1>10. ASSUME NEW j \in 1..Len(queue'), queue'[j].type = "repo"
       PROVE  FilledAt(j - 1, queue[j].id)' /\ \A i \in Ids : ~Known(j - 1, queue[j].name, i)'
  <2>1. /\ j + 1 \in 1..Len(queue) /\ j - 1 \in 0..Len(queue') /\ queue'[j] = queue[j + 1]
        /\ (j + 1) - 1 = (j - 1) + 1
    BY <1>2
  <2>2. FilledAt((j - 1) + 1, queue[j + 1].id) /\ \A i \in Ids : ~Known((j - 1) + 1, queue[j + 1].name, i)
    BY <1>10, <2>1 DEF RegInv, LogInv
  <2>3. queue[j + 1].name \in Names
    BY <2>1, QueueType
  <2>4. FilledAt(j - 1, queue[j].id)'
    BY <1>7, <2>1, <2>2 DEF FilledAt
  <2> QED BY <1>7, <2>1, <2>2, <2>3, <2>4
<1>11. \A m \in Names, i \in Ids : map'[m] = i <=> Known(Len(queue), m, i)'
  <2>1. Len(queue') + 1 = Len(queue) /\ Len(queue') \in 0..Len(queue')
    BY <1>2
  <2> QED BY <1>1, <1>7, <2>1 DEF RegInv, LogInv
<1>12. LogInv'
  BY <1>8, <1>9, <1>10, <1>11 DEF LogInv
<1>13. NoSharedId'
  <2>1. \A m \in Names : durMap[m] # durNext
    BY <1>4, IdFacts DEF RegInv, LogInv, FilledAt, Known
  <2> QED BY <1>1, <1>3, <1>4, <1>5, <2>1 DEF RegInv, NoSharedId, OneIdPerName
<1>14. DataFollowsMap'
  <2>1. \A d \in durData' : durMap'[d[2]] = d[1]
    <3>1. CASE e.type = "repo"
      <4>1. \A d \in durData : d[1] \in Ids /\ d[2] \in Names /\ durMap[d[2]] = d[1]
        BY <1>4 DEF RegInv, DataFollowsMap
      <4> QED BY <1>1, <1>4, <1>5, <3>1, <4>1, IdFacts DEF NoRepo
    <3>2. CASE e.type # "repo"
      <4>1. Known(0, e.name, e.id)
        BY <1>2, <1>3, <3>2 DEF RegInv, DataFollowsMap, e, Writes
      <4>2. durMap[e.name] = e.id
        BY <4>1 DEF Known
      <4> QED BY <1>1, <3>2, <4>2 DEF RegInv, DataFollowsMap
    <3> QED BY <3>1, <3>2
  <2>2. ASSUME NEW j \in 1..Len(queue'), queue'[j].type = "data"
        PROVE  Known(j - 1, queue[j].name, queue[j].id)'
    <3>1. /\ j + 1 \in 1..Len(queue) /\ j - 1 \in 0..Len(queue') /\ queue'[j] = queue[j + 1]
          /\ (j + 1) - 1 = (j - 1) + 1
      BY <1>2
    <3>2. queue[j + 1].name \in Names /\ queue[j + 1].id \in Ids
      BY <3>1, QueueType
    <3>3. Known((j - 1) + 1, queue[j + 1].name, queue[j + 1].id)
      BY <2>2, <3>1 DEF RegInv, DataFollowsMap
    <3> QED BY <1>7, <3>1, <3>2, <3>3
  <2> QED BY <2>1, <2>2 DEF DataFollowsMap
<1>15. durMap' \in [Names -> Ids \cup {NoRepo}] /\ durNext' \in Ids /\ durData' \subseteq Ids \X Names
  BY <1>1, <1>3, <1>4, <1>5
<1> QED BY <1>12, <1>13, <1>14, <1>15

\* After a crash what is read is what was durable.
LEMMA CrashLog ==
    ASSUME RegInv, Crash
    PROVE  LogInv' /\ NoSharedId' /\ DataFollowsMap'
<1>1. /\ map' = durMap /\ next' = durNext /\ queue' = <<>> /\ Len(queue') = 0
      /\ durMap' = durMap /\ durNext' = durNext /\ durData' = durData
  BY DEF Crash
<1>2. \A m \in Names, i \in Ids : Known(0, m, i)' <=> durMap[m] = i
  BY <1>1 DEF Known
<1>3. \A m \in Names, i \in Ids : Known(0, m, i) <=> durMap[m] = i
  BY DEF Known
<1>4. LogInv'
  BY <1>1, <1>2, <1>3 DEF RegInv, LogInv, FilledAt
<1>5. NoSharedId' /\ DataFollowsMap'
  BY <1>1 DEF RegInv, NoSharedId, OneIdPerName, DataFollowsMap
<1> QED BY <1>4, <1>5

-----------------------------------------------------------------------------
(* The requests *)

RequestInv == SnapshotFresh /\ Resolved /\ ConflictsCounted

RequestType ==
    /\ pc \in [Requests -> Running \cup Ended \cup {"idle"}]
    /\ snapshot \in [Requests -> [map : [Names -> Ids \cup {NoRepo}], next : Ids]]
    /\ stale \in [Requests -> BOOLEAN]
    /\ attempts \in [Requests -> Nat]
    /\ id \in [Requests -> Ids \cup {NoRepo}]
    /\ owed \in [Requests -> Nat]
    /\ created \subseteq Requests

LEMMA NoSnapshotType ==
    /\ NoSnapshot \in [map : [Names -> Ids \cup {NoRepo}], next : Ids]
    /\ NoRepo \in Ids \cup {NoRepo}
  BY IdFacts DEF NoSnapshot, NoMap, FirstRepoId

\* The number of creators only grows.
LEMMA CreatorsGrow ==
    ASSUME NEW S, IsFiniteSet(S), NEW T, IsFiniteSet(T), S \subseteq T, NEW r
    PROVE  /\ Cardinality(S \ {r}) \in Nat /\ Cardinality(T \ {r}) \in Nat
           /\ Cardinality(S \ {r}) <= Cardinality(T \ {r})
<1>1. IsFiniteSet(S \ {r}) /\ IsFiniteSet(T \ {r}) /\ S \ {r} \subseteq T \ {r}
  BY FS_Difference, FS_Singleton
<1> QED BY <1>1, FS_CardinalityType, FS_Subset

\* Requests that leave forget their locals and keep what was counted.
LEMMA LeaveKeeps ==
    ASSUME RegInv, NEW R \in SUBSET Requests, NEW l \in Ended, Leave(R, l),
           created' = created,
           \/ map' = map /\ next' = next
           \/ \A r \in Requests : pc[r] \in Running => r \in R,
           l = "contention" => \A r \in R : CreateAttempts <= Cardinality(created \ {r})
    PROVE  RequestType' /\ RequestInv'
<1> USE DEF RegInv
<1>1. /\ pc' = [r \in Requests |-> IF r \in R THEN l ELSE pc[r]]
      /\ snapshot' = [r \in Requests |-> IF r \in R THEN NoSnapshot ELSE snapshot[r]]
      /\ stale' = [r \in Requests |-> r \notin R /\ stale[r]]
      /\ attempts' = [r \in Requests |-> IF r \in R THEN 0 ELSE attempts[r]]
      /\ id' = [r \in Requests |-> IF r \in R THEN NoRepo ELSE id[r]]
      /\ owed' = [r \in Requests |-> IF r \in R THEN 0 ELSE owed[r]]
  BY DEF Leave
<1>2. RequestType
  BY DEF RegistryTypeOK, RequestType
<1>3. RequestType'
  <2>1. pc' \in [Requests -> Running \cup Ended \cup {"idle"}]
    BY <1>1, <1>2 DEF RequestType
  <2>2. snapshot' \in [Requests -> [map : [Names -> Ids \cup {NoRepo}], next : Ids]]
    BY <1>1, <1>2, NoSnapshotType DEF RequestType
  <2>3. stale' \in [Requests -> BOOLEAN]
    BY <1>1, <1>2 DEF RequestType
  <2>4. attempts' \in [Requests -> Nat] /\ owed' \in [Requests -> Nat]
    BY <1>1, <1>2 DEF RequestType
  <2>5. id' \in [Requests -> Ids \cup {NoRepo}]
    BY <1>1, <1>2 DEF RequestType
  <2> QED BY <1>2, <2>1, <2>2, <2>3, <2>4, <2>5 DEF RequestType
<1>4. \A r \in Requests : pc'[r] \in Running => r \notin R /\ map' = map /\ next' = next
  BY <1>1, <1>2 DEF RequestType, Running, Ended
<1>5. \A r \in Requests : r \notin R =>
        /\ pc'[r] = pc[r] /\ snapshot'[r] = snapshot[r] /\ stale'[r] = stale[r]
        /\ attempts'[r] = attempts[r] /\ id'[r] = id[r]
  BY <1>1, <1>2 DEF RequestType
<1>6. SnapshotFresh' /\ Resolved'
  BY <1>4, <1>5 DEF SnapshotFresh, Resolved, Running
<1>7. ConflictsCounted'
  <2>1. \A r \in Requests : Cardinality(created \ {r}) \in Nat
    BY CreatorsGrow DEF ConflictsCounted
  <2>2. \A r \in created : pc'[r] \in {"await", "use"} \cup Ended
    BY <1>1, <1>2 DEF ConflictsCounted, RequestType
  <2>3. ASSUME NEW r \in Requests
        PROVE  /\ attempts'[r] <= Cardinality(created \ {r})
               /\ pc'[r] \in {"read", "commit"} /\ stale'[r] => attempts'[r] + 1 <= Cardinality(created \ {r})
               /\ pc'[r] = "contention" => CreateAttempts <= Cardinality(created \ {r})
    <3>1. CASE r \in R
      <4>1. pc'[r] = l /\ attempts'[r] = 0 /\ l \notin {"read", "commit"}
        BY <1>1, <3>1 DEF Ended
      <4> QED BY <2>1, <3>1, <4>1
    <3>2. CASE r \notin R
      BY <1>5, <3>2 DEF ConflictsCounted
    <3> QED BY <3>1, <3>2
  <2> QED BY <2>2, <2>3 DEF ConflictsCounted
<1> QED BY <1>3, <1>6, <1>7 DEF RequestInv

\* Request q is as before.
Same(q) ==
    /\ pc'[q] = pc[q] /\ snapshot'[q] = snapshot[q] /\ stale'[q] = stale[q]
    /\ attempts'[q] = attempts[q] /\ id'[q] = id[q]

\* A step of request r that touches neither the log nor the other requests.
LEMMA OwnStep ==
    ASSUME RegInv, NEW r \in Requests, UNCHANGED logVars, created' = created,
           \A q \in Requests \ {r} : Same(q),
           pc'[r] # "contention",
           pc'[r] \in {"read", "commit"} =>
              /\ \A n \in Names : snapshot'[r].map[n] # NoRepo => map[n] = snapshot'[r].map[n]
              /\ ~stale'[r] => snapshot'[r] = [map |-> map, next |-> next]
              /\ stale'[r] => attempts'[r] + 1 <= Cardinality(created \ {r}),
           pc'[r] = "commit" => id'[r] = snapshot'[r].next /\ snapshot'[r].map[Name(r)] = NoRepo,
           pc'[r] \in {"await", "use"} => id'[r] # NoRepo /\ map[Name(r)] = id'[r],
           r \in created => pc'[r] \in {"await", "use"} \cup Ended,
           attempts'[r] <= Cardinality(created \ {r})
    PROVE  RequestInv'
<1> USE DEF RegInv
<1>1. map' = map /\ next' = next
  BY DEF logVars
<1>3. \A q \in Requests \ {r} :
        /\ pc'[q] = pc[q] /\ snapshot'[q] = snapshot[q] /\ stale'[q] = stale[q]
        /\ attempts'[q] = attempts[q] /\ id'[q] = id[q]
  BY DEF Same
<1>4. SnapshotFresh'
  <2> SUFFICES ASSUME NEW q \in Requests, pc'[q] \in {"read", "commit"}
               PROVE  /\ \A n \in Names : snapshot'[q].map[n] # NoRepo => map'[n] = snapshot'[q].map[n]
                      /\ ~stale'[q] => snapshot'[q] = [map |-> map', next |-> next']
                      /\ pc'[q] = "commit" => id'[q] = snapshot'[q].next /\ snapshot'[q].map[Name(q)] = NoRepo
    BY DEF SnapshotFresh
  <2>1. CASE q = r
    BY <1>1, <1>3, <2>1
  <2>2. CASE q # r
    BY <1>1, <1>3, <2>2 DEF SnapshotFresh
  <2> QED BY <2>1, <2>2
<1>5. Resolved'
  <2> SUFFICES ASSUME NEW q \in Requests, pc'[q] \in {"await", "use"}
               PROVE  id'[q] # NoRepo /\ map'[Name(q)] = id'[q]
    BY DEF Resolved
  <2>1. CASE q = r
    BY <1>1, <1>3, <2>1
  <2>2. CASE q # r
    BY <1>1, <1>3, <2>2 DEF Resolved
  <2> QED BY <2>1, <2>2
<1>6. ConflictsCounted'
  <2>1. \A q \in created : pc'[q] \in {"await", "use"} \cup Ended
    BY <1>3 DEF ConflictsCounted, RegistryTypeOK
  <2>2. ASSUME NEW q \in Requests
        PROVE  /\ attempts'[q] <= Cardinality(created \ {q})
               /\ pc'[q] \in {"read", "commit"} /\ stale'[q] => attempts'[q] + 1 <= Cardinality(created \ {q})
               /\ pc'[q] = "contention" => CreateAttempts <= Cardinality(created \ {q})
    <3>1. CASE q = r
      BY <3>1
    <3>2. CASE q # r
      BY <1>3, <3>2 DEF ConflictsCounted
    <3> QED BY <3>1, <3>2
  <2> QED BY <2>1, <2>2 DEF ConflictsCounted
<1> QED BY <1>4, <1>5, <1>6 DEF RequestInv

LEMMA ResolveKeeps ==
    ASSUME RegInv, NEW r \in Requests,
           Arrive(r) \/ LookupFound(r) \/ LookupNone(r) \/ BeginTxn(r) \/ AlreadyCreated(r)
             \/ Allocate(r) \/ Created(r)
    PROVE  RequestType' /\ RequestInv' /\ UNCHANGED logVars /\ crashes' = crashes
<1> USE DEF RegInv
<1>1. /\ UNCHANGED logVars /\ created' = created /\ owed' = owed /\ crashes' = crashes
      /\ attempts' = attempts
  BY DEF Arrive, LookupFound, LookupNone, BeginTxn, AlreadyCreated, Allocate, Created,
         logVars, disk, registry, request
<1>2. RequestType /\ Name(r) \in Names /\ map \in [Names -> Ids \cup {NoRepo}] /\ next \in Ids
  BY IdFacts DEF RegistryTypeOK, RequestType
<1>3. /\ snapshot[r] \in [map : [Names -> Ids \cup {NoRepo}], next : Ids]
      /\ snapshot[r].map[Name(r)] \in Ids \cup {NoRepo} /\ snapshot[r].next \in Ids
      /\ map[Name(r)] \in Ids \cup {NoRepo}
  BY <1>2 DEF RequestType
<1>4. /\ attempts[r] <= Cardinality(created \ {r})
      /\ r \in created => pc[r] \in {"await", "use"} \cup Ended
  BY DEF ConflictsCounted
<1>5. CASE Arrive(r)
  <2>1. /\ pc[r] = "idle" /\ pc' = [pc EXCEPT ![r] = "lookup"] /\ snapshot' = snapshot
        /\ stale' = stale /\ id' = id
    BY <1>5 DEF Arrive, Goto, request
  <2>2. RequestType' /\ pc'[r] = "lookup" /\ \A q \in Requests \ {r} : Same(q)
    BY <1>1, <1>2, <2>1 DEF RequestType, Running, Same
  <2>3. r \notin created
    BY <1>4, <2>1 DEF Ended
  <2> QED BY <1>1, <1>4, <2>1, <2>2, <2>3, OwnStep
<1>6. CASE LookupFound(r)
  <2>1. /\ pc[r] = "lookup" /\ pc' = [pc EXCEPT ![r] = "use"] /\ snapshot' = snapshot
        /\ stale' = stale /\ id' = [id EXCEPT ![r] = map[Name(r)]] /\ map[Name(r)] # NoRepo
    BY <1>6 DEF LookupFound, Goto
  <2>2. /\ RequestType' /\ pc'[r] = "use" /\ id'[r] = map[Name(r)]
        /\ \A q \in Requests \ {r} : Same(q)
    BY <1>1, <1>2, <1>3, <2>1 DEF RequestType, Running, Same
  <2> QED BY <1>1, <1>4, <2>1, <2>2, OwnStep
<1>7. CASE LookupNone(r)
  <2>1. /\ pc[r] = "lookup" /\ snapshot' = snapshot /\ stale' = stale /\ id' = id
        /\ pc' = [pc EXCEPT ![r] = IF AutoCreate THEN "begin" ELSE "not_found"]
    BY <1>7 DEF LookupNone, Goto, request
  <2>2. /\ RequestType' /\ pc'[r] \in {"begin", "not_found"}
        /\ \A q \in Requests \ {r} : Same(q)
    BY <1>1, <1>2, <2>1 DEF RequestType, Running, Ended, Same
  <2>3. r \notin created
    BY <1>4, <2>1 DEF Ended
  <2> QED BY <1>1, <1>4, <2>1, <2>2, <2>3, OwnStep
<1>8. CASE BeginTxn(r)
  <2> DEFINE s == [map |-> map, next |-> next]
  <2>1. /\ pc[r] = "begin" /\ snapshot' = [snapshot EXCEPT ![r] = s]
        /\ stale' = [stale EXCEPT ![r] = FALSE] /\ id' = id /\ pc' = [pc EXCEPT ![r] = "read"]
    BY <1>8 DEF BeginTxn, Goto
  <2>2. s \in [map : [Names -> Ids \cup {NoRepo}], next : Ids] /\ s.map = map
    BY <1>2
  <2>3. snapshot' \in [Requests -> [map : [Names -> Ids \cup {NoRepo}], next : Ids]] /\ snapshot'[r] = s
    BY <1>2, <2>1, <2>2 DEF RequestType
  <2>4. /\ RequestType' /\ pc'[r] = "read" /\ ~stale'[r]
        /\ \A q \in Requests \ {r} : Same(q)
    BY <1>1, <1>2, <2>1, <2>3 DEF RequestType, Running, Same
  <2>5. r \notin created
    BY <1>4, <2>1 DEF Ended
  <2> QED BY <1>1, <1>4, <2>1, <2>2, <2>3, <2>4, <2>5, OwnStep
<1>9. CASE AlreadyCreated(r)
  <2>1. /\ pc[r] = "read" /\ snapshot[r].map[Name(r)] # NoRepo /\ snapshot' = snapshot /\ stale' = stale
        /\ id' = [id EXCEPT ![r] = snapshot[r].map[Name(r)]] /\ pc' = [pc EXCEPT ![r] = "use"]
    BY <1>9 DEF AlreadyCreated, Goto
  <2>2. /\ RequestType' /\ pc'[r] = "use" /\ id'[r] = snapshot[r].map[Name(r)]
        /\ \A q \in Requests \ {r} : Same(q)
    BY <1>1, <1>2, <1>3, <2>1 DEF RequestType, Running, Same
  <2>3. map[Name(r)] = snapshot[r].map[Name(r)]
    BY <1>2, <2>1 DEF SnapshotFresh
  <2> QED BY <1>1, <1>4, <2>1, <2>2, <2>3, OwnStep
<1>10. CASE Allocate(r)
  <2>1. /\ pc[r] = "read" /\ snapshot[r].map[Name(r)] = NoRepo /\ snapshot' = snapshot
        /\ stale' = stale /\ id' = [id EXCEPT ![r] = snapshot[r].next]
        /\ pc' = [pc EXCEPT ![r] = "commit"]
    BY <1>10 DEF Allocate, Goto
  <2>2. /\ RequestType' /\ pc'[r] = "commit" /\ id'[r] = snapshot[r].next
        /\ \A q \in Requests \ {r} : Same(q)
    BY <1>1, <1>2, <1>3, <2>1 DEF RequestType, Running, Same
  <2>3. /\ ~stale[r] => snapshot[r] = [map |-> map, next |-> next]
        /\ \A n \in Names : snapshot[r].map[n] # NoRepo => map[n] = snapshot[r].map[n]
        /\ stale[r] => attempts[r] + 1 <= Cardinality(created \ {r})
    BY <2>1 DEF SnapshotFresh, ConflictsCounted
  <2>4. r \notin created
    BY <1>4, <2>1 DEF Ended
  <2> QED BY <1>1, <1>4, <2>1, <2>2, <2>3, <2>4, OwnStep
<1>11. CASE Created(r)
  <2>1. /\ pc[r] = "await" /\ pc' = [pc EXCEPT ![r] = "use"] /\ snapshot' = snapshot
        /\ stale' = stale /\ id' = id
    BY <1>11 DEF Created, Goto, request
  <2>2. RequestType' /\ pc'[r] = "use" /\ \A q \in Requests \ {r} : Same(q)
    BY <1>1, <1>2, <2>1 DEF RequestType, Running, Same
  <2>3. id[r] # NoRepo /\ map[Name(r)] = id[r]
    BY <2>1 DEF Resolved
  <2> QED BY <1>1, <1>4, <2>1, <2>2, <2>3, OwnStep
<1> QED BY <1>1, <1>5, <1>6, <1>7, <1>8, <1>9, <1>10, <1>11

\* A creation makes every other open transaction conflict, and is one more
\* creator for each of them.
LEMMA CommitKeeps ==
    ASSUME RegInv, NEW r \in Requests, CommitCreate(r)
    PROVE  RequestType' /\ RequestInv'
<1> USE DEF RegInv
<1>1. /\ pc[r] = "commit" /\ ~stale[r] /\ pc' = [pc EXCEPT ![r] = "await"]
      /\ map' = [map EXCEPT ![Name(r)] = id[r]]
      /\ owed' = [owed EXCEPT ![r] = Len(queue) + 1]
      /\ stale' = [q \in Requests |-> stale[q] \/ (q # r /\ pc[q] \in {"read", "commit"})]
      /\ created' = created \cup {r} /\ snapshot' = snapshot /\ attempts' = attempts /\ id' = id
  BY DEF CommitCreate, Conflicting, Goto
<1>2. id[r] = next /\ next' = next + 1 /\ map[Name(r)] = NoRepo /\ next \in Ids /\ id[r] # NoRepo
  BY CommitLog, IdFacts DEF RegistryTypeOK, NoRepo
<1>3. RequestType /\ Name(r) \in Names /\ map \in [Names -> Ids \cup {NoRepo}]
  BY IdFacts DEF RegistryTypeOK, RequestType
<1>4. /\ pc'[r] = "await"
      /\ \A q \in Requests \ {r} :
            /\ pc'[q] = pc[q]
            /\ stale'[q] <=> stale[q] \/ pc[q] \in {"read", "commit"}
  BY <1>1, <1>3 DEF RequestType
<1>5. RequestType'
  <2>1. owed' \in [Requests -> Nat]
    BY <1>1, <1>3, QueueType DEF RequestType
  <2> QED BY <1>1, <1>3, <2>1 DEF RequestType, Running
<1>6. \A n \in Names : map[n] # NoRepo => map'[n] = map[n]
  BY <1>1, <1>2, <1>3
<1>7. map'[Name(r)] = id[r]
  BY <1>1, <1>3
<1>8. SnapshotFresh'
  <2> SUFFICES ASSUME NEW q \in Requests, pc'[q] \in {"read", "commit"}
               PROVE  /\ \A n \in Names : snapshot'[q].map[n] # NoRepo => map'[n] = snapshot'[q].map[n]
                      /\ ~stale'[q] => snapshot'[q] = [map |-> map', next |-> next']
                      /\ pc'[q] = "commit" => id'[q] = snapshot'[q].next /\ snapshot'[q].map[Name(q)] = NoRepo
    BY DEF SnapshotFresh
  <2>1. q # r /\ pc'[q] = pc[q] /\ stale'[q]
    BY <1>4
  <2> QED BY <1>1, <1>6, <2>1 DEF SnapshotFresh
<1>9. Resolved'
  BY <1>1, <1>2, <1>4, <1>6, <1>7 DEF Resolved
<1>10. ConflictsCounted'
  <2>1. IsFiniteSet(created) /\ IsFiniteSet(created') /\ created \subseteq created'
    BY <1>1, FS_AddElement DEF ConflictsCounted
  <2>2. r \notin created
    BY <1>1 DEF ConflictsCounted, Ended
  <2>3. \A q \in created' : pc'[q] \in {"await", "use"} \cup Ended
    BY <1>1, <1>3, <1>4, <2>2 DEF ConflictsCounted, RequestType
  <2>4. ASSUME NEW q \in Requests
        PROVE  /\ attempts'[q] <= Cardinality(created' \ {q})
               /\ pc'[q] \in {"read", "commit"} /\ stale'[q] => attempts'[q] + 1 <= Cardinality(created' \ {q})
               /\ pc'[q] = "contention" => CreateAttempts <= Cardinality(created' \ {q})
    <3>1. /\ Cardinality(created \ {q}) \in Nat /\ Cardinality(created' \ {q}) \in Nat
          /\ Cardinality(created \ {q}) <= Cardinality(created' \ {q})
      BY <2>1, CreatorsGrow
    <3>2. attempts[q] \in Nat /\ attempts[q] <= Cardinality(created \ {q}) /\ CreateAttempts \in Nat
      BY <1>3, RegistryAssumption DEF RequestType, ConflictsCounted
    <3>3. CASE q = r
      BY <1>1, <1>4, <3>1, <3>2, <3>3
    <3>4. CASE q # r
      <4>1. IsFiniteSet(created \ {q}) /\ r \notin created \ {q} /\ created' \ {q} = (created \ {q}) \cup {r}
        BY <1>1, <2>1, <2>2, <3>4, FS_Difference, FS_Singleton
      <4>2. Cardinality(created' \ {q}) = Cardinality(created \ {q}) + 1
        BY <4>1, FS_AddElement
      <4>3. pc'[q] = "contention" => CreateAttempts <= Cardinality(created \ {q})
        BY <1>4, <3>4 DEF ConflictsCounted
      <4> QED BY <1>1, <3>1, <3>2, <4>2, <4>3
    <3> QED BY <3>3, <3>4
  <2> QED BY <2>1, <2>3, <2>4 DEF ConflictsCounted
<1> QED BY <1>5, <1>8, <1>9, <1>10 DEF RequestInv

\* A conflict is counted once, and the last one allowed ends the request.
LEMMA ConflictKeeps ==
    ASSUME RegInv, NEW r \in Requests, CreateConflict(r)
    PROVE  RequestType' /\ RequestInv' /\ UNCHANGED logVars /\ crashes' = crashes
<1> USE DEF RegInv
<1>1. /\ pc[r] = "commit" /\ stale[r] /\ UNCHANGED logVars /\ created' = created /\ crashes' = crashes
      /\ map' = map /\ next' = next
  BY DEF CreateConflict, Conflicting, logVars, disk, registry
<1>2. RequestType /\ CreateAttempts \in Nat
  BY RegistryAssumption DEF RegistryTypeOK, RequestType
<1>3. attempts[r] \in Nat /\ Cardinality(created \ {r}) \in Nat /\ attempts[r] + 1 <= Cardinality(created \ {r})
  BY <1>1, <1>2, CreatorsGrow DEF RequestType, ConflictsCounted
<1>4. CASE attempts[r] + 1 < CreateAttempts
  <2>1. /\ pc' = [pc EXCEPT ![r] = "begin"] /\ attempts' = [attempts EXCEPT ![r] = @ + 1]
        /\ id' = [id EXCEPT ![r] = NoRepo] /\ snapshot' = snapshot /\ stale' = stale /\ owed' = owed
    BY <1>4 DEF CreateConflict, Goto
  <2>2. /\ RequestType' /\ pc'[r] = "begin" /\ attempts'[r] = attempts[r] + 1
        /\ \A q \in Requests \ {r} : Same(q)
    BY <1>1, <1>2, <2>1 DEF RequestType, Running, Same
  <2>3. r \notin created
    BY <1>1 DEF ConflictsCounted, Ended
  <2> QED BY <1>1, <1>3, <2>2, <2>3, OwnStep
<1>5. CASE ~(attempts[r] + 1 < CreateAttempts)
  <2>1. Leave({r}, "contention")
    BY <1>5 DEF CreateConflict
  <2>2. CreateAttempts <= Cardinality(created \ {r}) /\ "contention" \in Ended
    BY <1>2, <1>3, <1>5 DEF Ended
  <2> QED BY <1>1, <2>1, <2>2, LeaveKeeps
<1> QED BY <1>4, <1>5

LEMMA EndKeeps ==
    ASSUME RegInv, NEW r \in Requests, Use(r) \/ Fail(r)
    PROVE  RequestType' /\ RequestInv'
<1>1. map' = map /\ next' = next /\ created' = created
  BY DEF Use, Fail, registry
<1>2. "done" \in Ended /\ "failed" \in Ended
  BY DEF Ended
<1>3. Leave({r}, "done") \/ Leave({r}, "failed")
  BY DEF Use, Fail
<1> QED BY <1>1, <1>2, <1>3, LeaveKeeps

LEMMA CrashKeeps ==
    ASSUME RegInv, Crash
    PROVE  RequestType' /\ RequestInv'
<1> DEFINE R == {r \in Requests : pc[r] \in Running}
<1>1. created' = created /\ Leave(R, "failed") /\ "failed" \in Ended
  BY DEF Crash, Ended
<1> QED BY <1>1, LeaveKeeps

LEMMA FlushKeeps ==
    ASSUME RegInv, WalFlush
    PROVE  RequestType' /\ RequestInv'
<1>1. /\ map' = map /\ next' = next /\ pc' = pc /\ snapshot' = snapshot /\ stale' = stale
      /\ attempts' = attempts /\ id' = id /\ created' = created
      /\ owed' = [r \in Requests |-> IF owed[r] > 0 THEN owed[r] - 1 ELSE 0]
  BY DEF WalFlush, registry
<1>2. owed' \in [Requests -> Nat]
  BY <1>1 DEF RegInv, RegistryTypeOK
<1>3. RequestType'
  BY <1>1, <1>2 DEF RegInv, RegistryTypeOK, RequestType
<1> QED BY <1>1, <1>3 DEF RegInv, RequestInv, SnapshotFresh, Resolved, ConflictsCounted

-----------------------------------------------------------------------------
LEMMA InitEstablishes == Init => RegInv
<1> SUFFICES ASSUME Init PROVE RegInv
  OBVIOUS
<1> USE DEF Init
<1>1. NoMap \in [Names -> Ids \cup {NoRepo}] /\ \A m \in Names : NoMap[m] = NoRepo
  BY DEF NoMap
<1>2. RegistryTypeOK
  <2>1. queue \in Seq([type : {"repo", "data"}, name : Names, id : Ids])
    OBVIOUS
  <2>2. durNext \in Ids /\ next \in Ids
    BY IdFacts DEF FirstRepoId
  <2>3. snapshot \in [Requests -> [map : [Names -> Ids \cup {NoRepo}], next : Ids]]
    BY NoSnapshotType
  <2>4. pc \in [Requests -> Running \cup Ended \cup {"idle"}] /\ id \in [Requests -> Ids \cup {NoRepo}]
    OBVIOUS
  <2>5. stale \in [Requests -> BOOLEAN] /\ attempts \in [Requests -> Nat] /\ owed \in [Requests -> Nat]
    OBVIOUS
  <2>6. durMap \in [Names -> Ids \cup {NoRepo}] /\ map \in [Names -> Ids \cup {NoRepo}]
    BY <1>1
  <2>7. durData \subseteq Ids \X Names /\ created \subseteq Requests /\ crashes \in Nat
    OBVIOUS
  <2> HIDE DEF Init
  <2> QED BY <2>1, <2>2, <2>3, <2>4, <2>5, <2>6, <2>7 DEF RegistryTypeOK
<1>3. Len(queue) = 0 /\ \A m \in Names, i \in Ids : ~Known(0, m, i)
  BY <1>1, IdFacts DEF Known, NoRepo
<1>4. \A i \in Ids : ~(i < FirstRepoId)
  BY IdFacts DEF FirstRepoId
<1>5. LogInv
  BY <1>1, <1>3, <1>4, IdFacts DEF LogInv, FilledAt, NoRepo
<1>6. NoSharedId /\ DataFollowsMap
  BY <1>1, <1>3 DEF NoSharedId, OneIdPerName, DataFollowsMap
<1>7. SnapshotFresh /\ Resolved
  BY DEF SnapshotFresh, Resolved
<1>8. ConflictsCounted
  <2>1. IsFiniteSet(created) /\ \A r : created \ {r} = {}
    BY FS_EmptySet
  <2>2. \A r \in Requests : Cardinality(created \ {r}) = 0
    BY <2>1, FS_EmptySet
  <2> QED BY <2>1, <2>2 DEF ConflictsCounted
<1> QED BY <1>2, <1>5, <1>6, <1>7, <1>8 DEF RegInv

\* What the parts of a step add up to.
LEMMA Together ==
    ASSUME LogInv', NoSharedId', DataFollowsMap', RequestType', RequestInv',
           durMap' \in [Names -> Ids \cup {NoRepo}], map' \in [Names -> Ids \cup {NoRepo}],
           durNext' \in Ids, next' \in Ids, durData' \subseteq Ids \X Names,
           queue' \in Seq(Writes), crashes' \in Nat
    PROVE  RegInv'
  BY DEF RegInv, RequestInv, RequestType, RegistryTypeOK, Writes

LEMMA StepPreserves == RegInv /\ [Next]_vars => RegInv'
<1> SUFFICES ASSUME RegInv, [Next]_vars PROVE RegInv'
  OBVIOUS
<1>1. /\ durMap \in [Names -> Ids \cup {NoRepo}] /\ map \in [Names -> Ids \cup {NoRepo}]
      /\ durNext \in Ids /\ next \in Ids /\ durData \subseteq Ids \X Names
      /\ queue \in Seq(Writes) /\ crashes \in Nat
  BY QueueType DEF RegInv, RegistryTypeOK
<1>2. CASE UNCHANGED vars
  <2>1. /\ UNCHANGED logVars /\ pc' = pc /\ snapshot' = snapshot /\ stale' = stale
        /\ attempts' = attempts /\ id' = id /\ owed' = owed /\ created' = created /\ crashes' = crashes
        /\ map' = map /\ next' = next
    BY <1>2 DEF vars, disk, registry, request, logVars
  <2>2. RequestType' /\ RequestInv'
    BY <2>1 DEF RegInv, RegistryTypeOK, RequestType, RequestInv, SnapshotFresh, Resolved, ConflictsCounted
  <2> QED BY <1>1, <2>1, <2>2, LogKept, Together DEF logVars
<1>3. ASSUME NEW r \in Requests, Arrive(r) \/ Resolve(r) \/ Use(r) \/ Fail(r)
      PROVE  RegInv'
  <2>1. CASE CommitCreate(r)
    <3>1. /\ durMap' = durMap /\ durNext' = durNext /\ durData' = durData /\ crashes' = crashes
          /\ map' = [map EXCEPT ![Name(r)] = id[r]] /\ queue' = Append(queue, MapWrite(Name(r), id[r]))
      BY <2>1 DEF CommitCreate, disk
    <3>2. id[r] \in Ids /\ next' \in Ids /\ Name(r) \in Names
      BY <1>1, <2>1, CommitLog, IdFacts
    <3>3. map' \in [Names -> Ids \cup {NoRepo}] /\ queue' \in Seq(Writes)
      BY <1>1, <3>1, <3>2 DEF MapWrite, Writes
    <3> QED BY <1>1, <2>1, <3>1, <3>2, <3>3, CommitLog, CommitKeeps, Together
  <2>2. CASE Use(r)
    <3>1. /\ durMap' = durMap /\ durNext' = durNext /\ durData' = durData /\ crashes' = crashes
          /\ map' = map /\ next' = next /\ queue' = Append(queue, DataWrite(id[r], Name(r)))
      BY <2>2 DEF Use, disk, registry
    <3>2. queue' \in Seq(Writes)
      BY <1>1, <2>2, <3>1, UseLog, IdFacts DEF DataWrite, Writes
    <3> QED BY <1>1, <2>2, <3>1, <3>2, UseLog, EndKeeps, Together
  <2>3. CASE Fail(r)
    <3>1. UNCHANGED logVars /\ crashes' = crashes
      BY <2>3 DEF Fail, logVars, disk, registry
    <3> QED BY <1>1, <2>3, <3>1, LogKept, EndKeeps, Together DEF logVars
  <2>4. CASE CreateConflict(r)
    BY <1>1, <2>4, LogKept, ConflictKeeps, Together DEF logVars
  <2>5. CASE \/ Arrive(r) \/ LookupFound(r) \/ LookupNone(r) \/ BeginTxn(r) \/ AlreadyCreated(r)
             \/ Allocate(r) \/ Created(r)
    <3>1. RequestType' /\ RequestInv' /\ UNCHANGED logVars /\ crashes' = crashes
      BY <2>5, ResolveKeeps
    <3> QED BY <1>1, <3>1, LogKept, Together DEF logVars
  <2> QED BY <1>3, <2>1, <2>2, <2>3, <2>4, <2>5 DEF Resolve
<1>4. CASE WalFlush
  <2>1. map' = map /\ next' = next /\ queue # <<>> /\ queue' = Tail(queue) /\ crashes' = crashes
    BY <1>4 DEF WalFlush, registry
  <2>2. queue' \in Seq(Writes)
    BY <1>1, <2>1
  <2> QED BY <1>1, <1>4, <2>1, <2>2, FlushLog, FlushKeeps, Together
<1>5. CASE Crash
  <2>1. /\ map' = durMap /\ next' = durNext /\ queue' = <<>> /\ crashes' = crashes + 1
        /\ durMap' = durMap /\ durNext' = durNext /\ durData' = durData
    BY <1>5 DEF Crash
  <2>2. queue' \in Seq(Writes) /\ crashes' \in Nat
    BY <1>1, <2>1
  <2> QED BY <1>1, <1>5, <2>1, <2>2, CrashLog, CrashKeeps, Together
<1> QED BY <1>2, <1>3, <1>4, <1>5 DEF Next

\* A mapping among the first n writes is what those writes leave: a name is
\* created once.
LEMMA KnownIsMapped ==
    ASSUME RegInv, NEW n \in 0..Len(queue), NEW m \in Names, NEW i \in Ids, Known(n, m, i)
    PROVE  MapAt(n)[m] = i
<1> DEFINE I == {j \in 1..n : queue[j].type = "repo" /\ queue[j].name = m}
<1>1. Len(queue) \in Nat /\ \A j \in 1..n : j \in 1..Len(queue) /\ queue[j].id \in Ids
  BY QueueType
<1>2. MapAt(n)[m] = IF I = {} THEN durMap[m] ELSE queue[CHOOSE j \in I : \A k \in I : k <= j].id
  BY DEF MapAt
<1>3. CASE I = {}
  BY <1>2, <1>3 DEF Known
<1>4. CASE I # {}
  <2>1. PICK j \in I : TRUE
    BY <1>4
  <2>2. \A k \in I : k = j
    <3> SUFFICES ASSUME NEW k \in I, k < j \/ j < k PROVE FALSE
      BY <1>1
    <3>1. CASE k < j
      <4>1. Known(j - 1, m, queue[k].id) /\ queue[k].id \in Ids
        BY <1>1, <3>1 DEF Known
      <4> QED BY <1>1, <4>1 DEF RegInv, LogInv
    <3>2. CASE j < k
      <4>1. Known(k - 1, m, queue[j].id) /\ queue[j].id \in Ids
        BY <1>1, <3>2 DEF Known
      <4> QED BY <1>1, <4>1 DEF RegInv, LogInv
    <3> QED BY <3>1, <3>2
  <2>3. (CHOOSE l \in I : \A k \in I : k <= l) = j
    BY <1>1, <2>2
  <2>4. MapAt(n)[m] = queue[j].id
    BY <1>2, <1>4, <2>3
  <2>5. durMap[m] # i
    <3>1. ~Known(j - 1, m, i)
      BY <1>1 DEF RegInv, LogInv
    <3> QED BY <3>1 DEF Known
  <2> QED BY <2>2, <2>4, <2>5 DEF Known
<1> QED BY <1>3, <1>4

LEMMA DataOwned == RegInv => DataHasOwner
<1> SUFFICES ASSUME RegInv, NEW n \in 0..Len(queue), NEW d \in DataAt(n)
             PROVE  MapAt(n)[d[2]] = d[1]
  BY DEF DataHasOwner
<1>1. Len(queue) \in Nat
  BY QueueType
<1>2. CASE d \in durData
  <2>1. d[1] \in Ids /\ d[2] \in Names /\ Known(n, d[2], d[1])
    BY <1>2 DEF RegInv, RegistryTypeOK, DataFollowsMap, Known
  <2> QED BY <2>1, KnownIsMapped
<1>3. CASE d \notin durData
  <2>1. PICK j \in 1..n : queue[j].type = "data" /\ d = <<queue[j].id, queue[j].name>>
    BY <1>3 DEF DataAt
  <2>2. j \in 1..Len(queue) /\ queue[j].id \in Ids /\ queue[j].name \in Names
    BY <1>1, QueueType
  <2>3. Known(j - 1, queue[j].name, queue[j].id)
    BY <2>1, <2>2 DEF RegInv, DataFollowsMap
  <2>4. Known(n, queue[j].name, queue[j].id)
    BY <1>1, <2>3 DEF Known
  <2> QED BY <2>1, <2>2, <2>4, KnownIsMapped
<1> QED BY <1>2, <1>3

LEMMA ContentionExplained == RegInv => ContentionNeedsCreators
<1> SUFFICES ASSUME RegInv, NEW r \in Requests, pc[r] = "contention"
             PROVE  Cardinality(created \ {r}) >= CreateAttempts
  BY DEF ContentionNeedsCreators
<1>1. Cardinality(created \ {r}) \in Nat /\ CreateAttempts \in Nat
  BY CreatorsGrow, RegistryAssumption DEF RegInv, ConflictsCounted
<1> QED BY <1>1 DEF RegInv, ConflictsCounted

\* The inductive invariant of the registry holds in every reachable state.
THEOREM RegistryInvariant == Spec => []RegInv
  BY InitEstablishes, StepPreserves, PTL DEF Spec

\* Every reachable state is well typed: in particular the id a request gets is
\* never RepoId::GLOBAL.
THEOREM RegistryTypeCorrect == Spec => []RegistryTypeOK
<1>1. RegInv => RegistryTypeOK
  BY DEF RegInv
<1> QED BY <1>1, RegistryInvariant, PTL

\* create_repo: however creators race and whatever crashes take back, no two
\* names ever have the same id.
THEOREM IdsAreNotShared == Spec => []OneIdPerName
<1>1. RegInv => OneIdPerName
  BY DEF RegInv, NoSharedId
<1> QED BY <1>1, RegistryInvariant, PTL

\* A request that resolved its repository holds the id its name has.
THEOREM RequestsUseTheirOwnId == Spec => []ResolvedIsMapped
<1>1. RegInv => ResolvedIsMapped
  BY DEF RegInv, Resolved, ResolvedIsMapped
<1> QED BY <1>1, RegistryInvariant, PTL

\* After any crash, what is found under an id was written for the name the id
\* is mapped to: an id handed out again holds nothing of its former owner.
THEOREM DataStaysWithItsOwner == Spec => []DataHasOwner
  BY DataOwned, RegistryInvariant, PTL

\* create_repo gives up on contention only after CREATE_ATTEMPTS creations by
\* other requests.
THEOREM ContentionIsEarned == Spec => []ContentionNeedsCreators
  BY ContentionExplained, RegistryInvariant, PTL
=============================================================================
