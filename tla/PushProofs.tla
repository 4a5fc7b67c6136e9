----------------------------- MODULE PushProofs -----------------------------
(***************************************************************************)
(* Pushes, proved for any objects, requests, refs and number of crashes.   *)
(* Whatever prefix of the submitted writes a crash leaves, and whatever a  *)
(* concurrent reader sees, every object has its children, every ref        *)
(* resolves and every offloaded blob has its body.  An `ok` that was       *)
(* reported cannot be undone, a ref moves only by the compare-and-swap of  *)
(* a command, a push that brings everything it names is never rejected,    *)
(* and what recovery finds is a history of whole pushes (module            *)
(* Repository).                                                            *)
(***************************************************************************)
EXTENDS WellTypedPush, InductionLemmas

-----------------------------------------------------------------------------
(* Type correctness *)

\* The links a visit follows are ids.
LEMMA LinksType ==
    ASSUME NEW p \in Pushes, NEW o \in Oid
    PROVE  /\ Links(p, o) \in Seq(Oid)
           /\ o \in Objects => Links(p, o) \in Seq(Objects)
  <1>1. Commands[p] \in Seq(Command)
    BY RequestAssumption
  <1>2. /\ Len(Commands[p]) \in Nat
        /\ DOMAIN Commands[p] = 1..Len(Commands[p])
        /\ \A i \in 1..Len(Commands[p]) : Commands[p][i] \in Command
    BY <1>1, LenProperties, ElementOfSeq
  <1>3. \A i \in 1..Len(Commands[p]) : Commands[p][i].new \in Oid
    BY <1>2 DEF Command
  <1>4. Tips(p) \in Seq(Oid)
    BY <1>2, <1>3 DEF Tips
  <1>5. o \in Objects => Children[o] \in Seq(Objects) /\ Children[o] \in Seq(Oid)
    BY ObjectAssumption, SeqMonotonic DEF Oid
  <1> QED BY <1>4, <1>5, NoneAssumption DEF Links, Oid

LEMMA OverlayType ==
    ASSUME NEW rs \in [Refs -> Oid], NEW e \in RefWrites
    PROVE  Overlay(rs, e) \in [Refs -> Oid]
  BY DEF Overlay, RefWrites

LEMMA InitType == Init => TypeOK
  <1> SUFFICES ASSUME Init PROVE TypeOK
    OBVIOUS
  <1>1. StoreType
    BY DEF Init, StoreType, NoRefs, Oid
  <1>2. PerPush
    BY DEF Init, PerPush, Running, Ended
  <1>3. ASSUME NEW p \in Pushes
        PROVE  WalkType(p) /\ PromoteType(p) /\ TxnType(p)
    BY DEF Init, WalkType, PromoteType, TxnType, NoRefs, Oid
  <1> QED BY <1>1, <1>2, <1>3 DEF TypeOK

\* A request's step is its own: it leaves the locals of the others alone,
\* except that a commit may make their snapshots stale.
Untouched(q) ==
    /\ pc'[q] = pc[q] /\ path'[q] = path[q] /\ at'[q] = at[q]
    /\ done'[q] = done[q] /\ order'[q] = order[q]
    /\ put'[q] = put[q] /\ cur'[q] = cur[q] /\ owed'[q] = owed[q]
    /\ attempt'[q] = attempt[q] /\ view'[q] = view[q]
    /\ wrote'[q] = wrote[q] /\ results'[q] = results[q]

LEMMA ReceivePackFrame ==
    ASSUME PerPush, NEW p \in Pushes, ReceivePack(p) \/ Fail(p)
    PROVE  /\ PerPush'
           /\ \A q \in Pushes \ {p} : Untouched(q)
  <1> USE DEF Goto, store, walk, promote, txn, Untouched, PerPush, Running, Ended
  <1>1. CASE Ingest(p)
    BY <1>1 DEF Ingest
  <1>2. CASE IngestRejected(p)
    BY <1>2 DEF IngestRejected
  <1>3. CASE Settled(p)
    BY <1>3 DEF Settled
  <1>4. CASE Descend(p)
    BY <1>4 DEF Descend
  <1>5. CASE Disconnected(p)
    BY <1>5 DEF Disconnected, Drop
  <1>6. CASE Emit(p)
    BY <1>6 DEF Emit
  <1>7. CASE Validated(p)
    BY <1>7 DEF Validated
  <1>8. CASE PutExisting(p)
    BY <1>8 DEF PutExisting
  <1>9. CASE PutAbsent(p)
    BY <1>9 DEF PutAbsent
  <1>10. CASE UploadBlob(p)
    BY <1>10 DEF UploadBlob
  <1>11. CASE PutRecord(p)
    BY <1>11 DEF PutRecord
  <1>12. CASE PutsDone(p)
    BY <1>12 DEF PutsDone
  <1>13. CASE StartFlush(p)
    BY <1>13 DEF StartFlush
  <1>14. CASE Flushed(p)
    BY <1>14 DEF Flushed
  <1>15. CASE BeginTxn(p)
    BY <1>15 DEF BeginTxn
  <1>16. CASE ApplyCommand(p)
    BY <1>16 DEF ApplyCommand
  <1>17. CASE Commit(p)
    BY <1>17 DEF Commit
  <1>18. CASE Retry(p)
    BY <1>18 DEF Retry
  <1>19. CASE GiveUp(p)
    BY <1>19 DEF GiveUp, Drop
  <1>20. CASE Report(p)
    BY <1>20 DEF Report, Drop
  <1>21. CASE Fail(p)
    BY <1>21 DEF Fail, Drop
  <1> QED
    BY <1>1, <1>2, <1>3, <1>4, <1>5, <1>6, <1>7, <1>8, <1>9, <1>10, <1>11,
       <1>12, <1>13, <1>14, <1>15, <1>16, <1>17, <1>18, <1>19, <1>20, <1>21
       DEF ReceivePack, Validate, Promote, UpdateRefs

\* What the traversal's operators return on a well-typed path.
LEMMA WalkOps ==
    ASSUME NEW p \in Pushes, WalkType(p), pc[p] = "validate"
    PROVE  /\ Top(p) \in Oid
           /\ Len(path[p]) \in 1..Len(path[p])
           /\ Len(path[p]) >= 2 => Top(p) \in Objects
           /\ at[p][Len(path[p])] \in Nat
           /\ Entering(p) => Entered(p) \in Oid
           /\ Advance(p) \in Seq(Nat)
           /\ Len(Advance(p)) = Len(path[p])
           /\ \A k \in 1..Len(path[p]) :
                 Advance(p)[k] = IF k = Len(path[p]) THEN at[p][k] + 1 ELSE at[p][k]
  <1>1. /\ path[p] \in Seq(Oid) /\ at[p] \in Seq(Nat)
        /\ Len(at[p]) = Len(path[p]) /\ Len(path[p]) \in Nat
        /\ Len(path[p]) \in 1..Len(path[p])
    BY DEF WalkType
  <1>2. Top(p) \in Oid /\ at[p][Len(path[p])] \in Nat
    BY <1>1, ElementOfSeq DEF Top
  <1>3. Len(path[p]) >= 2 => Top(p) \in Objects
    BY <1>1 DEF WalkType, Top
  <1>4. Entering(p) => Entered(p) \in Oid
    <2>1. Links(p, Top(p)) \in Seq(Oid)
      BY <1>2, LinksType
    <2> QED BY <1>2, <2>1, ElementOfSeq, LenProperties DEF Entering, Entered
  <1>5. at[p][Len(path[p])] + 1 \in Nat
    BY <1>2
  <1>6. /\ Advance(p) \in Seq(Nat)
        /\ Len(Advance(p)) = Len(path[p])
        /\ \A k \in 1..Len(path[p]) :
              Advance(p)[k] = IF k = Len(path[p]) THEN at[p][k] + 1 ELSE at[p][k]
    BY <1>1, <1>5, ExceptSeq DEF Advance
  <1> QED BY <1>1, <1>2, <1>3, <1>4, <1>6

LEMMA ValidateType ==
    ASSUME PerPush, NEW p \in Pushes, WalkType(p), Validate(p)
    PROVE  WalkType(p)'
  <1>0. pc[p] = "validate"
    BY DEF Validate, Settled, Descend, Disconnected, Emit, Validated
  <1>1. CASE Settled(p)
    <2>1. /\ path'[p] = path[p] /\ at'[p] = Advance(p) /\ order'[p] = order[p]
          /\ pc'[p] = pc[p] /\ done'[p] = done[p] \cup {Entered(p)}
          /\ Entering(p)
      BY <1>1 DEF Settled, PerPush
    <2> QED BY <1>0, <2>1, WalkOps DEF WalkType
  <1>2. CASE Descend(p)
    <2>1. /\ path'[p] = Append(path[p], Entered(p))
          /\ at'[p] = Append(Advance(p), 0)
          /\ order'[p] = order[p]
          /\ pc'[p] = pc[p] /\ done'[p] = done[p] \cup {Entered(p)}
          /\ Entering(p) /\ Entered(p) \in Objects
      BY <1>2, RequestAssumption DEF Descend, PerPush, Staged
    <2>2. /\ path'[p] \in Seq(Oid)
          /\ Len(path'[p]) = Len(path[p]) + 1
          /\ \A k \in 1..Len(path[p]) : path'[p][k] = path[p][k]
          /\ path'[p][Len(path[p]) + 1] = Entered(p)
      <3>1. path[p] \in Seq(Oid) /\ Entered(p) \in Oid
        BY <2>1 DEF WalkType, Oid
      <3> QED BY <2>1, <3>1, AppendProperties
    <2>3. at'[p] \in Seq(Nat) /\ Len(at'[p]) = Len(path[p]) + 1
      <3>1. Advance(p) \in Seq(Nat) /\ Len(Advance(p)) = Len(path[p])
        BY <1>0, WalkOps
      <3> QED BY <2>1, <3>1
    <2>4. \A k \in 2..Len(path'[p]) : path'[p][k] \in Objects
      BY <1>0, <2>1, <2>2, WalkOps DEF WalkType
    <2> QED BY <1>0, <2>1, <2>2, <2>3, <2>4, WalkOps DEF WalkType
  <1>3. CASE Disconnected(p)
    BY <1>3 DEF Disconnected, Drop, Goto, PerPush, WalkType
  <1>4. CASE Emit(p)
    <2>1. /\ path'[p] = SubSeq(path[p], 1, Len(path[p]) - 1)
          /\ at'[p] = SubSeq(at[p], 1, Len(at[p]) - 1)
          /\ order'[p] = Append(order[p], Top(p))
          /\ pc'[p] = pc[p] /\ done'[p] = done[p]
          /\ Len(path[p]) > 1
      BY <1>4 DEF Emit, PerPush
    <2>2. order'[p] \in Seq(Objects)
      BY <1>0, <2>1, WalkOps DEF WalkType
    <2>3. /\ Len(path[p]) \in Nat
          /\ \A k \in 1..Len(path[p]) - 1 : path[p][k] \in Oid
          /\ \A k \in 1..Len(at[p]) - 1 : at[p][k] \in Nat
      BY ElementOfSeq DEF WalkType
    <2>4. /\ path'[p] \in Seq(Oid) /\ Len(path'[p]) = Len(path[p]) - 1
          /\ \A k \in 1..Len(path[p]) - 1 : path'[p][k] = path[p][k]
      BY <2>1, <2>3, SubSeqProperties DEF WalkType
    <2>5. at'[p] \in Seq(Nat) /\ Len(at'[p]) = Len(at[p]) - 1
      BY <2>1, <2>3, SubSeqProperties DEF WalkType
    <2>6. \A k \in 2..Len(path'[p]) : path'[p][k] \in Objects
      <3>1. \A k \in 2..Len(path'[p]) : k \in 2..Len(path[p]) /\ k \in 1..Len(path[p]) - 1
        BY <2>3, <2>4
      <3> QED BY <2>4, <3>1 DEF WalkType
    <2>7. Len(at'[p]) = Len(path'[p]) /\ Len(path'[p]) >= 1
      BY <2>1, <2>3, <2>4, <2>5 DEF WalkType
    <2> QED BY <2>1, <2>2, <2>4, <2>5, <2>6, <2>7 DEF WalkType
  <1>5. CASE Validated(p)
    BY <1>5 DEF Validated, Goto, PerPush, WalkType
  <1> QED BY <1>1, <1>2, <1>3, <1>4, <1>5 DEF Validate

\* The locals of a request after its own step.
LEMMA RequestType ==
    ASSUME TypeOK, NEW p \in Pushes, ReceivePack(p) \/ Fail(p)
    PROVE  WalkType(p)' /\ PromoteType(p)' /\ TxnType(p)'
  <1>0. /\ PerPush /\ WalkType(p) /\ PromoteType(p) /\ TxnType(p)
        /\ visRefs \in [Refs -> Oid] /\ queue \in Seq(ObjectWrites \cup RefWrites)
    BY DEF TypeOK, StoreType
  <1>00. Len(queue) \in Nat
    BY <1>0
  <1> USE DEF Goto, store, walk, promote, txn, PerPush
  <1>1. CASE Drop({p}) /\ pc'[p] \in Ended /\ (UNCHANGED results \/ GiveUp(p))
    <2>1. results'[p] \in Seq(Outcomes)
      <3>1. CASE UNCHANGED results
        BY <1>0, <3>1 DEF TxnType
      <3>2. CASE GiveUp(p)
        <4>1. Commands[p] \in Seq(Command)
          BY RequestAssumption
        <4>2. DOMAIN Commands[p] = 1..Len(Commands[p]) /\ Len(Commands[p]) \in Nat
          BY <4>1, LenProperties
        <4>3. results'[p] = [i \in 1..Len(Commands[p]) |-> "conflict"]
          BY <1>0, <3>2, <4>2 DEF GiveUp
        <4> QED BY <4>2, <4>3 DEF Outcomes
      <3> QED BY <1>1, <3>1, <3>2
    <2> QED BY <1>0, <1>1, <2>1 DEF Drop, WalkType, PromoteType, TxnType, NoRefs, Oid, Ended
  <1>2. CASE Settled(p) \/ Descend(p) \/ Emit(p) \/ Validated(p)
    <2>1. WalkType(p)'
      BY <1>0, <1>2, ValidateType DEF Validate
    <2>2. TxnType(p)'
      BY <1>0, <1>2 DEF Settled, Descend, Emit, Validated, TxnType
    <2>3. /\ put'[p] = put[p] /\ cur'[p] = cur[p] /\ owed'[p] = owed[p]
          /\ pc'[p] \in {"validate", "write"}
      BY <1>0, <1>2 DEF Settled, Descend, Emit, Validated
    <2>4. \/ order'[p] = order[p]
          \/ order'[p] = Append(order[p], Top(p)) /\ Top(p) \in Objects
      BY <1>0, <1>2, WalkOps DEF Settled, Descend, Emit, Validated
    <2>5. DOMAIN order[p] \subseteq DOMAIN order'[p]
      BY <1>0, <2>4 DEF WalkType
    <2> QED BY <1>0, <2>1, <2>2, <2>3, <2>5 DEF PromoteType
  <1>3. CASE Ingest(p)
    BY <1>0, <1>3 DEF Ingest, WalkType, PromoteType, TxnType, Oid
  <1>4. CASE IngestRejected(p)
    BY <1>0, <1>4 DEF IngestRejected, WalkType, PromoteType, TxnType
  <1>5. CASE PutExisting(p)
    BY <1>0, <1>5 DEF PutExisting, WalkType, PromoteType, TxnType
  <1>6. CASE PutAbsent(p)
    BY <1>0, <1>6 DEF PutAbsent, WalkType, PromoteType, TxnType
  <1>7. CASE UploadBlob(p)
    BY <1>0, <1>7 DEF UploadBlob, WalkType, PromoteType, TxnType
  <1>8. CASE PutRecord(p)
    BY <1>0, <1>8 DEF PutRecord, WalkType, PromoteType, TxnType
  <1>9. CASE PutsDone(p)
    BY <1>0, <1>9 DEF PutsDone, WalkType, PromoteType, TxnType
  <1>10. CASE StartFlush(p)
    BY <1>0, <1>00, <1>10 DEF StartFlush, WalkType, PromoteType, TxnType
  <1>11. CASE Flushed(p)
    BY <1>0, <1>11 DEF Flushed, WalkType, PromoteType, TxnType
  <1>12. CASE BeginTxn(p)
    BY <1>0, <1>12 DEF BeginTxn, WalkType, PromoteType, TxnType
  <1>13. CASE ApplyCommand(p)
    <2>1. WalkType(p)' /\ PromoteType(p)'
      BY <1>0, <1>13 DEF ApplyCommand, WalkType, PromoteType
    <2>2. NextCommand(p) \in Command
      BY <1>0, <1>13, RequestAssumption DEF NextCommand, ApplyCommand, TxnType
    <2>3. NextCommand(p).ref \in Refs /\ NextCommand(p).new \in Oid
      BY <2>2 DEF Command
    <2>4. Outcome(p, NextCommand(p)) \in Outcomes
      BY DEF Outcome, Outcomes
    <2>5. results'[p] \in Seq(Outcomes)
      BY <1>0, <1>13, <2>4 DEF ApplyCommand, TxnType
    <2>6. view'[p] \in [Refs -> Oid] /\ wrote'[p] \subseteq Refs
      <3>1. CASE Outcome(p, NextCommand(p)) = "ok"
        <4>1. /\ view'[p] = [view[p] EXCEPT ![NextCommand(p).ref] = NextCommand(p).new]
              /\ wrote'[p] = wrote[p] \cup {NextCommand(p).ref}
          BY <1>0, <1>13, <3>1 DEF ApplyCommand
        <4> QED BY <1>0, <2>3, <4>1 DEF TxnType
      <3>2. CASE Outcome(p, NextCommand(p)) # "ok"
        BY <1>0, <1>13, <3>2 DEF ApplyCommand, TxnType
      <3> QED BY <3>1, <3>2
    <2> QED BY <1>0, <1>13, <2>1, <2>5, <2>6 DEF ApplyCommand, TxnType
  <1>14. CASE Commit(p)
    BY <1>0, <1>00, <1>14 DEF Commit, WalkType, PromoteType, TxnType
  <1>15. CASE Retry(p)
    BY <1>0, <1>15 DEF Retry, WalkType, PromoteType, TxnType
  <1>16. Disconnected(p) \/ GiveUp(p) \/ Report(p) \/ Fail(p)
            => Drop({p}) /\ pc'[p] \in Ended /\ (UNCHANGED results \/ GiveUp(p))
    BY <1>0 DEF Disconnected, GiveUp, Report, Fail, Ended
  <1> QED
    BY <1>1, <1>2, <1>3, <1>4, <1>5, <1>6, <1>7, <1>8, <1>9, <1>10, <1>11, <1>12,
       <1>13, <1>14, <1>15, <1>16 DEF ReceivePack, Validate, Promote, UpdateRefs

\* A commit is the only step of another request that reaches into q's locals.
LEMMA OtherType ==
    ASSUME TypeOK, NEW p \in Pushes, ReceivePack(p) \/ Fail(p), NEW q \in Pushes \ {p}
    PROVE  WalkType(q)' /\ PromoteType(q)' /\ TxnType(q)'
  <1>1. PerPush /\ WalkType(p) /\ WalkType(q) /\ PromoteType(q) /\ TxnType(q) /\ TxnType(p)
    BY DEF TypeOK
  <1>2. Untouched(q)
    BY <1>1, ReceivePackFrame
  <1>3. stale'[q] \subseteq Refs
    <2>1. CASE Drop({p})
      BY <1>1, <2>1 DEF Drop, TxnType
    <2>2. CASE BeginTxn(p)
      BY <1>1, <2>2 DEF BeginTxn, TxnType, PerPush
    <2>3. CASE Commit(p)
      BY <1>1, <2>3 DEF Commit, TxnType
    <2>4. CASE UNCHANGED stale
      BY <1>1, <2>4 DEF TxnType
    <2>5. Ingest(p) \/ IngestRejected(p) \/ Validate(p) => UNCHANGED stale \/ Drop({p})
      BY DEF Ingest, IngestRejected, Validate, Settled, Descend, Disconnected, Emit,
             Validated, txn
    <2>6. Promote(p) => UNCHANGED stale
      BY DEF Promote, PutExisting, PutAbsent, UploadBlob, PutRecord, PutsDone,
             StartFlush, Flushed, txn
    <2>7. UpdateRefs(p) => UNCHANGED stale \/ Drop({p}) \/ BeginTxn(p) \/ Commit(p)
      BY DEF UpdateRefs, ApplyCommand, Retry, GiveUp, Report, txn
    <2>8. Fail(p) => Drop({p})
      BY DEF Fail
    <2> QED BY <2>1, <2>2, <2>3, <2>4, <2>5, <2>6, <2>7, <2>8 DEF ReceivePack
  <1> QED BY <1>1, <1>2, <1>3 DEF Untouched, WalkType, PromoteType, TxnType

LEMMA StoreTypeStep ==
    ASSUME TypeOK, [Next]_vars
    PROVE  StoreType'
  <1>0. StoreType /\ PerPush /\ \A p \in Pushes : WalkType(p) /\ PromoteType(p) /\ TxnType(p)
    BY DEF TypeOK
  <1>1. CASE UNCHANGED store
    BY <1>0, <1>1 DEF store, StoreType
  <1>2. ASSUME NEW p \in Pushes, UploadBlob(p)
        PROVE  StoreType'
    <2>1. order[p][cur[p]] \in Objects
      BY <1>0, <1>2 DEF UploadBlob, WalkType, PromoteType
    <2> QED BY <1>0, <1>2, <2>1 DEF UploadBlob, StoreType
  <1>3. ASSUME NEW p \in Pushes, PutRecord(p)
        PROVE  StoreType'
    <2>1. order[p][cur[p]] \in Objects
      BY <1>0, <1>3 DEF PutRecord, WalkType, PromoteType
    <2>2. ObjectWrite(order[p][cur[p]]) \in ObjectWrites \cup RefWrites
      BY <2>1 DEF ObjectWrite, ObjectWrites
    <2>3. queue' \in Seq(ObjectWrites \cup RefWrites)
      BY <1>0, <1>3, <2>2 DEF PutRecord, StoreType
    <2> QED BY <1>0, <1>3, <2>1, <2>3 DEF PutRecord, StoreType
  <1>4. ASSUME NEW p \in Pushes, Commit(p)
        PROVE  StoreType'
    <2> DEFINE e == RefWrite(p, view[p], wrote[p])
    <2>1. e \in RefWrites
      BY <1>0 DEF RefWrite, RefWrites, TxnType
    <2>2. queue' \in Seq(ObjectWrites \cup RefWrites)
      BY <1>0, <1>4, <2>1 DEF Commit, StoreType
    <2>3. Overlay(visRefs, e) \in [Refs -> Oid]
      BY <1>0, <2>1, OverlayType DEF StoreType
    <2> QED BY <1>0, <1>4, <2>2, <2>3 DEF Commit, StoreType
  <1>5. CASE WalFlush
    <2>1. /\ Head(queue) \in ObjectWrites \cup RefWrites
          /\ queue' \in Seq(ObjectWrites \cup RefWrites)
      BY <1>0, <1>5, HeadTailProperties DEF WalFlush, StoreType
    <2>2. CASE Head(queue).type = "object"
      <3>1. Head(queue).oid \in Objects
        BY <2>1, <2>2 DEF ObjectWrites, RefWrites
      <3> QED BY <1>0, <1>5, <2>1, <2>2, <3>1 DEF WalFlush, StoreType
    <2>3. CASE Head(queue).type # "object"
      <3>1. Head(queue) \in RefWrites /\ Head(queue).by \in Pushes
        BY <2>1, <2>3 DEF ObjectWrites, RefWrites
      <3>2. Overlay(durRefs, Head(queue)) \in [Refs -> Oid]
        BY <1>0, <3>1, OverlayType DEF StoreType
      <3> QED BY <1>0, <1>5, <2>1, <2>3, <3>1, <3>2 DEF WalFlush, StoreType
    <2> QED BY <2>2, <2>3
  <1>6. CASE Crash
    BY <1>0, <1>6 DEF Crash, StoreType
  <1>7. ASSUME NEW p \in Pushes, ReceivePack(p) \/ Fail(p)
        PROVE  StoreType'
    <2>1. CASE Ingest(p) \/ IngestRejected(p) \/ Fail(p)
      BY <1>1, <2>1 DEF Ingest, IngestRejected, Fail
    <2>2. CASE Validate(p)
      BY <1>1, <2>2 DEF Validate, Settled, Descend, Disconnected, Emit, Validated
    <2>3. CASE Promote(p)
      BY <1>1, <1>2, <1>3, <2>3
         DEF Promote, PutExisting, PutAbsent, PutsDone, StartFlush, Flushed
    <2>4. CASE UpdateRefs(p)
      BY <1>1, <1>4, <2>4 DEF UpdateRefs, BeginTxn, ApplyCommand, Retry, GiveUp, Report
    <2> QED BY <1>7, <2>1, <2>2, <2>3, <2>4 DEF ReceivePack
  <1>8. CASE UNCHANGED vars
    BY <1>1, <1>8 DEF vars
  <1> QED BY <1>5, <1>6, <1>7, <1>8 DEF Next

LEMMA TypeStep == TypeOK /\ [Next]_vars => TypeOK'
  <1> SUFFICES ASSUME TypeOK, [Next]_vars PROVE TypeOK'
    OBVIOUS
  <1>0. StoreType'
    BY StoreTypeStep
  <1>1. ASSUME NEW p \in Pushes, ReceivePack(p) \/ Fail(p)
        PROVE  TypeOK'
    <2>1. PerPush'
      BY <1>1, ReceivePackFrame DEF TypeOK
    <2>2. \A q \in Pushes : WalkType(q)' /\ PromoteType(q)' /\ TxnType(q)'
      BY <1>1, RequestType, OtherType
    <2> QED BY <1>0, <2>1, <2>2 DEF TypeOK
  <1>2. CASE WalFlush
    <2>1. PerPush'
      BY <1>2 DEF TypeOK, PerPush, WalFlush, walk, promote, txn
    <2>2. ASSUME NEW q \in Pushes
          PROVE  WalkType(q)' /\ PromoteType(q)' /\ TxnType(q)'
      BY <1>2 DEF TypeOK, WalFlush, walk, promote, txn, WalkType, PromoteType, TxnType
    <2> QED BY <1>0, <2>1, <2>2 DEF TypeOK
  <1>3. CASE Crash
    <2>1. PerPush'
      BY <1>3 DEF TypeOK, PerPush, Crash, Drop, Ended
    <2>2. ASSUME NEW q \in Pushes
          PROVE  WalkType(q)' /\ PromoteType(q)' /\ TxnType(q)'
      <3>1. pc[q] \in Running \cup Ended \cup {"idle"} /\ results' = results
        BY <1>3 DEF TypeOK, PerPush, Crash
      <3>2. CASE pc[q] \in Running
        BY <1>3, <3>1, <3>2
           DEF TypeOK, Crash, Drop, WalkType, PromoteType, TxnType, NoRefs, Oid
      <3>3. CASE pc[q] \notin Running
        BY <1>3, <3>1, <3>3 DEF TypeOK, Crash, Drop, WalkType, PromoteType, TxnType
      <3> QED BY <3>2, <3>3
    <2> QED BY <1>0, <2>1, <2>2 DEF TypeOK
  <1>4. CASE UNCHANGED vars
    BY <1>0, <1>4
       DEF TypeOK, PerPush, WalkType, PromoteType, TxnType, vars, walk, promote, txn
  <1> QED BY <1>1, <1>2, <1>3, <1>4 DEF Next

\* Every request and the storage keep their types: the traversal's two stacks
\* stay aligned, ObjectDb::put only works on an object of the plan, and what
\* is queued for the WAL is an object record or a ref write set.
THEOREM TypeCorrect == Spec => []TypeOK
  <1>1. Init => TypeOK
    BY InitType
  <1>2. TypeOK /\ [Next]_vars => TypeOK'
    BY TypeStep
  <1> QED BY <1>1, <1>2, PTL DEF Spec

-----------------------------------------------------------------------------
(* The inductive invariant *)

\* x needs no further attention: it has a record or is planned.
Placed(p, x) ==
    \/ x \in visObjs
    \/ \E i \in DOMAIN order[p] : order[p][i] = x

\* Every child of a planned object has a record or is planned earlier.
PostOrdered(p) ==
    \A i \in DOMAIN order[p] : \A c \in Kids(order[p][i]) :
        \/ c \in visObjs
        \/ \E j \in 1..(i - 1) : order[p][j] = c

\* The traversal: the path descends along links, so it cannot meet itself; an
\* object that was entered is placed or being visited, and one entered from
\* path[k] that is not placed is being visited above k.
Descending(p) ==
    /\ path[p][1] = None
    /\ \A k, m \in 2..Len(path[p]) : k < m => Depth[path[p][m]] < Depth[path[p][k]]

\* x is the root's None, placed, or being visited above k.
Known(p, x, k) ==
    \/ x = None
    \/ Placed(p, x)
    \/ \E m \in (k + 1)..Len(path[p]) : path[p][m] = x

EnteredKnown(p, k) ==
    /\ at[p][k] <= Len(Links(p, path[p][k]))
    /\ \A i \in 1..at[p][k] : Known(p, Links(p, path[p][k])[i], k)

WalkInv(p) ==
    /\ Descending(p)
    /\ \A x \in done[p] : Known(p, x, 1)
    /\ \A k \in 1..Len(path[p]) : EnteredKnown(p, k)
    /\ PostOrdered(p)

\* The plan: what was put has a record, and the object being put is the next
\* one of the grouped order.
PlanInv(p) ==
    /\ PostOrdered(p)
    /\ \A i \in put[p] : order[p][i] \in visObjs
    /\ \A i \in DOMAIN Commands[p] :
          Commands[p][i].new = None \/ Placed(p, Commands[p][i].new)
    /\ pc[p] \in {"upload", "record"} => NextPut(p, cur[p])
    /\ pc[p] = "record" /\ order[p][cur[p]] \in Offloaded => order[p][cur[p]] \in blobs

TipsVisible(p) ==
    \A i \in DOMAIN Commands[p] : Commands[p][i].new \in visObjs \cup {None}

ViewResolves(p) == \A r \in Refs : view[p][r] \in visObjs \cup {None}

RequestInv(p) ==
    /\ pc[p] = "idle" => order[p] = <<>>
    /\ pc[p] \in {"idle", "validate"} => put[p] = {}
    /\ pc[p] = "validate" => WalkInv(p)
    /\ pc[p] \in {"write", "upload", "record"} => PlanInv(p)
    /\ pc[p] \in {"graph", "barrier", "begin", "apply", "await"} => TipsVisible(p)
    /\ pc[p] = "apply" => ViewResolves(p)

\* A reader sees exactly the durable records and the queued ones.
VisibleIsQueued == visObjs = RecoveredObjs(Len(queue))

RefsResolve == \A r \in Refs : visRefs[r] \in visObjs \cup {None}

SafetyInv ==
    /\ VisibleIsQueued
    /\ EveryPrefixClosed
    /\ EveryPrefixResolves
    /\ RefsResolve
    /\ PointersBacked
    /\ \A p \in Pushes : RequestInv(p)

-----------------------------------------------------------------------------
(* What a crash leaves, as the queue grows and drains *)

LEMMA RecoveredMonotonic ==
    ASSUME NEW objs, NEW q, NEW m \in Nat, NEW n \in Nat, m <= n
    PROVE  Recovered(objs, q, m) \subseteq Recovered(objs, q, n)
  BY DEF Recovered

LEMMA RecoveredNone ==
    ASSUME NEW objs, NEW q
    PROVE  Recovered(objs, q, 0) = objs
  BY DEF Recovered

LEMMA RecoveredAppend ==
    ASSUME NEW S, NEW objs, NEW q \in Seq(S), NEW e \in S
    PROVE  /\ \A n \in 0..Len(q) : Recovered(objs, Append(q, e), n) = Recovered(objs, q, n)
           /\ \A o \in Objects : e = ObjectWrite(o) =>
                 Recovered(objs, Append(q, e), Len(q) + 1) = Recovered(objs, q, Len(q)) \cup {o}
           /\ e.type # "object" =>
                 Recovered(objs, Append(q, e), Len(q) + 1) = Recovered(objs, q, Len(q))
  <1> DEFINE a == Append(q, e)
  <1>1. /\ Len(q) \in Nat
        /\ Len(a) = Len(q) + 1
        /\ \A i \in 1..Len(q) : a[i] = q[i]
        /\ a[Len(q) + 1] = e
    BY AppendProperties
  <1> HIDE DEF a
  <1>2. \A n \in 0..Len(q) : Recovered(objs, a, n) = Recovered(objs, q, n)
    BY <1>1 DEF Recovered
  <1>3. Recovered(objs, a, Len(q) + 1)
          = Recovered(objs, q, Len(q)) \cup {o \in Objects : e = ObjectWrite(o)}
    BY <1>1 DEF Recovered
  <1>4. ASSUME NEW o \in Objects, e = ObjectWrite(o)
        PROVE  {x \in Objects : e = ObjectWrite(x)} = {o}
    BY <1>4 DEF ObjectWrite
  <1>5. ASSUME e.type # "object"
        PROVE  {x \in Objects : e = ObjectWrite(x)} = {}
    BY <1>5 DEF ObjectWrite
  <1> QED BY <1>2, <1>3, <1>4, <1>5 DEF a

-----------------------------------------------------------------------------
(* The store's part of the invariant *)

StoreInv ==
    /\ VisibleIsQueued
    /\ EveryPrefixClosed
    /\ EveryPrefixResolves
    /\ RefsResolve
    /\ PointersBacked

\* The object ObjectDb::put is about to record has all its children recorded:
\* kinds never decrease along a link, so each of them comes earlier in the
\* grouped order.
LEMMA ChildrenFirst ==
    ASSUME TypeOK, NEW p \in Pushes, pc[p] \in {"upload", "record"}, PlanInv(p)
    PROVE  /\ order[p][cur[p]] \in Objects
           /\ Kids(order[p][cur[p]]) \subseteq visObjs
  <1>1. /\ cur[p] \in DOMAIN order[p] /\ order[p] \in Seq(Objects)
    BY DEF TypeOK, WalkType, PromoteType
  <1>2. order[p][cur[p]] \in Objects /\ DOMAIN order[p] = 1..Len(order[p]) /\ Len(order[p]) \in Nat
    BY <1>1
  <1>3. ASSUME NEW c \in Kids(order[p][cur[p]])
        PROVE  c \in visObjs
    <2>1. \/ c \in visObjs
          \/ \E j \in 1..(cur[p] - 1) : order[p][j] = c
      BY <1>1, <1>3 DEF PlanInv, PostOrdered
    <2>2. ASSUME NEW j \in 1..(cur[p] - 1), order[p][j] = c
          PROVE  c \in visObjs
      <3>1. j \in DOMAIN order[p] /\ j < cur[p]
        BY <1>1, <1>2, <2>2
      <3>2. KindOrder[Kind[c]] <= KindOrder[Kind[order[p][cur[p]]]]
        BY <1>2, <1>3, WellTypedAssumption
      <3>3. \A o \in Objects : KindOrder[Kind[o]] \in Nat
        BY ObjectAssumption DEF KindOrder
      <3>4. c \in Objects
        BY <1>1, <2>2, <3>1
      <3>5. WrittenBefore(p, j, cur[p])
        BY <1>2, <2>2, <3>1, <3>2, <3>3, <3>4 DEF WrittenBefore
      <3>6. j \in put[p]
        BY <3>1, <3>5 DEF PlanInv, NextPut
      <3> QED BY <2>2, <3>6 DEF PlanInv
    <2> QED BY <2>1, <2>2
  <1> QED BY <1>2, <1>3

\* Appending an entry whose objects are closed over the visible ones, and
\* whose ref targets are visible, keeps every prefix recoverable.
LEMMA AppendKeepsPrefixes ==
    ASSUME StoreInv, NEW E, queue \in Seq(E), NEW e \in E, NEW new,
           queue' = Append(queue, e), UNCHANGED <<durObjs, durRefs>>,
           visObjs' = visObjs \cup new,
           Closed(visObjs \cup new),
           \/ \E o \in Objects : e = ObjectWrite(o) /\ new = {o}
           \/ /\ e.type = "refs" /\ new = {}
              /\ \A r \in e.names : e.target[r] \in visObjs \cup {None}
    PROVE  VisibleIsQueued' /\ EveryPrefixClosed' /\ EveryPrefixResolves'
  <1>1. /\ Len(queue) \in Nat /\ Len(queue') = Len(queue) + 1
        /\ \A i \in 1..Len(queue) : queue'[i] = queue[i]
        /\ queue'[Len(queue) + 1] = e
    BY AppendProperties
  <1>2. visObjs = Recovered(durObjs, queue, Len(queue))
    BY DEF StoreInv, VisibleIsQueued, RecoveredObjs
  <1>3. \A n \in 0..Len(queue) : Recovered(durObjs', queue', n) = Recovered(durObjs, queue, n)
    BY <1>1 DEF Recovered
  <1>4. Recovered(durObjs', queue', Len(queue) + 1) = visObjs \cup new
    <2>1. ASSUME NEW o \in Objects, e = ObjectWrite(o), new = {o}
          PROVE  Recovered(durObjs', queue', Len(queue) + 1) = visObjs \cup new
      BY <1>2, <2>1, RecoveredAppend
    <2>2. ASSUME e.type = "refs", new = {}
          PROVE  Recovered(durObjs', queue', Len(queue) + 1) = visObjs \cup new
      BY <1>2, <2>2, RecoveredAppend
    <2> QED BY <2>1, <2>2
  <1>5. VisibleIsQueued'
    BY <1>1, <1>4 DEF VisibleIsQueued, RecoveredObjs
  <1>6. EveryPrefixClosed'
    <2>1. ASSUME NEW n \in 0..(Len(queue) + 1)
          PROVE  Closed(Recovered(durObjs', queue', n))
      <3>1. CASE n \in 0..Len(queue)
        BY <1>3, <3>1 DEF StoreInv, EveryPrefixClosed, RecoveredObjs
      <3>2. CASE n = Len(queue) + 1
        BY <1>4, <3>2
      <3> QED BY <1>1, <3>1, <3>2
    <2> QED BY <1>1, <2>1 DEF EveryPrefixClosed, Closed, RecoveredObjs
  <1>7. EveryPrefixResolves'
    <2>1. ASSUME NEW n \in 1..(Len(queue) + 1), queue'[n].type = "refs", NEW r \in queue'[n].names
          PROVE  queue'[n].target[r] \in Recovered(durObjs', queue', n - 1) \cup {None}
      <3>1. CASE n \in 1..Len(queue)
        <4>1. queue'[n] = queue[n] /\ n - 1 \in 0..Len(queue)
          BY <1>1, <3>1
        <4> QED BY <1>3, <2>1, <3>1, <4>1 DEF StoreInv, EveryPrefixResolves, RecoveredObjs
      <3>2. CASE n = Len(queue) + 1
        <4>1. queue'[n] = e /\ n - 1 = Len(queue) /\ n - 1 \in 0..Len(queue)
          BY <1>1, <3>2
        <4>2. Recovered(durObjs', queue', n - 1) = visObjs
          BY <1>2, <1>3, <4>1
        <4>3. e.type = "refs"
          BY <2>1, <4>1
        <4>4. \A o \in Objects : e # ObjectWrite(o)
          BY <4>3 DEF ObjectWrite
        <4> QED BY <2>1, <4>1, <4>2, <4>4
      <3> QED BY <1>1, <3>1, <3>2
    <2> QED BY <1>1, <2>1 DEF StoreInv, EveryPrefixResolves, RecoveredObjs
  <1> QED BY <1>5, <1>6, <1>7

LEMMA PutRecordStore ==
    ASSUME TypeOK, StoreInv, NEW p \in Pushes, PutRecord(p), PlanInv(p)
    PROVE  StoreInv'
  <1> DEFINE o == order[p][cur[p]]
             e == ObjectWrite(o)
             E == ObjectWrites \cup RefWrites
  <1>1. /\ pc[p] = "record" /\ queue' = Append(queue, e)
        /\ visObjs' = visObjs \cup {o}
        /\ UNCHANGED <<durObjs, durRefs, visRefs, blobs>>
    BY DEF PutRecord
  <1>2. o \in Objects /\ Kids(o) \subseteq visObjs
    BY <1>1, ChildrenFirst
  <1>3. queue \in Seq(E) /\ e \in E
    BY <1>2 DEF TypeOK, StoreType, ObjectWrite, ObjectWrites
  <1>4. Closed(visObjs \cup {o})
    <2>1. visObjs = RecoveredObjs(Len(queue)) /\ Len(queue) \in 0..Len(queue)
      BY <1>3 DEF StoreInv, VisibleIsQueued
    <2>2. Closed(visObjs)
      BY <2>1 DEF StoreInv, EveryPrefixClosed
    <2> QED BY <1>2, <2>2 DEF Closed
  <1>5. VisibleIsQueued' /\ EveryPrefixClosed' /\ EveryPrefixResolves'
    <2> HIDE DEF o, E
    <2> QED BY <1>1, <1>2, <1>3, <1>4, AppendKeepsPrefixes
  <1>6. RefsResolve' /\ PointersBacked'
    <2>1. o \in Offloaded => o \in blobs
      BY <1>1 DEF PlanInv
    <2> QED BY <1>1, <2>1 DEF StoreInv, RefsResolve, PointersBacked
  <1> QED BY <1>5, <1>6 DEF StoreInv

LEMMA CommitStore ==
    ASSUME TypeOK, StoreInv, NEW p \in Pushes, Commit(p), ViewResolves(p)
    PROVE  StoreInv'
  <1> DEFINE e == RefWrite(p, view[p], wrote[p])
             E == ObjectWrites \cup RefWrites
  <1>1. UNCHANGED <<durObjs, durRefs, visObjs, blobs>>
    BY DEF Commit
  <1>2. CASE wrote[p] = {}
    BY <1>1, <1>2 DEF Commit, StoreInv, VisibleIsQueued, EveryPrefixClosed,
       EveryPrefixResolves, RefsResolve, PointersBacked, RecoveredObjs, Closed
  <1>3. CASE wrote[p] # {}
    <2>1. queue' = Append(queue, e) /\ visRefs' = Overlay(visRefs, e)
      BY <1>3 DEF Commit
    <2>2. /\ queue \in Seq(E) /\ e \in E /\ e.type = "refs"
          /\ e.names \subseteq Refs /\ e.target = view[p] /\ e.names = wrote[p]
      BY DEF TypeOK, StoreType, TxnType, RefWrite, RefWrites
    <2>3. Closed(visObjs \cup {})
      <3>1. visObjs = RecoveredObjs(Len(queue)) /\ Len(queue) \in 0..Len(queue)
        BY <2>2 DEF StoreInv, VisibleIsQueued
      <3> QED BY <3>1 DEF StoreInv, EveryPrefixClosed
    <2>4. \A r \in e.names : e.target[r] \in visObjs \cup {None}
      BY <2>2 DEF ViewResolves
    <2>5. VisibleIsQueued' /\ EveryPrefixClosed' /\ EveryPrefixResolves'
      <3> HIDE DEF e, E
      <3> QED BY <1>1, <2>1, <2>2, <2>3, <2>4, AppendKeepsPrefixes
    <2>6. RefsResolve'
      BY <1>1, <2>1, <2>2 DEF RefsResolve, StoreInv, ViewResolves, Overlay
    <2>7. PointersBacked'
      BY <1>1 DEF StoreInv, PointersBacked
    <2> QED BY <2>5, <2>6, <2>7 DEF StoreInv
  <1> QED BY <1>2, <1>3

LEMMA WalFlushStore ==
    ASSUME TypeOK, StoreInv, WalFlush
    PROVE  StoreInv'
  <1> DEFINE E == ObjectWrites \cup RefWrites
             e == Head(queue)
  <1>1. queue \in Seq(E) /\ queue # <<>> /\ queue' = Tail(queue)
        /\ UNCHANGED <<visObjs, visRefs, blobs>>
    BY DEF WalFlush, TypeOK, StoreType
  <1>2. e \in E
    BY <1>1, HeadTailProperties
  <1>3. /\ Len(queue) \in Nat /\ Len(queue) >= 1
        /\ Len(queue') = Len(queue) - 1
        /\ \A i \in 1..(Len(queue) - 1) : queue'[i] = queue[i + 1]
        /\ e = queue[1]
    BY <1>1, HeadTailProperties, EmptySeq
  <1>4. \/ e.type = "object" /\ durObjs' = durObjs \cup {e.oid} /\ e.oid \in Objects
           /\ e = ObjectWrite(e.oid) /\ durRefs' = durRefs
        \/ e.type = "refs" /\ durObjs' = durObjs /\ durRefs' = Overlay(durRefs, e)
           /\ e.names \subseteq Refs
    <2>1. CASE e \in ObjectWrites
      BY <2>1 DEF WalFlush, ObjectWrites, ObjectWrite
    <2>2. CASE e \in RefWrites
      BY <2>2 DEF WalFlush, RefWrites
    <2> QED BY <1>2, <2>1, <2>2
  <1> HIDE DEF e, E
  <1>5. \A n \in 0..(Len(queue) - 1) :
            Recovered(durObjs', queue', n) = Recovered(durObjs, queue, n + 1)
    <2> TAKE n \in 0..(Len(queue) - 1)
    <2>0. \A x \in Objects : (\E i \in 1..(n + 1) : queue[i] = ObjectWrite(x))
             <=> queue[1] = ObjectWrite(x) \/ \E i \in 1..n : queue'[i] = ObjectWrite(x)
      <3>1. n \in Nat /\ \A i \in 1..n : queue'[i] = queue[i + 1]
        BY <1>3
      <3> TAKE x \in Objects
      <3>2. ASSUME NEW i \in 1..(n + 1), queue[i] = ObjectWrite(x), i # 1
            PROVE  \E j \in 1..n : queue'[j] = ObjectWrite(x)
        <4>1. i - 1 \in 1..n /\ queue'[i - 1] = queue[i]
          BY <3>1, <3>2
        <4> QED BY <3>2, <4>1
      <3>3. ASSUME NEW i \in 1..n, queue'[i] = ObjectWrite(x)
            PROVE  \E j \in 1..(n + 1) : queue[j] = ObjectWrite(x)
        <4>1. i + 1 \in 1..(n + 1) /\ queue'[i] = queue[i + 1]
          BY <3>1, <3>3
        <4> QED BY <3>3, <4>1
      <3>4. 1 \in 1..(n + 1)
        BY <3>1
      <3> QED BY <3>2, <3>3, <3>4
    <2>1. CASE e.type = "object"
      <3>1. \A x \in Objects : queue[1] = ObjectWrite(x) <=> x = e.oid
        BY <1>3, <1>4, <2>1 DEF ObjectWrite
      <3> QED BY <1>4, <2>0, <2>1, <3>1 DEF Recovered
    <2>2. CASE e.type = "refs"
      <3>1. \A x \in Objects : queue[1] # ObjectWrite(x)
        BY <1>3, <2>2 DEF ObjectWrite
      <3> QED BY <1>4, <2>0, <2>2, <3>1 DEF Recovered
    <2> QED BY <1>4, <2>1, <2>2
  <1>6. VisibleIsQueued'
    BY <1>1, <1>3, <1>5 DEF StoreInv, VisibleIsQueued, RecoveredObjs
  <1>7. EveryPrefixClosed'
    <2>1. ASSUME NEW n \in 0..(Len(queue) - 1)
          PROVE  Closed(Recovered(durObjs', queue', n))
      <3>1. n + 1 \in 0..Len(queue)
        BY <1>3
      <3> QED BY <1>5, <3>1 DEF StoreInv, EveryPrefixClosed, RecoveredObjs
    <2> QED BY <1>3, <2>1 DEF EveryPrefixClosed, Closed, RecoveredObjs
  <1>8. EveryPrefixResolves'
    <2>1. ASSUME NEW n \in 1..(Len(queue) - 1), queue'[n].type = "refs", NEW r \in queue'[n].names
          PROVE  queue'[n].target[r] \in Recovered(durObjs', queue', n - 1) \cup {None}
      <3>1. /\ queue'[n] = queue[n + 1] /\ n + 1 \in 1..Len(queue)
            /\ n - 1 \in 0..(Len(queue) - 1) /\ (n + 1) - 1 = (n - 1) + 1
        BY <1>3
      <3>2. queue[n + 1].target[r] \in Recovered(durObjs, queue, (n + 1) - 1) \cup {None}
        BY <2>1, <3>1 DEF StoreInv, EveryPrefixResolves, RecoveredObjs
      <3> QED BY <1>5, <3>1, <3>2
    <2>2. ASSUME NEW r \in Refs
          PROVE  durRefs'[r] \in durObjs' \cup {None}
      <3>1. durRefs[r] \in durObjs \cup {None}
        BY DEF StoreInv, EveryPrefixResolves
      <3>2. CASE e.type = "object"
        BY <1>4, <3>1, <3>2
      <3>3. CASE e.type = "refs" /\ r \in e.names
        <4>1. e.target[r] \in Recovered(durObjs, queue, 1 - 1) \cup {None}
          BY <1>3, <3>3 DEF StoreInv, EveryPrefixResolves, RecoveredObjs
        <4>2. Recovered(durObjs, queue, 1 - 1) = durObjs
          BY RecoveredNone
        <4> QED BY <1>4, <3>3, <4>1, <4>2 DEF Overlay
      <3>4. CASE e.type = "refs" /\ r \notin e.names
        BY <1>4, <3>1, <3>4 DEF Overlay
      <3> QED BY <1>4, <3>2, <3>3, <3>4
    <2> QED BY <1>3, <2>1, <2>2 DEF EveryPrefixResolves, RecoveredObjs
  <1>9. RefsResolve'
    BY <1>1 DEF StoreInv, RefsResolve
  <1>10. PointersBacked'
    <2>1. durObjs' \subseteq visObjs
      <3>1. Recovered(durObjs', queue', 0) \subseteq Recovered(durObjs', queue', Len(queue) - 1)
        BY <1>3, RecoveredMonotonic
      <3> QED BY <1>1, <1>3, <1>6, <3>1, RecoveredNone DEF VisibleIsQueued, RecoveredObjs
    <2> QED BY <1>1, <2>1 DEF StoreInv, PointersBacked
  <1> QED BY <1>6, <1>7, <1>8, <1>9, <1>10 DEF StoreInv

LEMMA CrashStore ==
    ASSUME TypeOK, StoreInv, Crash
    PROVE  StoreInv'
  <1>1. /\ visObjs' = durObjs /\ visRefs' = durRefs /\ queue' = <<>>
        /\ UNCHANGED <<durObjs, durRefs, blobs>>
    BY DEF Crash
  <1>2. Len(queue') = 0 /\ Recovered(durObjs', queue', 0) = durObjs
    BY <1>1, RecoveredNone
  <1>3. Closed(durObjs)
    <2>1. 0 \in 0..Len(queue) /\ Recovered(durObjs, queue, 0) = durObjs
      BY RecoveredNone DEF TypeOK, StoreType
    <2> QED BY <2>1 DEF StoreInv, EveryPrefixClosed, RecoveredObjs
  <1>4. VisibleIsQueued'
    BY <1>1, <1>2 DEF VisibleIsQueued, RecoveredObjs
  <1>5. EveryPrefixClosed'
    BY <1>1, <1>2, <1>3 DEF EveryPrefixClosed, RecoveredObjs, Closed
  <1>6. EveryPrefixResolves' /\ RefsResolve' /\ PointersBacked'
    BY <1>1, <1>2 DEF StoreInv, EveryPrefixResolves, RefsResolve, PointersBacked
  <1> QED BY <1>4, <1>5, <1>6 DEF StoreInv

LEMMA UploadStore ==
    ASSUME StoreInv, NEW p \in Pushes, UploadBlob(p)
    PROVE  StoreInv'
  BY DEF UploadBlob, StoreInv, VisibleIsQueued, EveryPrefixClosed, EveryPrefixResolves,
         RefsResolve, PointersBacked, RecoveredObjs, Closed

-----------------------------------------------------------------------------
(* The requests' part of the invariant *)

\* The locals RequestInv speaks of.
SameLocals(q) ==
    /\ pc'[q] = pc[q] /\ path'[q] = path[q] /\ at'[q] = at[q] /\ done'[q] = done[q]
    /\ order'[q] = order[q] /\ put'[q] = put[q] /\ cur'[q] = cur[q] /\ view'[q] = view[q]

\* More records, and more bodies, disturb no request.
LEMMA Stable ==
    ASSUME NEW q \in Pushes, RequestInv(q), SameLocals(q),
           visObjs \subseteq visObjs', blobs \subseteq blobs'
    PROVE  RequestInv(q)'
  <1> USE DEF SameLocals
  <1>1. \A x : Placed(q, x) => Placed(q, x)'
    BY DEF Placed
  <1>2. PostOrdered(q) => PostOrdered(q)'
    BY DEF PostOrdered
  <1>3. WalkInv(q) => WalkInv(q)'
    <2>1. \A x, k : Known(q, x, k) => Known(q, x, k)'
      BY <1>1 DEF Known
    <2>2. \A k : EnteredKnown(q, k) => EnteredKnown(q, k)'
      BY <2>1 DEF EnteredKnown, Links, Tips
    <2> QED BY <1>2, <2>1, <2>2 DEF WalkInv, Descending
  <1>4. NextPut(q, cur[q]) => NextPut(q, cur[q])'
    BY DEF NextPut, WrittenBefore
  <1>5. PlanInv(q) => PlanInv(q)'
    BY <1>1, <1>2, <1>4 DEF PlanInv
  <1>6. TipsVisible(q) => TipsVisible(q)'
    BY DEF TipsVisible
  <1>7. ViewResolves(q) => ViewResolves(q)'
    BY DEF ViewResolves
  <1> QED BY <1>3, <1>5, <1>6, <1>7 DEF RequestInv

\* The traversal.
LEMMA IngestInv ==
    ASSUME TypeOK, NEW p \in Pushes, RequestInv(p), Ingest(p)
    PROVE  RequestInv(p)'
  <1>1. /\ pc[p] = "idle" /\ pc'[p] = "validate" /\ path'[p] = <<None>> /\ at'[p] = <<0>>
        /\ done'[p] = {None} /\ order'[p] = <<>> /\ put'[p] = {}
    BY DEF Ingest, Goto, promote, TypeOK, PerPush, RequestInv
  <1>2. PostOrdered(p)'
    BY <1>1 DEF PostOrdered
  <1>3. Links(p, None) \in Seq(Oid)
    BY LinksType DEF Oid
  <1>4. WalkInv(p)'
    <2>1. Len(path'[p]) = 1 /\ path'[p][1] = None /\ at'[p][1] = 0
      BY <1>1
    <2>2. 0 <= Len(Links(p, None))
      BY <1>3
    <2> QED BY <1>1, <1>2, <2>1, <2>2 DEF WalkInv, Descending, Known, EnteredKnown, Links, Tips
  <1> QED BY <1>1, <1>4 DEF RequestInv

\* What is entered from the top of the path is not on the path: it lies
\* deeper than everything there.
LEMMA EnteredIsBelow ==
    ASSUME TypeOK, NEW p \in Pushes, pc[p] = "validate", WalkInv(p), Entering(p),
           NEW m \in 2..Len(path[p])
    PROVE  Entered(p) # path[p][m]
  <1> DEFINE K == Len(path[p])
  <1>1. WalkType(p)
    BY DEF TypeOK
  <1>2. K \in Nat /\ K >= 2 /\ Top(p) = path[p][K] /\ Top(p) \in Objects /\ path[p][m] \in Objects
    BY <1>1 DEF WalkType, Top
  <1>3. /\ at[p][K] \in Nat /\ Links(p, Top(p)) = Children[Top(p)]
        /\ Children[Top(p)] \in Seq(Objects)
    BY <1>1, <1>2, WalkOps, NoneAssumption, ObjectAssumption DEF Links
  <1>4. at[p][K] + 1 \in DOMAIN Children[Top(p)]
    BY <1>3 DEF Entering
  <1>5. Entered(p) \in Kids(Top(p)) /\ Entered(p) \in Objects
    BY <1>3, <1>4 DEF Entered, Kids
  <1>6. Depth[Entered(p)] < Depth[Top(p)]
    BY <1>2, <1>5, AcyclicAssumption
  <1>7. m = K \/ Depth[Top(p)] < Depth[path[p][m]]
    BY <1>2 DEF WalkInv, Descending
  <1>8. Depth[Entered(p)] \in Nat /\ Depth[Top(p)] \in Nat /\ Depth[path[p][m]] \in Nat
    BY <1>2, <1>5, ObjectAssumption
  <1> HIDE DEF K
  <1> QED BY <1>2, <1>6, <1>7, <1>8

LEMMA SettledInv ==
    ASSUME TypeOK, NEW p \in Pushes, RequestInv(p), Settled(p)
    PROVE  RequestInv(p)'
  <1> DEFINE K == Len(path[p])
             c == Entered(p)
  <1>0. WalkType(p) /\ WalkInv(p) /\ pc[p] = "validate" /\ put[p] = {}
    BY DEF TypeOK, RequestInv, Settled
  <1>1. /\ pc'[p] = "validate" /\ path'[p] = path[p] /\ at'[p] = Advance(p)
        /\ done'[p] = done[p] \cup {c} /\ order'[p] = order[p] /\ put'[p] = put[p]
        /\ visObjs' = visObjs /\ Entering(p) /\ c \in done[p] \cup visObjs
    BY <1>0 DEF Settled, TypeOK, PerPush, promote, store
  <1>2. /\ K \in Nat /\ K >= 1 /\ at[p][K] \in Nat
        /\ \A k \in 1..K : at'[p][k] = IF k = K THEN at[p][k] + 1 ELSE at[p][k]
        /\ \A k \in 1..K : at[p][k] \in Nat
    <2>1. at[p] \in Seq(Nat) /\ Len(at[p]) = K /\ K \in Nat /\ K >= 1
      BY <1>0 DEF WalkType
    <2>2. \A k \in 1..K : at[p][k] \in Nat
      BY <2>1, ElementOfSeq
    <2>3. \A k \in 1..K : Advance(p)[k] = IF k = K THEN at[p][k] + 1 ELSE at[p][k]
      BY <1>0, <1>1, WalkOps
    <2>4. K \in 1..K
      BY <2>1
    <2> QED BY <1>1, <2>1, <2>2, <2>3, <2>4
  <1>3. c = None \/ Placed(p, c)
    <2>1. CASE c \in visObjs
      BY <2>1 DEF Placed
    <2>2. CASE c \in done[p]
      BY <1>0, <1>1, <2>2, EnteredIsBelow DEF WalkInv, Known
    <2> QED BY <1>1, <2>1, <2>2
  <1>4. \A x, k : Known(p, x, k)' <=> Known(p, x, k)
    BY <1>1 DEF Known, Placed
  <1>5. PostOrdered(p)'
    BY <1>0, <1>1 DEF WalkInv, PostOrdered
  <1>6. /\ at[p][K] + 1 <= Len(Links(p, path[p][K]))
        /\ Links(p, path[p][K])[at[p][K] + 1] = c
    <2>1. Links(p, path[p][K]) \in Seq(Oid) /\ at[p][K] < Len(Links(p, path[p][K]))
      BY <1>0, <1>1, WalkOps, LinksType DEF Entering, Top
    <2>2. Links(p, path[p][K])[at[p][K] + 1] = c
      BY DEF Entered, Top
    <2> QED BY <1>2, <2>1, <2>2
  <1> HIDE DEF K, c
  <1>7. ASSUME NEW k \in 1..K
        PROVE  EnteredKnown(p, k)'
    <2>1. /\ at[p][k] <= Len(Links(p, path[p][k]))
          /\ \A i \in 1..at[p][k] : Known(p, Links(p, path[p][k])[i], k)
      BY <1>0 DEF WalkInv, EnteredKnown, K
    <2>2. /\ at'[p][k] <= Len(Links(p, path[p][k]))
          /\ \A i \in 1..at'[p][k] : Known(p, Links(p, path[p][k])[i], k)
      <3>1. CASE k # K
        BY <1>2, <2>1, <3>1
      <3>2. CASE k = K
        <4>1. at'[p][k] = at[p][k] + 1
          BY <1>2, <3>2
        <4>2. \A i \in 1..(at[p][k] + 1) : i \in 1..at[p][k] \/ i = at[p][k] + 1
          BY <1>2
        <4>3. Known(p, c, k)
          BY <1>3 DEF Known
        <4> QED BY <1>6, <2>1, <3>2, <4>1, <4>2, <4>3
      <3> QED BY <3>1, <3>2
    <2>3. path'[p] = path[p]
      BY <1>1
    <2> QED BY <1>4, <2>2, <2>3 DEF EnteredKnown, Links, Tips
  <1>8. WalkInv(p)'
    <2>1. \A x \in done'[p] : Known(p, x, 1)'
      <3>1. Known(p, c, 1)
        BY <1>3 DEF Known
      <3> QED BY <1>0, <1>1, <1>4, <3>1 DEF WalkInv
    <2>2. Len(path'[p]) = K /\ path'[p] = path[p]
      BY <1>1 DEF K
    <2>3. Descending(p)'
      BY <1>0, <1>1 DEF WalkInv, Descending
    <2> QED BY <1>5, <1>7, <2>1, <2>2, <2>3 DEF WalkInv
  <1> QED BY <1>0, <1>1, <1>8 DEF RequestInv

LEMMA DescendInv ==
    ASSUME TypeOK, NEW p \in Pushes, RequestInv(p), Descend(p)
    PROVE  RequestInv(p)'
  <1> SUFFICES ASSUME NEW K, K = Len(path[p]), NEW c, c = Entered(p)
               PROVE  RequestInv(p)'
    OBVIOUS
  <1>0. WalkType(p) /\ WalkInv(p) /\ pc[p] = "validate" /\ put[p] = {} /\ Entering(p)
    BY DEF TypeOK, RequestInv, Descend
  <1>1. /\ pc'[p] = "validate" /\ path'[p] = Append(path[p], c)
        /\ at'[p] = Append(Advance(p), 0)
        /\ done'[p] = done[p] \cup {c} /\ order'[p] = order[p] /\ put'[p] = put[p]
        /\ visObjs' = visObjs /\ c \in Objects
    BY <1>0, RequestAssumption DEF Descend, TypeOK, PerPush, promote, store, Staged
  <1>2. /\ K \in Nat /\ K >= 1 /\ at[p][K] \in Nat
        /\ \A k \in 1..K : at[p][k] \in Nat
        /\ Len(path'[p]) = K + 1
        /\ \A k \in 1..K : path'[p][k] = path[p][k]
        /\ path'[p][K + 1] = c
    <2>1. /\ path[p] \in Seq(Oid) /\ at[p] \in Seq(Nat) /\ Len(at[p]) = K
          /\ K \in Nat /\ K >= 1 /\ c \in Oid
      BY <1>0, <1>1 DEF WalkType, Oid
    <2>2. \A k \in 1..K : at[p][k] \in Nat
      BY <2>1, ElementOfSeq
    <2> QED BY <1>1, <2>1, <2>2, AppendProperties
  <1>3. /\ at'[p][K + 1] = 0
        /\ \A k \in 1..K : at'[p][k] = IF k = K THEN at[p][k] + 1 ELSE at[p][k]
    <2>1. /\ Advance(p) \in Seq(Nat) /\ Len(Advance(p)) = K
          /\ \A k \in 1..K : Advance(p)[k] = IF k = K THEN at[p][k] + 1 ELSE at[p][k]
      BY <1>0, WalkOps
    <2>2. /\ \A k \in 1..Len(Advance(p)) : Append(Advance(p), 0)[k] = Advance(p)[k]
          /\ Append(Advance(p), 0)[Len(Advance(p)) + 1] = 0
      <3>1. Advance(p) \in Seq(Nat) /\ 0 \in Nat
        BY <2>1
      <3> QED BY ONLY <3>1, AppendProperties
    <2> HIDE DEF Advance
    <2> QED BY <1>1, <2>1, <2>2
  <1>4. /\ at[p][K] + 1 <= Len(Links(p, path[p][K]))
        /\ Links(p, path[p][K])[at[p][K] + 1] = c
    <2>1. Links(p, path[p][K]) \in Seq(Oid) /\ at[p][K] < Len(Links(p, path[p][K]))
      BY <1>0, <1>1, WalkOps, LinksType DEF Entering, Top
    <2>2. Links(p, path[p][K])[at[p][K] + 1] = c
      BY DEF Entered, Top
    <2> QED BY <1>2, <2>1, <2>2
  <1>5. \A k \in 2..K : path[p][k] \in Objects
    BY <1>0 DEF WalkType
  <1>6. K >= 2 => Depth[c] < Depth[path[p][K]]
    <2>1. ASSUME K >= 2
          PROVE  c \in Kids(path[p][K])
      <3>1. /\ path[p][K] \in Objects /\ Links(p, path[p][K]) = Children[path[p][K]]
            /\ Children[path[p][K]] \in Seq(Objects)
        BY <1>2, <1>5, <2>1, NoneAssumption, ObjectAssumption DEF Links
      <3>2. at[p][K] + 1 \in DOMAIN Children[path[p][K]]
        BY <1>2, <1>4, <3>1
      <3> QED BY <1>4, <3>1, <3>2 DEF Kids
    <2> QED BY <1>2, <1>5, <2>1, AcyclicAssumption
  <1>7. \A x, k : k \in 1..K /\ Known(p, x, k) => Known(p, x, k)'
    <2>1. \A x : Placed(p, x) => Placed(p, x)'
      BY <1>1 DEF Placed
    <2>2. ASSUME NEW x, NEW k \in 1..K, NEW m \in (k + 1)..K, path[p][m] = x
          PROVE  m \in (k + 1)..(K + 1) /\ path'[p][m] = x
      BY <1>2, <2>2
    <2> QED BY <1>2, <2>1, <2>2 DEF Known
  <1>8. Known(p, c, K)' /\ Known(p, c, 1)'
    <2>1. K + 1 \in (K + 1)..(K + 1) /\ K + 1 \in (1 + 1)..(K + 1)
      BY <1>2
    <2>2. /\ \E m \in (K + 1)..(K + 1) : path'[p][m] = c
          /\ \E m \in (1 + 1)..(K + 1) : path'[p][m] = c
      BY <1>2, <2>1
    <2> QED BY <1>2, <2>2 DEF Known
  <1>9. Descending(p)'
    <2>1. /\ path[p][1] = None
          /\ \A k, m \in 2..K : k < m => Depth[path[p][m]] < Depth[path[p][k]]
      BY <1>0 DEF WalkInv, Descending
    <2>2. ASSUME NEW k \in 2..(K + 1), NEW m \in 2..(K + 1), k < m
          PROVE  Depth[path'[p][m]] < Depth[path'[p][k]]
      <3>1. CASE m \in 2..K
        BY <1>2, <2>1, <2>2, <3>1
      <3>2. CASE m = K + 1
        <4>1. k \in 2..K /\ K >= 2 /\ path'[p][m] = c /\ path'[p][k] = path[p][k]
          BY <1>2, <2>2, <3>2
        <4>2. Depth[c] < Depth[path[p][K]]
          BY <1>6, <4>1
        <4>3. k = K \/ Depth[path[p][K]] < Depth[path[p][k]]
          <5>1. K \in 2..K /\ (k = K \/ k < K)
            BY <1>2, <4>1
          <5> QED BY <2>1, <4>1, <5>1
        <4>4. Depth[c] \in Nat /\ Depth[path[p][K]] \in Nat /\ Depth[path[p][k]] \in Nat
          BY <1>1, <1>2, <1>5, <4>1, ObjectAssumption
        <4> QED BY <4>1, <4>2, <4>3, <4>4
      <3> QED BY <1>2, <3>1, <3>2
    <2>3. path'[p][1] = None
      BY <1>2, <2>1
    <2> QED BY <1>2, <2>2, <2>3 DEF Descending
  <1>10. ASSUME NEW k \in 1..(K + 1)
         PROVE  EnteredKnown(p, k)'
    <2>1. CASE k \in 1..K
      <3>1. /\ at[p][k] <= Len(Links(p, path[p][k]))
            /\ \A i \in 1..at[p][k] : Known(p, Links(p, path[p][k])[i], k)
        BY <1>0, <2>1 DEF WalkInv, EnteredKnown
      <3>2. /\ at'[p][k] <= Len(Links(p, path[p][k]))
            /\ \A x : \A i \in 1..at'[p][k] : x = Links(p, path[p][k])[i] => Known(p, x, k)'
        <4>1. CASE k # K
          BY <1>3, <1>7, <2>1, <3>1, <4>1
        <4>2. CASE k = K
          <5>1. at'[p][k] = at[p][k] + 1
            BY <1>3, <2>1, <4>2
          <5>2. \A i \in 1..(at[p][k] + 1) : i \in 1..at[p][k] \/ i = at[p][k] + 1
            BY <1>2, <2>1
          <5> QED BY <1>4, <1>7, <1>8, <2>1, <3>1, <4>2, <5>1, <5>2
        <4> QED BY <4>1, <4>2
      <3>3. path'[p][k] = path[p][k]
        BY <1>2, <2>1
      <3> QED BY <3>2, <3>3 DEF EnteredKnown, Links, Tips
    <2>2. CASE k = K + 1
      <3>1. Links(p, c) \in Seq(Oid)
        BY <1>1, LinksType DEF Oid
      <3>2. at'[p][k] = 0 /\ path'[p][k] = c /\ 0 <= Len(Links(p, c))
        BY <1>2, <1>3, <2>2, <3>1
      <3> QED BY <3>2 DEF EnteredKnown, Links, Tips
    <2> QED BY <1>2, <2>1, <2>2
  <1>11. WalkInv(p)'
    <2>1. \A x \in done'[p] : Known(p, x, 1)'
      BY <1>0, <1>1, <1>2, <1>7, <1>8 DEF WalkInv
    <2>2. PostOrdered(p)'
      BY <1>0, <1>1 DEF WalkInv, PostOrdered
    <2> QED BY <1>2, <1>9, <1>10, <2>1, <2>2 DEF WalkInv
  <1> QED BY <1>0, <1>1, <1>11 DEF RequestInv

LEMMA EmitInv ==
    ASSUME TypeOK, NEW p \in Pushes, RequestInv(p), Emit(p)
    PROVE  RequestInv(p)'
  <1> SUFFICES ASSUME NEW K, K = Len(path[p]), NEW x, x = Top(p), NEW L, L = Len(order[p])
               PROVE  RequestInv(p)'
    OBVIOUS
  <1>0. WalkType(p) /\ WalkInv(p) /\ pc[p] = "validate" /\ put[p] = {} /\ ~ Entering(p)
    BY DEF TypeOK, RequestInv, Emit
  <1>1. /\ pc'[p] = "validate" /\ path'[p] = SubSeq(path[p], 1, K - 1)
        /\ at'[p] = SubSeq(at[p], 1, Len(at[p]) - 1)
        /\ done'[p] = done[p] /\ order'[p] = Append(order[p], x) /\ put'[p] = put[p]
        /\ visObjs' = visObjs /\ K > 1
    BY <1>0 DEF Emit, TypeOK, PerPush, promote, store
  <1>2. /\ K \in Nat /\ x = path[p][K] /\ x \in Objects
        /\ path[p] \in Seq(Oid) /\ at[p] \in Seq(Nat) /\ Len(at[p]) = K
        /\ order[p] \in Seq(Objects) /\ L \in Nat
    BY <1>0, <1>1 DEF WalkType, Top
  <1>3. /\ Len(path'[p]) = K - 1
        /\ \A k \in 1..(K - 1) : path'[p][k] = path[p][k] /\ at'[p][k] = at[p][k]
    <2>1. (\A k \in 1..(K - 1) : path[p][k] \in Oid) /\ (\A k \in 1..(K - 1) : at[p][k] \in Nat)
      BY <1>2, ElementOfSeq
    <2>2. /\ Len(path'[p]) = K - 1
          /\ \A k \in 1..(K - 1) : path'[p][k] = path[p][k]
      BY <1>1, <1>2, <2>1, SubSeqProperties
    <2>3. \A k \in 1..(K - 1) : at'[p][k] = at[p][k]
      BY <1>1, <1>2, <2>1, SubSeqProperties
    <2> QED BY <2>2, <2>3
  <1>4. /\ DOMAIN order[p] = 1..L /\ DOMAIN order'[p] = 1..(L + 1)
        /\ \A i \in 1..L : order'[p][i] = order[p][i]
        /\ order'[p][L + 1] = x
    BY <1>1, <1>2, AppendProperties
  <1>5. \A y : Placed(p, y) => Placed(p, y)'
    BY <1>1, <1>2, <1>4 DEF Placed
  <1>6. Placed(p, x)'
    <2>1. L + 1 \in DOMAIN order'[p]
      BY <1>2, <1>4
    <2> QED BY <1>4, <2>1 DEF Placed
  <1>7. \A y : \A k \in 1..(K - 1) : Known(p, y, k) => Known(p, y, k)'
    <2> SUFFICES ASSUME NEW y, NEW k \in 1..(K - 1), Known(p, y, k)
                 PROVE  Known(p, y, k)'
      OBVIOUS
    <2>1. ASSUME NEW m \in (k + 1)..K, path[p][m] = y, m # K
          PROVE  m \in (k + 1)..(K - 1) /\ path'[p][m] = y
      <3>1. m \in (k + 1)..(K - 1) /\ m \in 1..(K - 1)
        BY <1>2, <2>1
      <3> QED BY <1>3, <2>1, <3>1
    <2> QED BY <1>2, <1>3, <1>5, <1>6, <2>1 DEF Known
  <1>8. Descending(p)'
    <2>1. /\ path[p][1] = None
          /\ \A k, m \in 2..K : k < m => Depth[path[p][m]] < Depth[path[p][k]]
      BY <1>0 DEF WalkInv, Descending
    <2>2. 1 \in 1..(K - 1) /\ \A k \in 2..(K - 1) : k \in 2..K /\ k \in 1..(K - 1)
      BY <1>1, <1>2
    <2>3. /\ path'[p][1] = None
          /\ \A k, m \in 2..(K - 1) : k < m => Depth[path'[p][m]] < Depth[path'[p][k]]
      BY <1>3, <2>1, <2>2
    <2> QED BY <1>3, <2>3 DEF Descending
  <1>9. ASSUME NEW k \in 1..(K - 1)
        PROVE  EnteredKnown(p, k)'
    <2>1. /\ at[p][k] <= Len(Links(p, path[p][k]))
          /\ \A i \in 1..at[p][k] : Known(p, Links(p, path[p][k])[i], k)
      <3>1. k \in 1..Len(path[p])
        BY <1>2
      <3> QED BY <1>0, <3>1 DEF WalkInv, EnteredKnown
    <2>2. \A y : \A i \in 1..at[p][k] : y = Links(p, path[p][k])[i] => Known(p, y, k)'
      BY <1>7, <2>1
    <2>3. at'[p][k] = at[p][k] /\ path'[p][k] = path[p][k]
      BY <1>3
    <2> QED BY <2>1, <2>2, <2>3 DEF EnteredKnown, Links, Tips
  <1>10. ASSUME NEW c \in Kids(x)
         PROVE  Placed(p, c)
    <2>1. Links(p, x) = Children[x] /\ Children[x] \in Seq(Objects)
      BY <1>2, NoneAssumption, ObjectAssumption DEF Links
    <2>2. at[p][K] >= Len(Children[x]) /\ at[p][K] \in Nat
      BY <1>0, <1>2, <2>1, WalkOps DEF Entering
    <2>3. PICK i \in 1..Len(Children[x]) : c = Children[x][i]
      BY <2>1 DEF Kids
    <2>4. i \in 1..at[p][K]
      BY <2>1, <2>2, <2>3
    <2>5. Known(p, c, K)
      <3>1. K \in 1..Len(path[p])
        BY <1>1, <1>2
      <3>2. EnteredKnown(p, K)
        BY <1>0, <3>1 DEF WalkInv
      <3> QED BY <1>2, <2>1, <2>3, <2>4, <3>2 DEF EnteredKnown
    <2>6. c # None
      BY <2>1, <2>3, NoneAssumption
    <2> QED BY <1>2, <2>5, <2>6 DEF Known
  <1>11. PostOrdered(p)'
    <2>1. ASSUME NEW i \in 1..(L + 1), NEW c \in Kids(order'[p][i])
          PROVE  c \in visObjs \/ \E j \in 1..(i - 1) : order'[p][j] = c
      <3>1. CASE i \in 1..L
        <4>1. c \in visObjs \/ \E j \in 1..(i - 1) : order[p][j] = c
          BY <1>0, <1>4, <2>1, <3>1 DEF WalkInv, PostOrdered
        <4>2. \A j \in 1..(i - 1) : order'[p][j] = order[p][j]
          BY <1>2, <1>4, <3>1
        <4> QED BY <4>1, <4>2
      <3>2. CASE i = L + 1
        <4>1. Placed(p, c) /\ i - 1 = L
          BY <1>2, <1>4, <1>10, <2>1, <3>2
        <4> QED BY <1>4, <4>1 DEF Placed
      <3> QED BY <1>2, <3>1, <3>2
    <2> QED BY <1>1, <1>4, <2>1 DEF PostOrdered, Kids
  <1>12. \A y \in done'[p] : Known(p, y, 1)'
    BY <1>0, <1>1, <1>2, <1>7 DEF WalkInv
  <1>13. WalkInv(p)'
    BY <1>3, <1>8, <1>9, <1>11, <1>12 DEF WalkInv
  <1> QED BY <1>0, <1>1, <1>13 DEF RequestInv

\* The stack is empty: every tip has been entered from the root.
LEMMA ValidatedInv ==
    ASSUME TypeOK, NEW p \in Pushes, RequestInv(p), Validated(p)
    PROVE  RequestInv(p)'
  <1>0. /\ WalkType(p) /\ WalkInv(p) /\ pc[p] = "validate" /\ put[p] = {} /\ ~ Entering(p)
        /\ Len(path[p]) = 1
    BY DEF TypeOK, RequestInv, Validated
  <1>1. /\ pc'[p] = "write" /\ order'[p] = order[p] /\ put'[p] = put[p] /\ visObjs' = visObjs
    BY <1>0 DEF Validated, Goto, TypeOK, PerPush, promote, store
  <1>2. path[p][1] = None /\ Links(p, None) = Tips(p)
    BY <1>0 DEF WalkInv, Descending, Links
  <1>3. Commands[p] \in Seq(Command)
    BY RequestAssumption
  <1>4. Len(Tips(p)) = Len(Commands[p]) /\ Len(Commands[p]) \in Nat
        /\ DOMAIN Commands[p] = 1..Len(Commands[p])
        /\ \A i \in DOMAIN Commands[p] : Tips(p)[i] = Commands[p][i].new
    BY <1>3, LenProperties DEF Tips
  <1>5. at[p][1] \in Nat /\ at[p][1] >= Len(Tips(p))
    <2>1. Top(p) = None
      BY <1>0, <1>2 DEF Top
    <2>2. at[p][1] \in Nat
      BY <1>0, WalkOps
    <2> QED BY <1>0, <1>2, <1>4, <2>1, <2>2 DEF Entering
  <1>6. ASSUME NEW i \in DOMAIN Commands[p]
        PROVE  Commands[p][i].new = None \/ Placed(p, Commands[p][i].new)
    <2>1. EnteredKnown(p, 1)
      BY <1>0 DEF WalkInv
    <2>2. i \in 1..at[p][1]
      BY <1>4, <1>5
    <2>3. Known(p, Commands[p][i].new, 1)
      BY <1>2, <1>4, <2>1, <2>2 DEF EnteredKnown
    <2> QED BY <1>0, <2>3 DEF Known
  <1>7. PlanInv(p)'
    <2>1. PostOrdered(p)'
      BY <1>0, <1>1 DEF WalkInv, PostOrdered
    <2>2. \A x : Placed(p, x) => Placed(p, x)'
      BY <1>1 DEF Placed
    <2> QED BY <1>0, <1>1, <1>6, <2>1, <2>2 DEF PlanInv
  <1> QED BY <1>1, <1>7 DEF RequestInv

\* Putting the planned objects.
LEMMA PutInv ==
    ASSUME TypeOK, NEW p \in Pushes, RequestInv(p),
           PutExisting(p) \/ PutAbsent(p) \/ UploadBlob(p) \/ PutRecord(p)
    PROVE  RequestInv(p)'
  <1> USE DEF Goto, walk, store
  <1>0. PlanInv(p) /\ PerPush /\ pc[p] \in {"write", "upload", "record"}
    BY DEF RequestInv, TypeOK, PutExisting, PutAbsent, UploadBlob, PutRecord
  <1>1. order' = order /\ visObjs \subseteq visObjs' /\ pc'[p] \in {"write", "upload", "record"}
    BY <1>0 DEF PutExisting, PutAbsent, UploadBlob, PutRecord, PerPush
  <1>2. PostOrdered(p)'
    BY <1>0, <1>1 DEF PlanInv, PostOrdered
  <1>3. \A x : Placed(p, x) => Placed(p, x)'
    BY <1>1 DEF Placed
  <1>4. \A i \in DOMAIN Commands[p] :
            Commands[p][i].new = None \/ Placed(p, Commands[p][i].new)'
    BY <1>0, <1>3 DEF PlanInv
  <1>5. CASE PutExisting(p)
    <2>1. \A i \in put'[p] : order'[p][i] \in visObjs'
      BY <1>0, <1>1, <1>5 DEF PutExisting, PlanInv, PerPush
    <2>2. pc'[p] = "write"
      BY <1>5 DEF PutExisting
    <2>3. PlanInv(p)'
      BY <1>2, <1>4, <2>1, <2>2 DEF PlanInv
    <2> QED BY <1>1, <2>2, <2>3 DEF RequestInv
  <1>6. CASE PutAbsent(p)
    <2>1. PICK i \in DOMAIN order[p] :
             /\ NextPut(p, i) /\ cur'[p] = i
             /\ pc'[p] = IF order[p][i] \in Offloaded THEN "upload" ELSE "record"
      BY SMTT(30), <1>0, <1>6 DEF PutAbsent, PerPush
    <2>2. NextPut(p, cur[p])'
      BY <1>1, <1>6, <2>1 DEF PutAbsent, NextPut, WrittenBefore
    <2>3. \A j \in put'[p] : order'[p][j] \in visObjs'
      BY <1>0, <1>1, <1>6 DEF PutAbsent, PlanInv
    <2>4. PlanInv(p)'
      BY <1>1, <1>2, <1>4, <2>1, <2>2, <2>3 DEF PlanInv
    <2> QED BY <1>1, <2>4 DEF RequestInv
  <1>7. CASE UploadBlob(p)
    <2>1. /\ pc[p] = "upload" /\ pc'[p] = "record" /\ put' = put /\ cur' = cur
          /\ blobs' = blobs \cup {order[p][cur[p]]}
      BY <1>0, <1>7 DEF UploadBlob, PerPush, promote
    <2>2. NextPut(p, cur[p])'
      BY <1>0, <1>1, <2>1 DEF PlanInv, NextPut, WrittenBefore
    <2>3. \A j \in put'[p] : order'[p][j] \in visObjs'
      BY <1>0, <1>1, <2>1 DEF PlanInv
    <2>4. PlanInv(p)'
      BY <1>1, <1>2, <1>4, <2>1, <2>2, <2>3 DEF PlanInv
    <2> QED BY <1>1, <2>1, <2>4 DEF RequestInv
  <1>8. CASE PutRecord(p)
    <2>1. /\ pc'[p] = "write" /\ put'[p] = put[p] \cup {cur[p]}
          /\ visObjs' = visObjs \cup {order[p][cur[p]]}
      BY <1>0, <1>8 DEF PutRecord, PerPush
    <2>2. \A j \in put'[p] : order'[p][j] \in visObjs'
      BY <1>0, <1>1, <2>1 DEF PlanInv
    <2>3. PlanInv(p)'
      BY <1>2, <1>4, <2>1, <2>2 DEF PlanInv
    <2> QED BY <2>1, <2>3 DEF RequestInv
  <1> QED BY <1>5, <1>6, <1>7, <1>8

\* Once everything planned is put, the tips have records.
LEMMA PutsDoneInv ==
    ASSUME TypeOK, NEW p \in Pushes, RequestInv(p), PutsDone(p)
    PROVE  RequestInv(p)'
  <1>1. PlanInv(p) /\ put[p] = DOMAIN order[p] /\ pc'[p] = "graph" /\ visObjs' = visObjs
    BY DEF RequestInv, TypeOK, PerPush, PutsDone, Goto, store
  <1>2. TipsVisible(p)'
    BY <1>1 DEF PlanInv, Placed, TipsVisible
  <1> QED BY <1>1, <1>2 DEF RequestInv

\* The ref transaction writes what the snapshot held or a tip.
LEMMA UpdateRefsInv ==
    ASSUME TypeOK, NEW p \in Pushes, RequestInv(p), RefsResolve,
           \/ StartFlush(p) \/ Flushed(p)
           \/ BeginTxn(p) \/ ApplyCommand(p) \/ Commit(p) \/ Retry(p)
    PROVE  RequestInv(p)'
  <1> USE DEF Goto, store, txn
  <1>0. PerPush /\ TxnType(p)
    BY DEF TypeOK
  <1>1. /\ TipsVisible(p) /\ visObjs' = visObjs
        /\ pc'[p] \in {"barrier", "begin", "apply", "await"}
    BY <1>0 DEF StartFlush, Flushed, BeginTxn, ApplyCommand, Commit, Retry, RequestInv, PerPush
  <1>2. TipsVisible(p)'
    BY <1>1 DEF TipsVisible
  <1>3. CASE BeginTxn(p)
    <2>1. view'[p] = visRefs
      BY <1>0, <1>3 DEF BeginTxn, PerPush
    <2>2. ViewResolves(p)'
      BY <1>1, <2>1 DEF ViewResolves, RefsResolve
    <2> QED BY <1>1, <1>2, <2>2 DEF RequestInv
  <1>4. CASE ApplyCommand(p)
    <2>1. ViewResolves(p) /\ view[p] \in [Refs -> Oid]
      BY <1>0, <1>4 DEF ApplyCommand, RequestInv, TxnType
    <2>2. NextCommand(p).new \in visObjs \cup {None}
      <3>1. Commands[p] \in Seq(Command) /\ Len(results[p]) \in Nat
        BY <1>0, RequestAssumption DEF TxnType
      <3>2. Len(results[p]) + 1 \in DOMAIN Commands[p]
        BY <1>4, <3>1 DEF ApplyCommand
      <3> QED BY <1>1, <3>2 DEF TipsVisible, NextCommand
    <2>3. \/ view'[p] = view[p]
          \/ view'[p] = [view[p] EXCEPT ![NextCommand(p).ref] = NextCommand(p).new]
      BY <1>0, <1>4 DEF ApplyCommand, PerPush
    <2>4. ViewResolves(p)'
      BY <1>1, <2>1, <2>2, <2>3 DEF ViewResolves
    <2> QED BY <1>1, <1>2, <2>4 DEF RequestInv
  <1>5. CASE StartFlush(p) \/ Flushed(p) \/ Commit(p) \/ Retry(p)
    <2>1. pc'[p] \in {"barrier", "begin", "await"}
      BY <1>0, <1>5 DEF StartFlush, Flushed, Commit, Retry, PerPush
    <2> QED BY <1>2, <2>1 DEF RequestInv
  <1> QED BY <1>3, <1>4, <1>5

\* A request that ended is no longer constrained.
LEMMA EndedInv ==
    ASSUME NEW p \in Pushes, pc'[p] \in Ended
    PROVE  RequestInv(p)'
  BY DEF RequestInv, Ended

-----------------------------------------------------------------------------
(* The invariant is inductive *)

LEMMA InitSafety == Init => SafetyInv
  <1> SUFFICES ASSUME Init PROVE SafetyInv
    OBVIOUS
  <1>1. Recovered(durObjs, queue, 0) = {} /\ Len(queue) = 0
    BY RecoveredNone DEF Init
  <1>2. VisibleIsQueued /\ EveryPrefixClosed /\ EveryPrefixResolves /\ RefsResolve /\ PointersBacked
    BY <1>1 DEF Init, VisibleIsQueued, EveryPrefixClosed, EveryPrefixResolves, RefsResolve,
       PointersBacked, RecoveredObjs, Closed, NoRefs
  <1>3. ASSUME NEW p \in Pushes
        PROVE  RequestInv(p)
    BY DEF Init, RequestInv
  <1> QED BY <1>2, <1>3 DEF SafetyInv

\* A request's step grows what is recorded.
LEMMA RequestStore ==
    ASSUME TypeOK, SafetyInv, NEW p \in Pushes, ReceivePack(p) \/ Fail(p)
    PROVE  StoreInv' /\ visObjs \subseteq visObjs' /\ blobs \subseteq blobs'
  <1>0. StoreInv /\ RequestInv(p)
    BY DEF SafetyInv, StoreInv
  <1>1. CASE UploadBlob(p)
    BY <1>0, <1>1, UploadStore DEF UploadBlob
  <1>2. CASE PutRecord(p)
    BY <1>0, <1>2, PutRecordStore DEF PutRecord, RequestInv
  <1>3. CASE Commit(p)
    BY <1>0, <1>3, CommitStore DEF Commit, RequestInv
  <1>4. CASE UNCHANGED store
    BY <1>0, <1>4 DEF store, StoreInv, VisibleIsQueued, EveryPrefixClosed, EveryPrefixResolves,
       RefsResolve, PointersBacked, RecoveredObjs, Closed
  <1> QED
    BY <1>1, <1>2, <1>3, <1>4
       DEF ReceivePack, Validate, Promote, UpdateRefs, Ingest, IngestRejected,
           Settled, Descend, Disconnected, Emit, Validated, PutExisting, PutAbsent,
           PutsDone, StartFlush, Flushed, BeginTxn, ApplyCommand, Retry, GiveUp,
           Report, Fail

LEMMA RequestStep ==
    ASSUME TypeOK, SafetyInv, NEW p \in Pushes, ReceivePack(p) \/ Fail(p)
    PROVE  RequestInv(p)'
  <1>0. RequestInv(p) /\ RefsResolve /\ PerPush
    BY DEF SafetyInv, TypeOK
  <1>1. CASE Ingest(p) \/ Validate(p)
    <2>1. CASE Disconnected(p)
      BY <1>0, <2>1, EndedInv DEF Disconnected, Goto, PerPush, Ended
    <2> QED BY <1>0, <1>1, <2>1, IngestInv, SettledInv, DescendInv, EmitInv, ValidatedInv DEF Validate
  <1>2. CASE Promote(p)
    BY <1>0, <1>2, PutInv, PutsDoneInv, UpdateRefsInv DEF Promote
  <1>3. CASE BeginTxn(p) \/ ApplyCommand(p) \/ Commit(p) \/ Retry(p)
    BY <1>0, <1>3, UpdateRefsInv
  <1>4. CASE IngestRejected(p) \/ GiveUp(p) \/ Report(p) \/ Fail(p)
    BY <1>0, <1>4, EndedInv DEF IngestRejected, GiveUp, Report, Fail, Goto, PerPush, Ended
  <1> QED BY <1>1, <1>2, <1>3, <1>4 DEF ReceivePack, UpdateRefs

LEMMA SafetyStep == TypeOK /\ SafetyInv /\ [Next]_vars => SafetyInv'
  <1> SUFFICES ASSUME TypeOK, SafetyInv, [Next]_vars PROVE SafetyInv'
    OBVIOUS
  <1>0. StoreInv /\ PerPush /\ \A p \in Pushes : RequestInv(p)
    BY DEF SafetyInv, StoreInv, TypeOK
  <1>1. ASSUME NEW p \in Pushes, ReceivePack(p) \/ Fail(p)
        PROVE  SafetyInv'
    <2>1. StoreInv' /\ visObjs \subseteq visObjs' /\ blobs \subseteq blobs'
      BY <1>1, RequestStore
    <2>2. \A q \in Pushes \ {p} : Untouched(q)
      BY <1>0, <1>1, ReceivePackFrame
    <2>3. ASSUME NEW q \in Pushes
          PROVE  RequestInv(q)'
      BY <1>0, <1>1, <2>1, <2>2, RequestStep, Stable DEF Untouched, SameLocals
    <2> QED BY <2>1, <2>3 DEF SafetyInv, StoreInv
  <1>2. CASE WalFlush
    <2>1. StoreInv'
      BY <1>0, <1>2, WalFlushStore
    <2>2. ASSUME NEW q \in Pushes
          PROVE  RequestInv(q)'
      BY <1>0, <1>2, Stable DEF WalFlush, walk, promote, txn, SameLocals
    <2> QED BY <2>1, <2>2 DEF SafetyInv, StoreInv
  <1>3. CASE Crash
    <2>1. StoreInv'
      BY <1>0, <1>3, CrashStore
    <2>2. ASSUME NEW q \in Pushes
          PROVE  RequestInv(q)'
      <3>1. CASE pc[q] \in Running
        BY <1>0, <1>3, <3>1, EndedInv DEF Crash, Ended
      <3>2. CASE pc[q] \notin Running
        BY <1>0, <1>3, <3>2 DEF Crash, Drop, RequestInv, Running
      <3> QED BY <3>1, <3>2
    <2> QED BY <2>1, <2>2 DEF SafetyInv, StoreInv
  <1>4. CASE UNCHANGED vars
    <2>1. StoreInv'
      BY <1>0, <1>4 DEF vars, store, StoreInv, VisibleIsQueued, EveryPrefixClosed,
         EveryPrefixResolves, RefsResolve, PointersBacked, RecoveredObjs, Closed
    <2>2. ASSUME NEW q \in Pushes
          PROVE  RequestInv(q)'
      BY <1>0, <1>4, Stable DEF vars, store, walk, promote, txn, SameLocals
    <2> QED BY <2>1, <2>2 DEF SafetyInv, StoreInv
  <1> QED BY <1>1, <1>2, <1>3, <1>4 DEF Next

\* The inductive invariant: what every request knows of its traversal and its
\* plan, and what every crash would leave of the writes in flight.
THEOREM SafetyInvariant == Spec => [](TypeOK /\ SafetyInv)
  <1>1. Init => TypeOK /\ SafetyInv
    BY InitType, InitSafety
  <1>2. TypeOK /\ SafetyInv /\ [Next]_vars => TypeOK' /\ SafetyInv'
    BY TypeStep, SafetyStep
  <1> QED BY <1>1, <1>2, PTL DEF Spec

\* promote.rs's crash-safety claim, for any number of pushes, objects and
\* crashes: whatever prefix of the submitted writes survives a crash, every
\* object recovery finds has its children.  (Under WellTypedAssumption.)
THEOREM CrashKeepsClosure == Spec => []EveryPrefixClosed
  <1>1. TypeOK /\ SafetyInv => EveryPrefixClosed
    BY DEF SafetyInv
  <1> QED BY <1>1, SafetyInvariant, PTL

\* The ref transaction comes last in submission order: a recovered ref always
\* finds its target, and so by CrashKeepsClosure everything below it.
THEOREM CrashKeepsRefsResolving == Spec => []EveryPrefixResolves
  <1>1. TypeOK /\ SafetyInv => EveryPrefixResolves
    BY DEF SafetyInv
  <1> QED BY <1>1, SafetyInvariant, PTL

\* A fetch that runs beside any pushes reads refs that resolve, over records
\* with no link missing.
THEOREM ReadersSeeComplete == Spec => []VisibleComplete
  <1>1. TypeOK /\ SafetyInv => VisibleComplete
    <2> SUFFICES ASSUME TypeOK, SafetyInv PROVE VisibleComplete
      OBVIOUS
    <2>1. visObjs = RecoveredObjs(Len(queue)) /\ Len(queue) \in 0..Len(queue)
      BY DEF SafetyInv, VisibleIsQueued, TypeOK, StoreType
    <2>2. Closed(visObjs)
      BY <2>1 DEF SafetyInv, EveryPrefixClosed
    <2> QED BY <2>2 DEF SafetyInv, RefsResolve, VisibleComplete
  <1> QED BY <1>1, SafetyInvariant, PTL

\* ObjectDb::put: a pointer record that any reader, before or after a crash,
\* can find has its body in the blob store.
THEOREM PointersAreBacked == Spec => []PointersBacked
  <1>1. TypeOK /\ SafetyInv => PointersBacked
    BY DEF SafetyInv
  <1> QED BY <1>1, SafetyInvariant, PTL

-----------------------------------------------------------------------------
(* The ref transaction *)

-----------------------------------------------------------------------------
(* The inductive invariant *)

\* A push that has submitted its ref transaction never runs another one.
Sent == {"await", "done", "failed"}

Accepted(p) == \E i \in DOMAIN results[p] : results[p][i] = "ok"

\* Every push submits at most one write set, which is queued or has landed.
QueueInv ==
    /\ \A p \in landed : pc[p] \in Sent
    /\ \A n \in 1..Len(queue) : queue[n].type = "refs" =>
          pc[queue[n].by] \in Sent /\ queue[n].by \notin landed
    /\ \A m, n \in 1..Len(queue) :
          queue[m].type = "refs" /\ queue[n].type = "refs" /\ m # n
             => queue[m].by # queue[n].by

\* A push that awaits its commit counts the queue up to its own write set.
AwaitInv(p) ==
    /\ pc[p] = "await" /\ wrote[p] # {} =>
          \/ owed[p] = 0 /\ p \in landed
          \/ /\ owed[p] \in 1..Len(queue)
             /\ queue[owed[p]].type = "refs" /\ queue[owed[p]].by = p
    /\ pc[p] = "await" /\ Accepted(p) => wrote[p] # {}
    /\ pc[p] = "done" /\ Accepted(p) => p \in landed

\* The traversal of a self-contained push never leaves its pack.
ContainedInv(p) ==
    SelfContained(p) =>
        /\ pc[p] # "rejected"
        /\ pc[p] = "validate" =>
              /\ None \in done[p]
              /\ \A k \in 1..Len(path[p]) : path[p][k] \in Pack[p] \cup {None}

\* Command i is the first of p on ref r that was accepted.
First(p, r, i) ==
    /\ Commands[p][i].ref = r
    /\ results[p][i] = "ok"
    /\ \A j \in 1..(i - 1) : Commands[p][j].ref # r \/ results[p][j] # "ok"

\* f is what the first n commands of p make of the refs s, one by one.
Runs(f, p, n, s) ==
    /\ f \in [0..n -> [Refs -> Oid]]
    /\ f[0] = s
    /\ \A j \in 1..n : f[j] = Durable!Swap(f[j - 1], Commands[p][j])

\* The transaction of p began on the refs s: they still are the current ones
\* except where another commit made them stale, and the commands so far have
\* turned them into p's view.
Snapshot(p, s) ==
    /\ Len(results[p]) <= Len(Commands[p])
    /\ \A r \in Refs \ stale[p] : s[r] = visRefs[r]
    /\ \A r \in Refs \ wrote[p] : view[p][r] = s[r]
    /\ wrote[p] \subseteq CommandRefs(p)
    /\ \A j \in 1..Len(results[p]) : results[p][j] = "ok" => Commands[p][j].ref \in wrote[p]
    /\ \A r \in wrote[p] : \E i \in 1..Len(results[p]) :
          First(p, r, i) /\ Commands[p][i].old = s[r]
    /\ \E f : Runs(f, p, Len(results[p]), s) /\ f[Len(results[p])] = view[p]

SnapshotInv(p) == pc[p] = "apply" => \E s \in [Refs -> Oid] : Snapshot(p, s)

\* h is the refs after each queued write: from the durable ones to the visible
\* ones, each write set being the effect of its whole push.
History(h, q, dur, vis) ==
    /\ h \in [0..Len(q) -> [Refs -> Oid]]
    /\ h[0] = dur /\ h[Len(q)] = vis
    /\ \A n \in 1..Len(q) :
          \/ /\ q[n].type = "refs"
             /\ h[n] = Overlay(h[n - 1], q[n])
             /\ h[n] = Durable!After(q[n].by, h[n - 1])
          \/ q[n].type = "object" /\ h[n] = h[n - 1]

HistoryInv == \E h : History(h, queue, durRefs, visRefs)

TxnInv ==
    /\ QueueInv
    /\ \A p \in Pushes : AwaitInv(p) /\ ContainedInv(p) /\ SnapshotInv(p)
    /\ HistoryInv

-----------------------------------------------------------------------------
(* What a step does to the store *)

\* The steps that submit a write, and all the others.
LEMMA StoreSteps ==
    ASSUME NEW p \in Pushes, ReceivePack(p) \/ Fail(p)
    PROVE  \/ PutRecord(p)
           \/ Commit(p)
           \/ UNCHANGED <<durObjs, durRefs, queue, visRefs, landed, crashes>>
  <1> USE DEF store
  <1>1. Ingest(p) \/ IngestRejected(p) \/ Validate(p) \/ Fail(p) => UNCHANGED store
    BY DEF Ingest, IngestRejected, Validate, Settled, Descend, Disconnected, Emit, Validated, Fail
  <1>2. Promote(p) => PutRecord(p) \/ UploadBlob(p) \/ UNCHANGED store
    BY DEF Promote, PutExisting, PutAbsent, PutsDone, StartFlush, Flushed
  <1>3. UpdateRefs(p) => Commit(p) \/ UNCHANGED store
    BY DEF UpdateRefs, BeginTxn, ApplyCommand, Retry, GiveUp, Report
  <1> QED BY <1>1, <1>2, <1>3 DEF ReceivePack, UploadBlob

\* How a request's position moves.
LEMMA PcSteps ==
    ASSUME PerPush, NEW p \in Pushes, ReceivePack(p) \/ Fail(p)
    PROVE  /\ pc[p] \in Sent => pc'[p] \in Sent
           /\ pc'[p] \in {"done", "await"} =>
                 \/ Commit(p) \/ GiveUp(p) \/ Report(p)
           /\ pc'[p] = "apply" => BeginTxn(p) \/ ApplyCommand(p)
           /\ pc'[p] = "rejected" => IngestRejected(p) \/ Disconnected(p)
           /\ pc'[p] = "validate" =>
                 Ingest(p) \/ Settled(p) \/ Descend(p) \/ Emit(p)
  <1> USE DEF Goto, PerPush, Sent
  <1>1. CASE Ingest(p) \/ IngestRejected(p)
    BY <1>1 DEF Ingest, IngestRejected
  <1>2. CASE Validate(p)
    BY <1>2 DEF Validate, Settled, Descend, Disconnected, Emit, Validated
  <1>3. CASE Promote(p)
    BY <1>3 DEF Promote, PutExisting, PutAbsent, UploadBlob, PutRecord, PutsDone, StartFlush, Flushed
  <1>4. CASE UpdateRefs(p)
    BY <1>4 DEF UpdateRefs, BeginTxn, ApplyCommand, Commit, Retry, GiveUp, Report
  <1>5. CASE Fail(p)
    BY <1>5 DEF Fail, Running
  <1> QED BY <1>1, <1>2, <1>3, <1>4, <1>5 DEF ReceivePack

-----------------------------------------------------------------------------
(* Write sets in the queue *)

\* The queue after one more write.
LEMMA QueueGrows ==
    ASSUME TypeOK, NEW e \in ObjectWrites \cup RefWrites, queue' = Append(queue, e)
    PROVE  /\ Len(queue) \in Nat /\ Len(queue') = Len(queue) + 1
           /\ \A n \in 1..Len(queue) : queue'[n] = queue[n]
           /\ queue'[Len(queue) + 1] = e
  BY AppendProperties DEF TypeOK, StoreType

LEMMA CommitEntry ==
    ASSUME TypeOK, NEW p \in Pushes, Commit(p), wrote[p] # {}
    PROVE  /\ RefWrite(p, view[p], wrote[p]) \in ObjectWrites \cup RefWrites
           /\ queue' = Append(queue, RefWrite(p, view[p], wrote[p]))
           /\ visRefs' = Overlay(visRefs, RefWrite(p, view[p], wrote[p]))
           /\ pc[p] = "apply" /\ pc'[p] = "await" /\ owed'[p] = Len(queue) + 1
           /\ UNCHANGED <<durObjs, durRefs, visObjs, landed, crashes, view, wrote, results>>
  <1>1. TxnType(p) /\ PerPush
    BY DEF TypeOK
  <1>2. RefWrite(p, view[p], wrote[p]) \in RefWrites
    BY <1>1 DEF TxnType, RefWrite, RefWrites
  <1> QED BY <1>1, <1>2 DEF Commit, PerPush, Goto

LEMMA RecordEntry ==
    ASSUME TypeOK, NEW p \in Pushes, PutRecord(p)
    PROVE  /\ \E o \in Objects : queue' = Append(queue, ObjectWrite(o))
           /\ \A o \in Objects : ObjectWrite(o) \in ObjectWrites \cup RefWrites
           /\ UNCHANGED <<durObjs, durRefs, visRefs, landed, crashes>>
           /\ pc'[p] = "write"
  <1>1. order[p][cur[p]] \in Objects /\ PerPush
    BY DEF PutRecord, TypeOK, WalkType, PromoteType
  <1> QED BY <1>1 DEF PutRecord, ObjectWrite, ObjectWrites, PerPush, Goto

LEMMA RequestQueue ==
    ASSUME TypeOK, QueueInv, NEW p \in Pushes, ReceivePack(p) \/ Fail(p)
    PROVE  QueueInv'
  <1>0. PerPush /\ (\A q \in Pushes \ {p} : pc'[q] = pc[q]) /\ landed \subseteq Pushes
    BY ReceivePackFrame DEF TypeOK, Untouched, StoreType
  <1>1. \A q \in Pushes : pc[q] \in Sent => pc'[q] \in Sent
    BY <1>0, PcSteps
  <1>2. queue \in Seq(ObjectWrites \cup RefWrites) /\ Len(queue) \in Nat
    BY DEF TypeOK, StoreType
  <1>3. \A n \in 1..Len(queue) : queue[n].type = "refs" => queue[n].by \in Pushes
    BY <1>2 DEF ObjectWrites, RefWrites
  <1>4. CASE UNCHANGED <<durObjs, durRefs, queue, visRefs, landed, crashes>>
    BY <1>0, <1>1, <1>3, <1>4 DEF QueueInv
  <1>5. CASE PutRecord(p)
    <2>1. PICK o \in Objects : queue' = Append(queue, ObjectWrite(o))
      BY <1>5, RecordEntry
    <2>2. landed' = landed /\ ObjectWrite(o) \in ObjectWrites \cup RefWrites
      BY <1>5, RecordEntry
    <2>3. ObjectWrite(o).type # "refs"
      BY DEF ObjectWrite
    <2>4. \A n \in 1..Len(queue') : queue'[n].type = "refs" => n \in 1..Len(queue) /\ queue'[n] = queue[n]
      BY <2>1, <2>2, <2>3, QueueGrows
    <2> QED BY <1>0, <1>1, <1>3, <2>2, <2>4 DEF QueueInv
  <1>6. CASE Commit(p) /\ wrote[p] # {}
    <2> DEFINE e == RefWrite(p, view[p], wrote[p])
    <2>1. /\ e \in ObjectWrites \cup RefWrites /\ queue' = Append(queue, e)
          /\ pc[p] = "apply" /\ pc'[p] = "await" /\ landed' = landed
      BY <1>6, CommitEntry
    <2>2. e.by = p
      BY DEF RefWrite
    <2> HIDE DEF e
    <2>3. /\ Len(queue') = Len(queue) + 1
          /\ \A n \in 1..Len(queue) : queue'[n] = queue[n]
          /\ queue'[Len(queue) + 1] = e
      BY <2>1, QueueGrows
    <2>4. p \notin landed /\ \A n \in 1..Len(queue) : queue[n].type = "refs" => queue[n].by # p
      BY <2>1 DEF QueueInv, Sent
    <2>5. pc'[p] \in Sent
      BY <2>1 DEF Sent
    <2>6. \A n \in 1..Len(queue') : n \in 1..Len(queue) \/ n = Len(queue) + 1
      BY <1>2, <2>3
    <2>7. ASSUME NEW n \in 1..Len(queue'), queue'[n].type = "refs"
          PROVE  pc'[queue'[n].by] \in Sent /\ queue'[n].by \notin landed'
      BY <1>1, <1>3, <2>1, <2>2, <2>3, <2>4, <2>5, <2>6, <2>7 DEF QueueInv
    <2>8. ASSUME NEW m \in 1..Len(queue'), NEW n \in 1..Len(queue'),
                 queue'[m].type = "refs", queue'[n].type = "refs", m # n
          PROVE  queue'[m].by # queue'[n].by
      BY <2>2, <2>3, <2>4, <2>6, <2>8 DEF QueueInv
    <2> QED BY <1>0, <1>1, <2>1, <2>7, <2>8 DEF QueueInv
  <1>7. CASE Commit(p) /\ wrote[p] = {}
    BY <1>0, <1>1, <1>3, <1>7 DEF QueueInv, Commit
  <1> QED BY <1>4, <1>5, <1>6, <1>7, StoreSteps

\* WalFlush: the oldest write leaves the queue.
LEMMA QueueDrains ==
    ASSUME TypeOK, WalFlush
    PROVE  /\ Len(queue) \in Nat /\ Len(queue) >= 1
           /\ Len(queue') = Len(queue) - 1
           /\ \A n \in 1..Len(queue') : n + 1 \in 1..Len(queue) /\ queue'[n] = queue[n + 1]
           /\ 1 \in 1..Len(queue) /\ Head(queue) = queue[1]
           /\ \/ /\ queue[1] \in ObjectWrites /\ queue[1].type = "object"
                 /\ durObjs' = durObjs \cup {queue[1].oid}
                 /\ UNCHANGED <<durRefs, landed>>
              \/ /\ queue[1] \in RefWrites /\ queue[1].type = "refs"
                 /\ durRefs' = Overlay(durRefs, queue[1])
                 /\ landed' = landed \cup {queue[1].by}
                 /\ durObjs' = durObjs
           /\ UNCHANGED <<visRefs, pc, results, wrote, view, stale>>
  <1>1. queue \in Seq(ObjectWrites \cup RefWrites) /\ queue # <<>> /\ queue' = Tail(queue)
    BY DEF TypeOK, StoreType, WalFlush
  <1>2. /\ Len(queue) \in Nat /\ Len(queue) >= 1
        /\ Len(queue') = Len(queue) - 1
        /\ \A n \in 1..(Len(queue) - 1) : queue'[n] = queue[n + 1]
        /\ Head(queue) = queue[1]
    BY <1>1, HeadTailProperties, EmptySeq
  <1>3. queue[1] \in ObjectWrites \cup RefWrites
    BY <1>1, <1>2, ElementOfSeq
  <1>4. /\ queue[1] \in ObjectWrites => queue[1].type = "object"
        /\ queue[1] \in RefWrites => queue[1].type = "refs"
    BY DEF ObjectWrites, RefWrites
  <1>5. CASE queue[1] \in ObjectWrites
    BY <1>2, <1>4, <1>5 DEF WalFlush, txn
  <1>6. CASE queue[1] \in RefWrites
    BY <1>2, <1>4, <1>6 DEF WalFlush, txn
  <1> QED BY <1>3, <1>5, <1>6

LEMMA WalQueue ==
    ASSUME TypeOK, QueueInv, WalFlush
    PROVE  QueueInv'
  <1>1. \A n \in 1..Len(queue') : n + 1 \in 1..Len(queue) /\ n + 1 # 1 /\ queue'[n] = queue[n + 1]
    BY QueueDrains
  <1>2. 1 \in 1..Len(queue) /\ pc' = pc
    BY QueueDrains
  <1>3. \/ landed' = landed
        \/ queue[1].type = "refs" /\ landed' = landed \cup {queue[1].by}
    BY QueueDrains
  <1>4. \A p \in landed' : pc'[p] \in Sent
    BY <1>2, <1>3 DEF QueueInv
  <1>5. ASSUME NEW n \in 1..Len(queue'), queue'[n].type = "refs"
        PROVE  pc'[queue'[n].by] \in Sent /\ queue'[n].by \notin landed'
    <2>1. PICK m \in 1..Len(queue) : m # 1 /\ queue'[n] = queue[m]
      BY <1>1
    <2>2. pc[queue[m].by] \in Sent /\ queue[m].by \notin landed
      BY <1>5, <2>1 DEF QueueInv
    <2>3. queue[1].type = "refs" => queue[m].by # queue[1].by
      BY <1>2, <1>5, <2>1 DEF QueueInv
    <2> QED BY <1>2, <1>3, <2>1, <2>2, <2>3
  <1>6. ASSUME NEW m \in 1..Len(queue'), NEW n \in 1..Len(queue'),
               queue'[m].type = "refs", queue'[n].type = "refs", m # n
        PROVE  queue'[m].by # queue'[n].by
    <2>1. m + 1 # n + 1
      BY <1>6
    <2> QED BY <1>1, <1>6, <2>1 DEF QueueInv
  <1> QED BY <1>4, <1>5, <1>6 DEF QueueInv

-----------------------------------------------------------------------------
(* Reported outcomes *)

LEMMA RequestAwait ==
    ASSUME TypeOK, QueueInv, NEW p \in Pushes, ReceivePack(p) \/ Fail(p),
           NEW q \in Pushes, AwaitInv(q), SnapshotInv(q)
    PROVE  AwaitInv(q)'
  <1>0. PerPush /\ PerPush'
    BY ReceivePackFrame DEF TypeOK
  <1>1. /\ landed' = landed /\ Len(queue) \in Nat
        /\ \A n \in 1..Len(queue) : n \in 1..Len(queue') /\ queue'[n] = queue[n]
    <2>1. CASE UNCHANGED <<durObjs, durRefs, queue, visRefs, landed, crashes>>
      BY <2>1 DEF TypeOK, StoreType
    <2>2. CASE PutRecord(p)
      BY <2>2, RecordEntry, QueueGrows
    <2>3. CASE Commit(p) /\ wrote[p] # {}
      BY <2>3, CommitEntry, QueueGrows
    <2>4. CASE Commit(p) /\ wrote[p] = {}
      BY <2>4 DEF Commit, TypeOK, StoreType
    <2> QED BY <2>1, <2>2, <2>3, <2>4, StoreSteps
  <1>2. CASE q # p
    <2>1. /\ pc'[q] = pc[q] /\ wrote'[q] = wrote[q] /\ owed'[q] = owed[q]
          /\ results'[q] = results[q]
      BY <1>0, <1>2, ReceivePackFrame DEF Untouched
    <2> QED BY <1>1, <2>1 DEF AwaitInv, Accepted
  <1>3. CASE q = p /\ Commit(p)
    <2>1. pc'[p] = "await" /\ pc[p] = "apply" /\ wrote' = wrote /\ results' = results
      BY <1>0, <1>3 DEF Commit, Goto, PerPush
    <2>2. PICK s \in [Refs -> Oid] : Snapshot(p, s)
      BY <1>3, <2>1 DEF SnapshotInv
    <2>3. Accepted(p) => wrote[p] # {}
      <3>1. results[p] \in Seq(Outcomes)
        BY DEF TypeOK, TxnType
      <3>2. DOMAIN results[p] = 1..Len(results[p])
        BY <3>1
      <3> QED BY <2>2, <3>2 DEF Snapshot, Accepted
    <2>4. ASSUME wrote[p] # {}
          PROVE  /\ owed'[p] \in 1..Len(queue')
                 /\ queue'[owed'[p]].type = "refs" /\ queue'[owed'[p]].by = p
      <3> DEFINE e == RefWrite(p, view[p], wrote[p])
      <3>1. e.type = "refs" /\ e.by = p
        BY DEF RefWrite
      <3>2. e \in ObjectWrites \cup RefWrites /\ queue' = Append(queue, e) /\ owed'[p] = Len(queue) + 1
        BY <1>3, <2>4, CommitEntry
      <3> HIDE DEF e
      <3>3. Len(queue') = Len(queue) + 1 /\ queue'[Len(queue) + 1] = e
        BY <3>2, QueueGrows
      <3> QED BY <1>1, <3>1, <3>2, <3>3
    <2> QED BY <1>3, <2>1, <2>3, <2>4 DEF AwaitInv, Accepted
  <1>4. CASE q = p /\ GiveUp(p)
    <2>1. pc'[p] = "done" /\ results'[p] = [i \in DOMAIN Commands[p] |-> "conflict"]
      BY <1>0, <1>4 DEF GiveUp, Goto, PerPush
    <2>2. ~ Accepted(p)'
      BY <2>1 DEF Accepted
    <2> QED BY <1>4, <2>1, <2>2 DEF AwaitInv
  <1>5. CASE q = p /\ Report(p)
    <2>1. pc'[p] = "done" /\ results'[p] = results[p] /\ pc[p] = "await" /\ owed[p] = 0
      BY <1>0, <1>5 DEF Report, Goto, PerPush
    <2>2. Accepted(p)' <=> Accepted(p)
      BY <2>1 DEF Accepted
    <2>3. owed[p] \notin 1..Len(queue)
      BY <1>1, <2>1
    <2> QED BY <1>1, <1>5, <2>1, <2>2, <2>3 DEF AwaitInv
  <1>6. CASE q = p /\ ~ Commit(p) /\ ~ GiveUp(p) /\ ~ Report(p)
    <2>1. pc'[p] \notin {"done", "await"}
      BY <1>0, <1>6, PcSteps
    <2> QED BY <1>6, <2>1 DEF AwaitInv
  <1> QED BY <1>2, <1>3, <1>4, <1>5, <1>6

LEMMA WalAwait ==
    ASSUME TypeOK, WalFlush, NEW q \in Pushes, AwaitInv(q)
    PROVE  AwaitInv(q)'
  <1>1. /\ pc'[q] = pc[q] /\ wrote'[q] = wrote[q] /\ results'[q] = results[q]
        /\ owed'[q] = IF owed[q] > 0 THEN owed[q] - 1 ELSE 0
        /\ owed[q] \in Nat /\ landed \subseteq landed'
    BY DEF WalFlush, txn, TypeOK, PromoteType
  <1>2. Accepted(q)' <=> Accepted(q)
    BY <1>1 DEF Accepted
  <1>3. ASSUME owed[q] = 0, q \in landed
        PROVE  owed'[q] = 0 /\ q \in landed'
    BY <1>1, <1>3
  <1>4. ASSUME owed[q] \in 1..Len(queue), queue[owed[q]].type = "refs", queue[owed[q]].by = q
        PROVE  \/ owed'[q] = 0 /\ q \in landed'
               \/ /\ owed'[q] \in 1..Len(queue')
                  /\ queue'[owed'[q]].type = "refs" /\ queue'[owed'[q]].by = q
    <2>1. CASE owed[q] = 1
      BY <1>1, <1>4, <2>1, QueueDrains
    <2>2. CASE owed[q] # 1
      <3>1. PICK n \in Nat : n = owed[q] - 1
        BY <1>1, <1>4
      <3>2. owed'[q] = n /\ n \in 1..Len(queue') /\ n + 1 = owed[q]
        BY <1>1, <1>4, <2>2, <3>1, QueueDrains
      <3>3. queue'[n] = queue[n + 1]
        BY <3>2, QueueDrains
      <3> QED BY <1>4, <3>2, <3>3
    <2> QED BY <2>1, <2>2
  <1> QED BY <1>1, <1>2, <1>3, <1>4 DEF AwaitInv

-----------------------------------------------------------------------------
(* Self-contained pushes *)

LEMMA RequestContained ==
    ASSUME TypeOK, NEW p \in Pushes, ReceivePack(p) \/ Fail(p), ContainedInv(p)
    PROVE  ContainedInv(p)'
  <1> SUFFICES ASSUME SelfContained(p)
               PROVE  /\ pc'[p] # "rejected"
                      /\ pc'[p] = "validate" =>
                            /\ None \in done'[p]
                            /\ \A k \in 1..Len(path'[p]) : path'[p][k] \in Pack[p] \cup {None}
    BY DEF ContainedInv, SelfContained, Closed
  <1> DEFINE In == Pack[p] \cup {None}
  <1>0. PerPush /\ WalkType(p) /\ Pack[p] \subseteq Objects
    BY RequestAssumption DEF TypeOK
  <1>1. ASSUME pc[p] = "validate"
        PROVE  /\ None \in done[p] /\ Len(path[p]) \in 1..Len(path[p])
               /\ \A k \in 1..Len(path[p]) : path[p][k] \in In
               /\ Entering(p) => Entered(p) \in In
    <2>1. /\ None \in done[p] /\ Top(p) \in Oid /\ Len(path[p]) \in 1..Len(path[p])
          /\ \A k \in 1..Len(path[p]) : path[p][k] \in In
          /\ at[p][Len(path[p])] \in Nat
      BY <1>0, <1>1, WalkOps DEF ContainedInv
    <2>2. Top(p) \in In
      BY <2>1 DEF Top
    <2>3. Links(p, Top(p)) \in Seq(Oid)
      BY <2>1, LinksType
    <2>4. \A i \in 1..Len(Links(p, Top(p))) : Links(p, Top(p))[i] \in In
      <3>1. CASE Top(p) = None
        <4>1. Commands[p] \in Seq(Command)
          BY RequestAssumption
        <4>2. DOMAIN Tips(p) = 1..Len(Tips(p))
          BY <2>3, <3>1, LenProperties DEF Links
        <4>3. \A i \in 1..Len(Tips(p)) : i \in DOMAIN Commands[p] /\ Tips(p)[i] = Commands[p][i].new
          BY <4>2 DEF Tips
        <4> QED BY <3>1, <4>3 DEF Links, SelfContained
      <3>2. CASE Top(p) # None
        <4>1. Top(p) \in Pack[p] /\ Top(p) \in Objects /\ Links(p, Top(p)) = Children[Top(p)]
          BY <1>0, <2>2, <3>2 DEF Links
        <4>2. Kids(Top(p)) \subseteq Pack[p]
          BY <4>1 DEF SelfContained, Closed
        <4>3. Children[Top(p)] \in Seq(Objects)
          BY <4>1, ObjectAssumption
        <4>4. DOMAIN Children[Top(p)] = 1..Len(Children[Top(p)])
          BY <4>3, LenProperties
        <4> QED BY <4>1, <4>2, <4>4 DEF Kids
      <3> QED BY <3>1, <3>2
    <2>5. Entering(p) => at[p][Len(path[p])] + 1 \in 1..Len(Links(p, Top(p)))
      BY <2>1, <2>3, LenProperties DEF Entering
    <2> QED BY <2>1, <2>4, <2>5 DEF Entered
  <1>2. ~ Disconnected(p) /\ ~ IngestRejected(p)
    BY <1>1 DEF Disconnected, IngestRejected, Staged, SelfContained
  <1>3. pc'[p] # "rejected"
    BY <1>0, <1>2, PcSteps
  <1>4. CASE Ingest(p)
    BY <1>0, <1>3, <1>4 DEF Ingest, PerPush
  <1>5. CASE Settled(p)
    BY <1>0, <1>1, <1>3, <1>5 DEF Settled, PerPush
  <1>6. CASE Descend(p)
    <2>1. /\ path'[p] = Append(path[p], Entered(p)) /\ Entered(p) \in In
          /\ None \in done'[p] /\ path[p] \in Seq(Oid) /\ Entered(p) \in Oid
      BY <1>0, <1>1, <1>6, WalkOps DEF Descend, PerPush, WalkType
    <2>2. \A k \in 1..Len(path'[p]) : path'[p][k] \in In
      BY <1>1, <1>6, <2>1, AppendProperties DEF Descend
    <2> QED BY <1>3, <2>1, <2>2
  <1>7. CASE Emit(p)
    <2>1. /\ path'[p] = SubSeq(path[p], 1, Len(path[p]) - 1) /\ pc[p] = "validate"
          /\ None \in done'[p] /\ path[p] \in Seq(Oid) /\ Len(path[p]) > 1
      BY <1>0, <1>1, <1>7 DEF Emit, PerPush, WalkType
    <2>2. \A k \in 1..Len(path'[p]) : k \in 1..Len(path[p]) /\ path'[p][k] = path[p][k]
      BY <2>1, SubSeqProperties
    <2> QED BY <1>1, <1>3, <2>1, <2>2
  <1> QED BY <1>0, <1>3, <1>4, <1>5, <1>6, <1>7, PcSteps

-----------------------------------------------------------------------------
(* The transaction's view *)

LEMMA CommandFacts ==
    ASSUME NEW p \in Pushes
    PROVE  /\ Len(Commands[p]) \in Nat /\ DOMAIN Commands[p] = 1..Len(Commands[p])
           /\ \A j \in 1..Len(Commands[p]) :
                 /\ Commands[p][j].ref \in Refs /\ Commands[p][j].ref \in CommandRefs(p)
                 /\ Commands[p][j].new \in Oid
  <1>1. Commands[p] \in Seq(Command)
    BY RequestAssumption
  <1>2. \A j \in 1..Len(Commands[p]) : Commands[p][j] \in Command
    BY <1>1, ElementOfSeq
  <1> QED BY <1>1, <1>2, LenProperties DEF Command, CommandRefs

\* What After computes is the end of any run of the push's commands.
LEMMA AfterRuns ==
    ASSUME NEW p \in Pushes, NEW rs \in [Refs -> Oid], NEW g,
           Runs(g, p, Len(Commands[p]), rs)
    PROVE  Durable!After(p, rs) = g[Len(Commands[p])]
  <1> DEFINE L == Len(Commands[p])
             Step(f, k) == IF k = 0 THEN rs ELSE Durable!Swap(f[k - 1], Commands[p][k])
             run[k \in 0..Len(Commands[p])] ==
                IF k = 0 THEN rs ELSE Durable!Swap(run[k - 1], Commands[p][k])
  <1>0. L \in Nat
    BY CommandFacts
  <1>1. g = [k \in 0..L |-> Step(g, k)]
    <2>1. ASSUME NEW k \in 0..L PROVE g[k] = Step(g, k)
      BY <1>0 DEF Runs
    <2> HIDE DEF Step
    <2> QED BY <2>1 DEF Runs
  <1>2. run = [k \in 0..L |-> Step(run, k)]
    BY <1>1
  <1>3. Durable!After(p, rs) = run[L]
    BY DEF Durable!After
  <1> HIDE DEF run
  <1>4. PICK u : Durable!After(p, rs) = u[L] /\ u = [k \in 0..L |-> Step(u, k)]
    BY <1>2, <1>3
  <1> HIDE DEF L
  <1>5. \A k \in 0..L : u[k] = Step(u, k) /\ g[k] = Step(g, k)
    <2> HIDE DEF Step
    <2> QED BY <1>1, <1>4
  <1> DEFINE Same(n) == n <= L => u[n] = g[n]
             U == {n \in Nat : Same(n)}
  <1>6. Same(0)
    BY <1>0, <1>5
  <1>7. ASSUME NEW n \in Nat, Same(n) PROVE Same(n + 1)
    <2> SUFFICES ASSUME n + 1 <= L PROVE u[n + 1] = g[n + 1]
      OBVIOUS
    <2>1. n + 1 \in 0..L /\ n + 1 # 0 /\ (n + 1) - 1 = n /\ u[n] = g[n]
      BY <1>0, <1>7
    <2>2. u[n + 1] = Step(u, n + 1) /\ g[n + 1] = Step(g, n + 1)
      BY <1>5, <2>1
    <2>3. /\ Step(u, n + 1) = Durable!Swap(u[n], Commands[p][n + 1])
          /\ Step(g, n + 1) = Durable!Swap(g[n], Commands[p][n + 1])
      BY <2>1
    <2> HIDE DEF Step
    <2> QED BY <2>1, <2>2, <2>3
  <1>8. U = Nat
    <2>1. 0 \in U /\ \A n \in U : n + 1 \in U
      <3> HIDE DEF Same
      <3> QED BY <1>6, <1>7
    <2> HIDE DEF U
    <2> QED BY <2>1, Induction DEF U
  <1>9. Same(L)
    BY <1>0, <1>8
  <1> QED BY <1>0, <1>4, <1>9 DEF L

\* Without a conflict the commands do to the current refs what they did to the
\* snapshot: the write set is the effect of the whole push.
LEMMA CommitIsAfter ==
    ASSUME TypeOK, NEW p \in Pushes, NEW s \in [Refs -> Oid], Snapshot(p, s),
           Len(results[p]) = Len(Commands[p]), ~ Conflicting(p)
    PROVE  Overlay(visRefs, RefWrite(p, view[p], wrote[p])) = Durable!After(p, visRefs)
  <1> DEFINE L == Len(Commands[p])
             C == CommandRefs(p)
  <1>1. PICK f : Runs(f, p, L, s) /\ f[L] = view[p]
    BY DEF Snapshot
  <1> DEFINE g == [j \in 0..L |-> [r \in Refs |-> IF r \in C THEN f[j][r] ELSE visRefs[r]]]
  <1>2. /\ visRefs \in [Refs -> Oid] /\ L \in Nat /\ f \in [0..L -> [Refs -> Oid]]
        /\ f[0] = s /\ \A j \in 1..L : f[j] = Durable!Swap(f[j - 1], Commands[p][j])
    BY <1>1, CommandFacts DEF TypeOK, StoreType, Runs
  <1>3. \A r \in Refs : r \in C => s[r] = visRefs[r]
    BY DEF Snapshot, Conflicting
  <1> HIDE DEF L, C
  <1>4. g \in [0..L -> [Refs -> Oid]]
    <2>1. ASSUME NEW j \in 0..L PROVE [r \in Refs |-> IF r \in C THEN f[j][r] ELSE visRefs[r]] \in [Refs -> Oid]
      <3>1. f[j] \in [Refs -> Oid]
        BY <1>2
      <3> QED BY <1>2, <3>1
    <2> QED BY <2>1
  <1>5. g[0] = visRefs
    <2>1. g[0] = [r \in Refs |-> IF r \in C THEN s[r] ELSE visRefs[r]]
      BY <1>2
    <2> HIDE DEF g
    <2> QED BY <1>2, <1>3, <2>1
  <1>6. ASSUME NEW j \in 1..L PROVE g[j] = Durable!Swap(g[j - 1], Commands[p][j])
    <2>1. /\ j \in 0..L /\ j - 1 \in 0..L
          /\ Commands[p][j].ref \in Refs /\ Commands[p][j].ref \in C
          /\ Commands[p][j].new \in Oid
      BY <1>2, CommandFacts DEF L, C
    <2>2. PICK a \in [Refs -> Oid], b \in [Refs -> Oid] : a = f[j - 1] /\ b = f[j]
      BY <1>2, <2>1
    <2>3. b = Durable!Swap(a, Commands[p][j])
      BY <1>2, <2>2
    <2>4. /\ g[j] = [r \in Refs |-> IF r \in C THEN b[r] ELSE visRefs[r]]
          /\ g[j - 1] = [r \in Refs |-> IF r \in C THEN a[r] ELSE visRefs[r]]
      BY <2>1, <2>2
    <2> HIDE DEF g
    <2>5. CASE Commands[p][j].ref \notin Symbolic /\ a[Commands[p][j].ref] = Commands[p][j].old
      <3>1. b = [a EXCEPT ![Commands[p][j].ref] = Commands[p][j].new]
        BY <2>3, <2>5 DEF Durable!Swap
      <3>2. Durable!Swap(g[j - 1], Commands[p][j]) = [g[j - 1] EXCEPT ![Commands[p][j].ref] = Commands[p][j].new]
        BY <2>1, <2>4, <2>5 DEF Durable!Swap
      <3> QED BY <2>1, <2>4, <3>1, <3>2
    <2>6. CASE ~(Commands[p][j].ref \notin Symbolic /\ a[Commands[p][j].ref] = Commands[p][j].old)
      BY <2>1, <2>3, <2>4, <2>6 DEF Durable!Swap
    <2> QED BY <2>5, <2>6
  <1>7. Durable!After(p, visRefs) = g[L]
    <2>1. Runs(g, p, L, visRefs)
      BY <1>4, <1>5, <1>6 DEF Runs
    <2> HIDE DEF g
    <2> QED BY <1>2, <2>1, AfterRuns DEF L
  <1>8. g[L] = [r \in Refs |-> IF r \in C THEN view[p][r] ELSE visRefs[r]]
    BY <1>1, <1>2
  <1> HIDE DEF g
  <1>9. ASSUME NEW r \in Refs
        PROVE  (IF r \in C THEN view[p][r] ELSE visRefs[r]) =
               (IF r \in wrote[p] THEN view[p][r] ELSE visRefs[r])
    <2>1. wrote[p] \subseteq C
      BY DEF Snapshot, C
    <2>2. r \in C /\ r \notin wrote[p] => view[p][r] = visRefs[r]
      BY <1>3 DEF Snapshot
    <2> QED BY <2>1, <2>2
  <1>10. Overlay(visRefs, RefWrite(p, view[p], wrote[p]))
           = [r \in Refs |-> IF r \in wrote[p] THEN view[p][r] ELSE visRefs[r]]
    BY DEF Overlay, RefWrite
  <1> QED BY <1>7, <1>8, <1>9, <1>10

\* BeginTxn and ApplyCommand.
LEMMA BeginSnapshot ==
    ASSUME TypeOK, NEW p \in Pushes, BeginTxn(p)
    PROVE  SnapshotInv(p)'
  <1>1. /\ view'[p] = visRefs /\ wrote'[p] = {} /\ stale'[p] = {} /\ results'[p] = <<>>
        /\ visRefs' = visRefs /\ visRefs \in [Refs -> Oid]
    BY DEF BeginTxn, TypeOK, PerPush, StoreType, store
  <1>2. Len(results'[p]) = 0
    BY <1>1
  <1>3. Runs([j \in 0..0 |-> visRefs], p, 0, visRefs)
    BY <1>1 DEF Runs
  <1>4. Snapshot(p, visRefs)'
    <2>1. \E f : Runs(f, p, 0, visRefs) /\ f[0] = view'[p]
      BY <1>1, <1>3
    <2> QED BY <1>1, <1>2, <2>1, CommandFacts DEF Snapshot, Runs
  <1> QED BY <1>1, <1>4 DEF SnapshotInv

LEMMA ApplySnapshot ==
    ASSUME TypeOK, NEW p \in Pushes, ApplyCommand(p), SnapshotInv(p)
    PROVE  SnapshotInv(p)'
  <1> DEFINE L == Len(results[p])
             cmd == NextCommand(p)
             out == Outcome(p, cmd)
  <1>0. PerPush /\ TxnType(p) /\ pc[p] = "apply"
    BY DEF TypeOK, ApplyCommand
  <1>1. PICK s \in [Refs -> Oid] : Snapshot(p, s)
    BY <1>0 DEF SnapshotInv
  <1>2. /\ L \in Nat /\ L < Len(Commands[p]) /\ cmd = Commands[p][L + 1]
        /\ L + 1 \in 1..Len(Commands[p])
        /\ cmd.ref \in Refs /\ cmd.ref \in CommandRefs(p) /\ cmd.new \in Oid
        /\ view[p] \in [Refs -> Oid]
    <2>1. L \in Nat /\ view[p] \in [Refs -> Oid]
      BY <1>0 DEF TxnType
    <2>2. L < Len(Commands[p]) /\ cmd = Commands[p][L + 1]
      BY SMTT(30) DEF ApplyCommand, NextCommand
    <2> QED BY <2>1, <2>2, CommandFacts
  <1>3. /\ results'[p] = Append(results[p], out)
        /\ stale'[p] = stale[p] /\ visRefs' = visRefs
        /\ view'[p] = Durable!Swap(view[p], cmd)
        /\ wrote'[p] = IF out = "ok" THEN wrote[p] \cup {cmd.ref} ELSE wrote[p]
        /\ out = "ok" => view[p][cmd.ref] = cmd.old
                          /\ view'[p] = [view[p] EXCEPT ![cmd.ref] = cmd.new]
        /\ out # "ok" => view'[p] = view[p]
    BY <1>0, <1>2 DEF ApplyCommand, PerPush, store, Outcome, Durable!Swap
  <1> HIDE DEF cmd, out
  <1>4. /\ Len(results'[p]) = L + 1 /\ results'[p][L + 1] = out
        /\ \A j \in 1..L : results'[p][j] = results[p][j]
    <2>1. results[p] \in Seq(Outcomes) /\ out \in Outcomes
      BY <1>0 DEF TxnType, out, Outcome, Outcomes
    <2> QED BY <1>3, <2>1, AppendProperties
  <1> HIDE DEF L
  <1>5. \E f : Runs(f, p, L + 1, s) /\ f[L + 1] = view'[p]
    <2>1. PICK f : Runs(f, p, L, s) /\ f[L] = view[p]
      BY <1>1 DEF Snapshot, L
    <2> DEFINE g == [j \in 0..(L + 1) |-> IF j = L + 1 THEN view'[p] ELSE f[j]]
    <2>2. view'[p] \in [Refs -> Oid]
      BY <1>2, <1>3
    <2>3. g \in [0..(L + 1) -> [Refs -> Oid]]
      BY <1>2, <2>1, <2>2 DEF Runs
    <2>4. g[0] = s /\ g[L + 1] = view'[p] /\ \A j \in 0..L : g[j] = f[j]
      BY <1>2, <2>1 DEF Runs
    <2> HIDE DEF g
    <2>5. ASSUME NEW j \in 1..(L + 1) PROVE g[j] = Durable!Swap(g[j - 1], Commands[p][j])
      <3>1. CASE j = L + 1
        <4>1. g[j - 1] = view[p]
          BY <1>2, <2>1, <2>4, <3>1
        <4> QED BY <1>2, <1>3, <2>4, <3>1, <4>1
      <3>2. CASE j # L + 1
        <4>1. j \in 1..L /\ j \in 0..L /\ j - 1 \in 0..L
          BY <1>2, <3>2
        <4> QED BY <2>1, <2>4, <4>1 DEF Runs
      <3> QED BY <3>1, <3>2
    <2> QED BY <2>3, <2>4, <2>5 DEF Runs
  <1>6. \A i \in 1..(L + 1) : i \in 1..L \/ i = L + 1
    BY <1>2
  <1>7. \A j \in 1..(L + 1) : results'[p][j] = "ok" => Commands[p][j].ref \in wrote'[p]
    BY <1>1, <1>2, <1>3, <1>4, <1>6 DEF Snapshot, L
  <1>8. ASSUME NEW r \in wrote[p]
        PROVE  \E i \in 1..(L + 1) : First(p, r, i)' /\ Commands[p][i].old = s[r]
    <2>1. PICK i \in 1..L : First(p, r, i) /\ Commands[p][i].old = s[r]
      BY <1>1 DEF Snapshot, L
    <2>2. i \in 1..(L + 1) /\ \A j \in 1..(i - 1) : j \in 1..L
      BY <1>2
    <2>3. First(p, r, i)'
      BY <1>4, <2>1, <2>2 DEF First
    <2> QED BY <2>1, <2>2, <2>3
  <1>9. ASSUME NEW r, r \in wrote'[p], r \notin wrote[p]
        PROVE  \E i \in 1..(L + 1) : First(p, r, i)' /\ Commands[p][i].old = s[r]
    <2>1. out = "ok" /\ r = cmd.ref
      BY <1>3, <1>9
    <2>2. Commands[p][L + 1].old = s[r]
      BY <1>1, <1>2, <1>3, <1>9, <2>1 DEF Snapshot
    <2>3. \A j \in 1..L : results[p][j] = "ok" => Commands[p][j].ref # r
      BY <1>1, <1>9 DEF Snapshot, L
    <2>4. PICK n \in 1..(L + 1) : n = L + 1
      BY <1>2
    <2>5. \A j \in 1..(n - 1) : j \in 1..L
      BY <1>2, <2>4
    <2>6. First(p, r, n)'
      BY <1>2, <1>4, <2>1, <2>3, <2>4, <2>5 DEF First
    <2> QED BY <2>2, <2>4, <2>6
  <1>10. \A r \in Refs \ wrote'[p] : view'[p][r] = s[r]
    BY <1>1, <1>2, <1>3 DEF Snapshot
  <1>11. wrote'[p] \subseteq CommandRefs(p) /\ L + 1 <= Len(Commands[p])
    BY <1>1, <1>2, <1>3 DEF Snapshot
  <1>12. \A r \in Refs \ stale'[p] : s[r] = visRefs'[r]
    BY <1>1, <1>3 DEF Snapshot
  <1>13. Snapshot(p, s)'
    BY <1>4, <1>5, <1>7, <1>8, <1>9, <1>10, <1>11, <1>12 DEF Snapshot, Runs, CommandRefs
  <1> QED BY <1>13 DEF SnapshotInv

\* Another request's step: where it moves a ref, p's snapshot becomes stale.
LEMMA OthersSnapshot ==
    ASSUME TypeOK, NEW q \in Pushes, ReceivePack(q) \/ Fail(q),
           NEW p \in Pushes \ {q}, SnapshotInv(p)
    PROVE  SnapshotInv(p)'
  <1>0. PerPush /\ Untouched(p)
    BY ReceivePackFrame DEF TypeOK
  <1>1. SUFFICES ASSUME pc[p] = "apply" PROVE SnapshotInv(p)'
    BY <1>0 DEF SnapshotInv, Untouched
  <1>2. PICK s \in [Refs -> Oid] : Snapshot(p, s)
    BY <1>1 DEF SnapshotInv
  <1>3. ASSUME NEW r \in Refs \ stale'[p]
        PROVE  r \notin stale[p] /\ visRefs'[r] = visRefs[r]
    <2>1. CASE Commit(q) /\ wrote[q] # {}
      <3>1. /\ stale'[p] = stale[p] \cup wrote[q]
            /\ visRefs' = Overlay(visRefs, RefWrite(q, view[q], wrote[q]))
        BY <1>1, <2>1 DEF Commit
      <3>2. r \notin wrote[q]
        BY <1>3, <3>1
      <3> QED BY <1>3, <3>1, <3>2 DEF Overlay, RefWrite
    <2>2. CASE Commit(q) /\ wrote[q] = {}
      BY <1>3, <2>2 DEF Commit
    <2>3. CASE ~ Commit(q)
      <3>1. visRefs' = visRefs
        BY <2>3, StoreSteps DEF PutRecord
      <3>2. stale'[p] = stale[p]
        <4>1. UNCHANGED stale \/ Drop({q}) \/ BeginTxn(q)
          BY <2>3 DEF ReceivePack, Ingest, IngestRejected, Validate, Settled, Descend,
             Disconnected, Emit, Validated, Promote, PutExisting, PutAbsent, UploadBlob,
             PutRecord, PutsDone, StartFlush, Flushed, UpdateRefs, ApplyCommand, Retry,
             GiveUp, Report, Fail, txn
        <4> QED BY <1>0, <4>1 DEF Drop, BeginTxn, PerPush
      <3> QED BY <1>3, <3>1, <3>2
    <2> QED BY <2>1, <2>2, <2>3
  <1>4. \A r \in Refs \ stale'[p] : s[r] = visRefs'[r]
    BY <1>2, <1>3 DEF Snapshot
  <1>5. Snapshot(p, s)'
    <2>1. results'[p] = results[p] /\ wrote'[p] = wrote[p] /\ view'[p] = view[p]
      BY <1>0 DEF Untouched
    <2>2. \A r, i : First(p, r, i)' <=> First(p, r, i)
      BY <2>1 DEF First
    <2> QED BY <1>2, <1>4, <2>1, <2>2 DEF Snapshot, CommandRefs, Runs
  <1> QED BY <1>5 DEF SnapshotInv

\* A step that moves no ref and reaches into no request.
LEMMA SameSnapshot ==
    ASSUME NEW p \in Pushes, SnapshotInv(p), pc'[p] = pc[p], visRefs' = visRefs,
           results'[p] = results[p], wrote'[p] = wrote[p], view'[p] = view[p],
           stale'[p] = stale[p]
    PROVE  SnapshotInv(p)'
  <1>1. SUFFICES ASSUME pc[p] = "apply" PROVE \E s \in [Refs -> Oid] : Snapshot(p, s)'
    BY DEF SnapshotInv
  <1>2. PICK s \in [Refs -> Oid] : Snapshot(p, s)
    BY <1>1 DEF SnapshotInv
  <1>3. \A r, i : First(p, r, i)' <=> First(p, r, i)
    BY DEF First
  <1>4. Snapshot(p, s)'
    BY <1>2, <1>3 DEF Snapshot, CommandRefs, Runs
  <1> QED BY <1>4

-----------------------------------------------------------------------------
(* The history *)

LEMMA HistoryGrows ==
    ASSUME TypeOK, HistoryInv, NEW e \in ObjectWrites \cup RefWrites,
           queue' = Append(queue, e), durRefs' = durRefs, visRefs' \in [Refs -> Oid],
           \/ /\ e.type = "refs"
              /\ visRefs' = Overlay(visRefs, e)
              /\ visRefs' = Durable!After(e.by, visRefs)
           \/ e.type = "object" /\ visRefs' = visRefs
    PROVE  HistoryInv'
  <1> DEFINE L == Len(queue)
  <1>1. PICK h : History(h, queue, durRefs, visRefs)
    BY DEF HistoryInv
  <1>2. /\ L \in Nat /\ Len(queue') = L + 1
        /\ \A n \in 1..L : queue'[n] = queue[n]
        /\ queue'[L + 1] = e
    BY QueueGrows
  <1> DEFINE k == [n \in 0..(L + 1) |-> IF n = L + 1 THEN visRefs' ELSE h[n]]
  <1>3. h \in [0..L -> [Refs -> Oid]] /\ h[0] = durRefs /\ h[L] = visRefs
    BY <1>1 DEF History
  <1>4. k \in [0..(L + 1) -> [Refs -> Oid]] /\ k[0] = durRefs /\ k[L + 1] = visRefs'
        /\ \A n \in 0..L : k[n] = h[n]
    BY <1>2, <1>3
  <1> HIDE DEF k
  <1>5. ASSUME NEW n \in 1..(L + 1)
        PROVE  \/ /\ queue'[n].type = "refs"
                  /\ k[n] = Overlay(k[n - 1], queue'[n])
                  /\ k[n] = Durable!After(queue'[n].by, k[n - 1])
               \/ queue'[n].type = "object" /\ k[n] = k[n - 1]
    <2>1. CASE n = L + 1
      <3>1. k[n - 1] = visRefs /\ k[n] = visRefs' /\ queue'[n] = e
        BY <1>2, <1>3, <1>4, <2>1
      <3> QED BY <3>1
    <2>2. CASE n # L + 1
      <3>1. n \in 1..L /\ n \in 0..L /\ n - 1 \in 0..L
        BY <1>2, <2>2
      <3>2. k[n] = h[n] /\ k[n - 1] = h[n - 1] /\ queue'[n] = queue[n]
        BY <1>2, <1>4, <3>1
      <3> QED BY <1>1, <3>1, <3>2 DEF History
    <2> QED BY <2>1, <2>2
  <1>6. History(k, queue', durRefs', visRefs')
    <2>1. k \in [0..Len(queue') -> [Refs -> Oid]] /\ k[0] = durRefs' /\ k[Len(queue')] = visRefs'
      BY <1>2, <1>4
    <2>2. Len(queue') = L + 1
      BY <1>2
    <2> HIDE DEF L
    <2> QED BY <1>5, <2>1, <2>2 DEF History
  <1> QED BY <1>6 DEF HistoryInv

LEMMA HistoryDrains ==
    ASSUME TypeOK, HistoryInv, WalFlush
    PROVE  /\ HistoryInv'
           /\ queue[1].type = "refs" => durRefs' = Durable!After(queue[1].by, durRefs)
  <1>1. PICK h : History(h, queue, durRefs, visRefs)
    BY DEF HistoryInv
  <1>2. /\ Len(queue) \in Nat /\ Len(queue') = Len(queue) - 1 /\ Len(queue) >= 1
        /\ 1 \in 1..Len(queue) /\ visRefs' = visRefs
        /\ \A n \in 1..Len(queue') : n + 1 \in 1..Len(queue) /\ queue'[n] = queue[n + 1]
    BY QueueDrains
  <1>3. /\ h \in [0..Len(queue) -> [Refs -> Oid]] /\ h[0] = durRefs /\ h[Len(queue)] = visRefs
        /\ \A n \in 1..Len(queue) :
              \/ /\ queue[n].type = "refs"
                 /\ h[n] = Overlay(h[n - 1], queue[n])
                 /\ h[n] = Durable!After(queue[n].by, h[n - 1])
              \/ queue[n].type = "object" /\ h[n] = h[n - 1]
    BY <1>1 DEF History
  <1>31. 1 - 1 = 0
    OBVIOUS
  <1>4. /\ queue[1].type = "refs" => durRefs' = Overlay(durRefs, queue[1])
        /\ queue[1].type = "object" => durRefs' = durRefs
    BY QueueDrains
  <1>5. /\ h[1] = durRefs'
        /\ queue[1].type = "refs" => h[1] = Durable!After(queue[1].by, durRefs)
    BY <1>2, <1>3, <1>31, <1>4
  <1> DEFINE k == [n \in 0..Len(queue') |-> h[n + 1]]
  <1>6. /\ k \in [0..Len(queue') -> [Refs -> Oid]] /\ k[0] = durRefs'
        /\ k[Len(queue')] = visRefs'
        /\ \A n \in 0..Len(queue') : k[n] = h[n + 1]
    <2>1. \A n \in 0..Len(queue') : n + 1 \in 0..Len(queue)
      BY <1>2
    <2>2. 0 \in 0..Len(queue') /\ 0 + 1 = 1 /\ Len(queue') \in 0..Len(queue') /\ Len(queue') + 1 = Len(queue)
      BY <1>2
    <2>3. k \in [0..Len(queue') -> [Refs -> Oid]]
      BY <1>3, <2>1
    <2> QED BY <1>2, <1>3, <1>5, <2>2, <2>3
  <1> HIDE DEF k
  <1>7. ASSUME NEW n \in 1..Len(queue')
        PROVE  \/ /\ queue'[n].type = "refs"
                  /\ k[n] = Overlay(k[n - 1], queue'[n])
                  /\ k[n] = Durable!After(queue'[n].by, k[n - 1])
               \/ queue'[n].type = "object" /\ k[n] = k[n - 1]
    <2>1. PICK m \in 1..Len(queue) : m = n + 1
      BY <1>2
    <2>2. n \in 0..Len(queue') /\ n - 1 \in 0..Len(queue') /\ (n - 1) + 1 = m - 1
      BY <1>2, <2>1
    <2>3. k[n] = h[m] /\ k[n - 1] = h[m - 1] /\ queue'[n] = queue[m]
      BY <1>2, <1>6, <2>1, <2>2
    <2> QED BY <1>3, <2>3
  <1>8. History(k, queue', durRefs', visRefs')
    BY <1>6, <1>7 DEF History
  <1> QED BY <1>5, <1>8 DEF HistoryInv

LEMMA RequestHistory ==
    ASSUME TypeOK, TypeOK', HistoryInv, NEW p \in Pushes, ReceivePack(p) \/ Fail(p), SnapshotInv(p)
    PROVE  HistoryInv'
  <1>0. visRefs' \in [Refs -> Oid]
    BY DEF TypeOK, StoreType
  <1>1. CASE UNCHANGED <<durObjs, durRefs, queue, visRefs, landed, crashes>>
    BY <1>1 DEF HistoryInv, History
  <1>2. CASE PutRecord(p)
    <2>1. PICK o \in Objects : queue' = Append(queue, ObjectWrite(o))
      BY <1>2, RecordEntry
    <2>2. /\ ObjectWrite(o) \in ObjectWrites \cup RefWrites
          /\ durRefs' = durRefs /\ visRefs' = visRefs
      BY <1>2, RecordEntry
    <2>3. ObjectWrite(o).type = "object"
      BY DEF ObjectWrite
    <2> QED BY <1>0, <2>1, <2>2, <2>3, HistoryGrows
  <1>3. CASE Commit(p) /\ wrote[p] # {}
    <2> DEFINE e == RefWrite(p, view[p], wrote[p])
    <2>1. /\ e \in ObjectWrites \cup RefWrites /\ queue' = Append(queue, e)
          /\ visRefs' = Overlay(visRefs, e) /\ durRefs' = durRefs /\ pc[p] = "apply"
      BY <1>3, CommitEntry
    <2>2. Len(results[p]) = Len(Commands[p]) /\ ~ Conflicting(p)
      BY <1>3 DEF Commit, MayCommit
    <2>3. PICK s \in [Refs -> Oid] : Snapshot(p, s)
      BY <2>1 DEF SnapshotInv
    <2>4. Overlay(visRefs, e) = Durable!After(p, visRefs)
      BY <2>2, <2>3, CommitIsAfter
    <2>5. e.type = "refs" /\ e.by = p
      BY DEF RefWrite
    <2> HIDE DEF e
    <2> QED BY <1>0, <2>1, <2>4, <2>5, HistoryGrows
  <1>4. CASE Commit(p) /\ wrote[p] = {}
    <2>1. UNCHANGED <<queue, durRefs, visRefs>>
      BY <1>4 DEF Commit
    <2> QED BY <2>1 DEF HistoryInv, History
  <1> QED BY <1>1, <1>2, <1>3, <1>4, StoreSteps

-----------------------------------------------------------------------------
(* The invariant is inductive *)

LEMMA InitTxn == Init => TxnInv
  <1> SUFFICES ASSUME Init PROVE TxnInv
    OBVIOUS
  <1>0. queue = <<>> /\ landed = {}
    BY DEF Init
  <1>1. QueueInv /\ Len(queue) = 0
    BY <1>0 DEF QueueInv
  <1>2. ASSUME NEW p \in Pushes
        PROVE  AwaitInv(p) /\ ContainedInv(p) /\ SnapshotInv(p)
    BY DEF Init, AwaitInv, ContainedInv, SnapshotInv
  <1>3. HistoryInv
    <2>1. durRefs \in [Refs -> Oid] /\ visRefs = durRefs
      BY DEF Init, NoRefs, Oid
    <2>2. History([n \in 0..0 |-> durRefs], queue, durRefs, visRefs)
      BY <1>1, <2>1 DEF History
    <2> QED BY <2>2 DEF HistoryInv
  <1> QED BY <1>1, <1>2, <1>3 DEF TxnInv

LEMMA CrashTxn ==
    ASSUME TypeOK, TxnInv, Crash
    PROVE  TxnInv'
  <1>1. /\ queue' = <<>> /\ landed' = landed /\ results' = results /\ durRefs' = durRefs
        /\ visRefs' = durRefs /\ landed \subseteq Pushes /\ durRefs \in [Refs -> Oid]
        /\ \A p \in Pushes : /\ pc[p] \in Running => pc'[p] = "failed"
                             /\ pc[p] \notin Running => pc'[p] = pc[p]
    BY DEF Crash, TypeOK, StoreType
  <1>2. Len(queue') = 0
    BY <1>1
  <1>3. QueueInv'
    BY <1>1, <1>2 DEF TxnInv, QueueInv, Sent
  <1>4. ASSUME NEW p \in Pushes
        PROVE  AwaitInv(p)' /\ ContainedInv(p)' /\ SnapshotInv(p)'
    <2>1. pc'[p] \notin {"await", "apply", "validate"}
      BY <1>1 DEF Running
    <2>2. pc'[p] = "done" => pc[p] = "done"
      BY <1>1
    <2>3. pc'[p] = "rejected" => pc[p] = "rejected"
      BY <1>1
    <2>4. AwaitInv(p) /\ ContainedInv(p)
      BY DEF TxnInv
    <2>5. AwaitInv(p)'
      BY <1>1, <2>1, <2>2, <2>4 DEF AwaitInv, Accepted
    <2>6. ContainedInv(p)'
      BY <2>1, <2>3, <2>4 DEF ContainedInv, SelfContained, Closed
    <2> QED BY <2>1, <2>5, <2>6 DEF SnapshotInv
  <1>5. HistoryInv'
    <2>1. History([n \in 0..0 |-> durRefs], queue', durRefs', visRefs')
      BY <1>1, <1>2 DEF History
    <2> QED BY <2>1 DEF HistoryInv
  <1> QED BY <1>3, <1>4, <1>5 DEF TxnInv

\* A self-contained push keeps to its pack while others take steps.
LEMMA SameContained ==
    ASSUME NEW p \in Pushes, ContainedInv(p), pc'[p] = pc[p], path'[p] = path[p], done'[p] = done[p]
    PROVE  ContainedInv(p)'
  BY DEF ContainedInv, SelfContained, Closed

LEMMA TxnStep == TypeOK /\ TypeOK' /\ TxnInv /\ [Next]_vars => TxnInv'
  <1> SUFFICES ASSUME TypeOK, TypeOK', TxnInv, [Next]_vars PROVE TxnInv'
    OBVIOUS
  <1>0. /\ QueueInv /\ HistoryInv /\ PerPush
        /\ \A p \in Pushes : AwaitInv(p) /\ ContainedInv(p) /\ SnapshotInv(p)
    BY DEF TxnInv, TypeOK
  <1>1. ASSUME NEW p \in Pushes, ReceivePack(p) \/ Fail(p)
        PROVE  TxnInv'
    <2>1. QueueInv'
      BY <1>0, <1>1, RequestQueue
    <2>2. \A q \in Pushes : AwaitInv(q)'
      BY <1>0, <1>1, RequestAwait
    <2>3. ASSUME NEW q \in Pushes PROVE ContainedInv(q)'
      <3>1. CASE q = p
        BY <1>0, <1>1, <3>1, RequestContained
      <3>2. CASE q # p
        <4>1. Untouched(q)
          BY <1>0, <1>1, <3>2, ReceivePackFrame
        <4> QED BY <1>0, <4>1, SameContained DEF Untouched
      <3> QED BY <3>1, <3>2
    <2>4. ASSUME NEW q \in Pushes PROVE SnapshotInv(q)'
      <3>1. CASE q # p
        BY <1>0, <1>1, <3>1, OthersSnapshot
      <3>2. CASE q = p /\ (BeginTxn(p) \/ ApplyCommand(p))
        BY <1>0, <3>2, BeginSnapshot, ApplySnapshot
      <3>3. CASE q = p /\ ~ BeginTxn(p) /\ ~ ApplyCommand(p)
        <4>1. pc'[p] # "apply"
          BY <1>0, <1>1, <3>3, PcSteps
        <4> QED BY <3>3, <4>1 DEF SnapshotInv
      <3> QED BY <3>1, <3>2, <3>3
    <2>5. HistoryInv'
      BY <1>0, <1>1, RequestHistory
    <2> QED BY <2>1, <2>2, <2>3, <2>4, <2>5 DEF TxnInv
  <1>2. CASE WalFlush
    <2>1. QueueInv' /\ HistoryInv'
      BY <1>0, <1>2, WalQueue, HistoryDrains
    <2>2. UNCHANGED <<visRefs, pc, path, done, results, wrote, view, stale>>
      BY <1>2 DEF WalFlush, walk, txn
    <2>3. \A q \in Pushes : AwaitInv(q)'
      BY <1>0, <1>2, WalAwait
    <2>4. \A q \in Pushes : ContainedInv(q)'
      BY <1>0, <2>2, SameContained
    <2>5. \A q \in Pushes : SnapshotInv(q)'
      BY <1>0, <2>2, SameSnapshot
    <2> QED BY <2>1, <2>3, <2>4, <2>5 DEF TxnInv
  <1>3. CASE Crash
    BY <1>3, CrashTxn
  <1>4. CASE UNCHANGED vars
    <2>1. UNCHANGED <<durRefs, queue, visRefs, landed, pc, path, done, owed, results, wrote, view, stale>>
      BY <1>4 DEF vars, store, walk, txn
    <2>2. QueueInv' /\ HistoryInv'
      BY <1>0, <2>1 DEF QueueInv, HistoryInv, History
    <2>3. \A q \in Pushes : AwaitInv(q)'
      BY <1>0, <2>1 DEF AwaitInv, Accepted
    <2>4. \A q \in Pushes : ContainedInv(q)'
      BY <1>0, <2>1, SameContained
    <2>5. \A q \in Pushes : SnapshotInv(q)'
      BY <1>0, <2>1, SameSnapshot
    <2> QED BY <2>2, <2>3, <2>4, <2>5 DEF TxnInv
  <1> QED BY <1>1, <1>2, <1>3, <1>4 DEF Next

\* The inductive invariant of the ref transactions: what each one began on and
\* has done since, where its write set is queued, and what the queue would do
\* to the durable refs.
THEOREM TxnInvariant == Spec => [](TypeOK /\ TxnInv)
  <1>1. Init => TypeOK /\ TxnInv
    BY InitType, InitTxn
  <1>2. TypeOK /\ TxnInv /\ [Next]_vars => TypeOK' /\ TxnInv'
    BY TypeStep, TxnStep
  <1> QED BY <1>1, <1>2, PTL DEF Spec

\* update_refs awaits the durability of its commit: a push that has reported
\* `ok` for a command has its ref transaction on disk, whatever crashes.
THEOREM ReportsAreDurable == Spec => []ReportedIsDurable
  <1>1. TypeOK /\ TxnInv => ReportedIsDurable
    BY DEF TxnInv, AwaitInv, Accepted, ReportedIsDurable
  <1> QED BY <1>1, TxnInvariant, PTL

\* validate: a push whose pack holds the closure of its tips is never rejected,
\* whatever other pushes record or lose meanwhile.
THEOREM SelfContainedNeverRejected == Spec => []SelfContainedAccepted
  <1>1. TypeOK /\ TxnInv => SelfContainedAccepted
    BY DEF TxnInv, ContainedInv, SelfContainedAccepted
  <1> QED BY <1>1, TxnInvariant, PTL

\* No lost update: a ref changes only in a crash or in the commit of a push
\* whose first accepted command on it expected the value it held.
THEOREM NoLostUpdate == Spec => RefsMoveByCas
  <1>1. ASSUME TypeOK, TxnInv, [Next]_vars, NEW r \in Refs, visRefs'[r] # visRefs[r]
        PROVE  \/ crashes' = crashes + 1
               \/ \E p \in Pushes :
                     /\ pc[p] = "apply" /\ pc'[p] = "await"
                     /\ \E i \in FirstAccepted(p, r) : Commands[p][i].old = visRefs[r]
    <2>1. CASE Crash
      BY <2>1 DEF Crash
    <2>2. ASSUME NEW p \in Pushes, ReceivePack(p) \/ Fail(p)
          PROVE  /\ pc[p] = "apply" /\ pc'[p] = "await"
                 /\ \E i \in FirstAccepted(p, r) : Commands[p][i].old = visRefs[r]
      <3>1. Commit(p) /\ wrote[p] # {}
        BY <1>1, <2>2, StoreSteps DEF PutRecord, Commit
      <3>2. /\ visRefs' = Overlay(visRefs, RefWrite(p, view[p], wrote[p]))
            /\ pc[p] = "apply" /\ pc'[p] = "await"
        BY <1>1, <3>1, CommitEntry
      <3>3. r \in wrote[p]
        BY <1>1, <3>2 DEF Overlay, RefWrite
      <3>4. PICK s \in [Refs -> Oid] : Snapshot(p, s)
        BY <1>1, <3>2 DEF TxnInv, SnapshotInv
      <3>5. Len(results[p]) = Len(Commands[p]) /\ ~ Conflicting(p)
        BY <3>1 DEF Commit, MayCommit
      <3>6. r \notin stale[p] /\ s[r] = visRefs[r]
        BY <3>3, <3>4, <3>5 DEF Snapshot, Conflicting
      <3>7. PICK i \in 1..Len(results[p]) : First(p, r, i) /\ Commands[p][i].old = s[r]
        BY <3>3, <3>4 DEF Snapshot
      <3>8. i \in FirstAccepted(p, r)
        BY <3>5, <3>7, CommandFacts DEF First, FirstAccepted
      <3> QED BY <3>2, <3>6, <3>7, <3>8
    <2>3. CASE WalFlush
      BY <1>1, <2>3 DEF WalFlush
    <2>4. CASE UNCHANGED vars
      BY <1>1, <2>4 DEF vars, store
    <2> QED BY <1>1, <2>1, <2>2, <2>3, <2>4 DEF Next
  <1> DEFINE Cas == \A r \in Refs : visRefs'[r] # visRefs[r] =>
                       \/ crashes' = crashes + 1
                       \/ \E p \in Pushes :
                             /\ pc[p] = "apply" /\ pc'[p] = "await"
                             /\ \E i \in FirstAccepted(p, r) : Commands[p][i].old = visRefs[r]
  <1>2. TypeOK /\ TxnInv /\ [Next]_vars => [Cas]_vars
    BY <1>1
  <1>3. Spec => [][Cas]_vars
    <2> HIDE DEF Cas
    <2> QED BY <1>2, TxnInvariant, PTL DEF Spec
  <1> QED BY <1>3 DEF RefsMoveByCas

\* update_refs is serializable and durable in commit order: what recovery would
\* find is, at every moment, a closed object set under refs that whole pushes
\* produced one after the other, each on what its predecessors left.
THEOREM DurableStateIsAHistory == Spec => DurableHistory
  <1>1. Init => Durable!Init
    BY DEF Init, Durable!Init, NoRefs
  <1>2. ASSUME TypeOK, TxnInv, SafetyInv, TypeOK', SafetyInv', [Next]_vars
        PROVE  [Durable!Next]_<<durObjs, durRefs, landed>>
    <2>1. ASSUME NEW p \in Pushes, ReceivePack(p) \/ Fail(p)
          PROVE  UNCHANGED <<durObjs, durRefs, landed>>
      BY <2>1, StoreSteps DEF PutRecord, Commit
    <2>2. CASE Crash
      BY <2>2 DEF Crash
    <2>3. CASE UNCHANGED vars
      BY <2>3 DEF vars, store
    <2>4. CASE WalFlush
      <3>1. CASE queue[1].type = "object"
        <4>1. durObjs \subseteq durObjs' /\ UNCHANGED <<durRefs, landed>>
          BY <1>2, <2>4, <3>1, QueueDrains
        <4>2. durObjs' \subseteq Objects
          BY <1>2 DEF TypeOK, StoreType
        <4>3. Closed(durObjs)'
          <5>1. 0 \in 0..Len(queue')
            BY <1>2 DEF TypeOK, StoreType
          <5>2. Recovered(durObjs', queue', 0) = durObjs'
            BY RecoveredNone
          <5>3. \A n \in 0..Len(queue') : Closed(Recovered(durObjs', queue', n))
            BY <1>2 DEF SafetyInv, EveryPrefixClosed, RecoveredObjs, Closed
          <5>4. Closed(durObjs')
            BY <5>1, <5>2, <5>3
          <5> QED BY <5>4 DEF Closed
        <4>4. Durable!Closed(durObjs')
          BY <4>3 DEF Closed, Kids, Durable!Closed
        <4> QED BY <4>1, <4>2, <4>4 DEF Durable!Next, Durable!AddObjects
      <3>2. CASE queue[1].type = "refs"
        <4>1. /\ queue[1] \in RefWrites /\ landed' = landed \cup {queue[1].by} /\ durObjs' = durObjs
              /\ 1 \in 1..Len(queue)
          BY <1>2, <2>4, <3>2, QueueDrains
        <4>2. PICK p \in Pushes : p = queue[1].by
          BY <4>1 DEF RefWrites
        <4>3. p \notin landed
          BY <1>2, <3>2, <4>1, <4>2 DEF TxnInv, QueueInv
        <4>4. durRefs' = Durable!After(p, durRefs)
          BY <1>2, <2>4, <3>2, <4>2, HistoryDrains DEF TxnInv
        <4>5. \A r \in Refs : durRefs'[r] \in durObjs \cup {None}
          BY <1>2, <4>1 DEF SafetyInv, EveryPrefixResolves
        <4>6. Durable!Land(p)
          BY <4>1, <4>2, <4>3, <4>4, <4>5 DEF Durable!Land
        <4> QED BY <4>6 DEF Durable!Next
      <3> QED BY <1>2, <2>4, <3>1, <3>2, QueueDrains
    <2> QED BY <1>2, <2>1, <2>2, <2>3, <2>4 DEF Next
  <1>3. TypeOK /\ TxnInv /\ SafetyInv /\ TypeOK' /\ SafetyInv' /\ [Next]_vars
           => [Durable!Next]_<<durObjs, durRefs, landed>>
    BY <1>2
  <1>4. Spec => Durable!Init /\ [][Durable!Next]_<<durObjs, durRefs, landed>>
    BY <1>1, <1>3, TxnInvariant, SafetyInvariant, PTL DEF Spec
  <1> QED BY <1>4 DEF DurableHistory, Durable!Spec, Durable!repository
=============================================================================
