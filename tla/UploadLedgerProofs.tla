------------------------- MODULE UploadLedgerProofs -------------------------
(***************************************************************************)
(* The upload service implements UploadLedger, for any numbers of          *)
(* handlers, users, files and chunks and both engines, within one storage  *)
(* process, with orderly clients that send no part number above Total, and *)
(* with failures of the engine only.                                       *)
(***************************************************************************)
EXTENDS StoredPartsProofs

OneStorageProcess == \A p \in Placements : \A g, h \in Handlers : p[g] = p[h]
OwnChunksOnly == Numbers = Chunks
EngineFaultsOnly == FaultKinds \subseteq {"store", "copy"}

-----------------------------------------------------------------------------
(* The inductive invariant. *)

\* What MayStart asks of clients stays so while their calls run.
Exclusive ==
    \A g, h \in Handlers :
        g # h /\ job[h].at \in DoneSteps /\ job[g].at # "idle" =>
            /\ job[g].file # job[h].file
            /\ job[g].at \in DoneSteps => job[g].user # job[h].user

\* The steps of calls that have found or made an unfinished task.
OpenSteps == {"init.store", "init.delete"} \cup (PartSteps \ {"part.get"})

\* What a call has read still holds.
UpToDate(h) ==
    /\ job[h].at \in OpenSteps =>
          job[h].file \notin files /\ tasks[job[h].file].status \in {"uploading", "deleted"}
    /\ job[h].at = "part.save" /\ Visible(job[h].row) =>
          /\ job[h].row.status = "uploading"
          /\ Recorded(job[h].row) = Recorded(tasks[job[h].file])
    /\ job[h].at \in FullSteps =>
          /\ job[h].row = tasks[job[h].file] /\ job[h].row.status = "uploading"
          /\ job[h].at = "done.save" <=> job[h].file \in files
    /\ job[h].at = "done.charge" => job[h].balance = quota[job[h].user]

\* A stored file has a completed task, or is about to.
Finished(f) == tasks[f].status = "completed"
               \/ \E h \in Handlers : job[h].at = "done.save" /\ job[h].file = f

FilesAndTasks ==
    \A f \in Files : /\ f \in files => Finished(f)
                     /\ tasks[f].status = "none" => tasks[f].done = <<>>

LedgerInv ==
    /\ Exclusive
    /\ \A h \in Handlers : UpToDate(h)
    /\ FilesAndTasks

\* One handler at a time is between fetch and save.
LEMMA OneMutex ==
    ASSUME UploadInv, OneStorageProcess, NEW g \in Handlers, NEW h \in Handlers,
           job[g].at \in {"part.fetch", "part.save"}, job[h].at \in {"part.fetch", "part.save"}
    PROVE  g = h
<1>1. instanceOf[g] = instanceOf[h]
  BY DEF UploadInv, TypeOK, OneStorageProcess
<1> QED BY <1>1 DEF UploadInv, PartMutex

\* h goes on to step s of the same call.
LEMMA GotoKeeps ==
    ASSUME TypeOK, NEW h \in Handlers, NEW s \in Steps, Goto(h, s)
    PROVE  /\ job'[h].at = s /\ job'[h].file = job[h].file /\ job'[h].user = job[h].user
           /\ job'[h].row = job[h].row /\ job'[h].balance = job[h].balance
           /\ \A g \in Handlers : g # h => job'[g] = job[g]
<1>1. job' = [job EXCEPT ![h].at = s] /\ job[h] \in Jobs /\ job \in [Handlers -> Jobs]
  BY JobAt DEF Goto
<1> QED BY <1>1 DEF Jobs

-----------------------------------------------------------------------------
(* The invariant is inductive. *)

\* A step of h may end its call, or go on with it.
Proceeds(h) ==
    \/ job'[h].at = "idle"
    \/ /\ job[h].at # "idle"
       /\ job'[h].file = job[h].file /\ job'[h].user = job[h].user
       /\ job'[h].at \in DoneSteps => job[h].at \in DoneSteps

LEMMA ExclusiveKept ==
    ASSUME Exclusive, NEW h \in Handlers, Proceeds(h),
           \A g \in Handlers : g # h => job'[g] = job[g]
    PROVE  Exclusive'
<1>1. "idle" \notin DoneSteps
  BY DEF DoneSteps
<1> SUFFICES ASSUME NEW g \in Handlers, NEW k \in Handlers,
                    g # k, job'[k].at \in DoneSteps, job'[g].at # "idle"
             PROVE  /\ job'[g].file # job'[k].file
                    /\ job'[g].at \in DoneSteps => job'[g].user # job'[k].user
  BY DEF Exclusive
<1>2. CASE k = h
  BY <1>1, <1>2 DEF Exclusive, Proceeds
<1>3. CASE g = h
  BY <1>1, <1>3 DEF Exclusive, Proceeds
<1>4. CASE k # h /\ g # h
  BY <1>4 DEF Exclusive
<1> QED BY <1>2, <1>3, <1>4

\* A step that changes no row.
LEMMA MoveLedger ==
    ASSUME LedgerInv, NEW h \in Handlers, Proceeds(h),
           \A g \in Handlers : g # h => job'[g] = job[g],
           UNCHANGED <<tasks, files, quota>>,
           UpToDate(h)', job[h].at # "done.save"
    PROVE  LedgerInv'
<1>1. Exclusive'
  BY ExclusiveKept DEF LedgerInv
<1>2. ASSUME NEW g \in Handlers PROVE UpToDate(g)'
  <2>1. CASE g = h
    BY <2>1
  <2>2. CASE g # h
    BY <2>2 DEF LedgerInv, UpToDate
  <2> QED BY <2>1, <2>2
<1>3. ASSUME NEW f \in Files PROVE Finished(f) => Finished(f)'
  BY DEF Finished
<1> QED BY <1>1, <1>2, <1>3 DEF LedgerInv, FilesAndTasks

\* A step of a completion: no other call sees the rows of its file and user.
LEMMA DoneLedger ==
    ASSUME LedgerInv, TypeOK, NEW h \in Handlers, job[h].at \in DoneSteps, Proceeds(h),
           \A g \in Handlers : g # h => job'[g] = job[g],
           \A f \in Files : f # job[h].file => tasks'[f] = tasks[f] /\ (f \in files' <=> f \in files),
           \A u \in Users : u # job[h].user => quota'[u] = quota[u],
           \A f \in Files : f = job[h].file =>
               /\ f \in files' => Finished(f)'
               /\ tasks'[f].status = "none" => tasks'[f].done = <<>>,
           UpToDate(h)'
    PROVE  LedgerInv'
<1>1. Exclusive'
  BY ExclusiveKept DEF LedgerInv
<1>2. ASSUME NEW g \in Handlers, g # h PROVE UpToDate(g)'
  <2>1. /\ job'[g] = job[g] /\ job[g].file \in Files /\ job[g].user \in Users
        /\ UpToDate(g)
    BY <1>2, JobAt DEF LedgerInv, User
  <2>2. job[g].at # "idle" =>
           /\ tasks'[job[g].file] = tasks[job[g].file]
           /\ job[g].file \in files' <=> job[g].file \in files
    BY <1>2, <2>1 DEF LedgerInv, Exclusive
  <2>3. job[g].at = "done.charge" => quota'[job[g].user] = quota[job[g].user]
    BY <1>2, <2>1 DEF LedgerInv, Exclusive, DoneSteps
  <2>4. "idle" \notin OpenSteps /\ "idle" \notin FullSteps
    BY DEF OpenSteps, FullSteps, PartSteps, DoneSteps
  <2> QED BY <2>1, <2>2, <2>3, <2>4 DEF UpToDate
<1>3. ASSUME NEW f \in Files, f # job[h].file
      PROVE  /\ f \in files' => Finished(f)'
             /\ tasks'[f].status = "none" => tasks'[f].done = <<>>
  <2>1. ASSUME NEW k \in Handlers, job[k].at = "done.save", job[k].file = f
        PROVE  job'[k] = job[k]
    BY <1>3, <2>1
  <2> QED BY <1>3, <2>1 DEF LedgerInv, FilesAndTasks, Finished
<1>4. \A g \in Handlers : UpToDate(g)'
  BY <1>2
<1>5. FilesAndTasks'
  BY <1>3 DEF FilesAndTasks
<1> QED BY <1>1, <1>4, <1>5 DEF LedgerInv

-----------------------------------------------------------------------------
(* The steps. *)

LEMMA RequestLedger ==
    ASSUME Orderly, UploadInv, LedgerInv, NEW h \in Handlers, Request(h)
    PROVE  LedgerInv'
<1>0. TypeOK /\ job \in [Handlers -> Jobs]
  BY JobAt DEF UploadInv
<1>1. PICK f \in Files, u \in Users, p \in Numbers, s \in {"init.user", "part.get", "done.get"} :
        Begin(h, f, u, p, s)
  BY ChunksType, IdleType DEF Request, InitUpload, UploadPart, CompleteUpload
<1> DEFINE j == [Idle EXCEPT !.at = s, !.file = f, !.user = u, !.part = p]
<1>2. j \in Jobs /\ j.at = s /\ j.file = f /\ j.user = u
  BY IdleType DEF Jobs, Steps, PartSteps, DoneSteps
<1>3. job' = [job EXCEPT ![h] = j] /\ UNCHANGED <<tasks, files, quota>> /\ job[h].at = "idle"
  BY <1>1 DEF Begin, dbVars, At
<1>4. MayStart(f, u, s)
  BY <1>1 DEF Begin
<1> HIDE DEF j
<1>5. job'[h] = j /\ \A g \in Handlers : g # h => job'[g] = job[g]
  BY <1>0, <1>2, <1>3
<1>6. /\ \A g \in Handlers : job[g].at \in DoneSteps => job[g].file # f
      /\ s = "done.get" => \A g \in Handlers :
            /\ job[g].at # "idle" => job[g].file # f
            /\ job[g].at \in DoneSteps => job[g].user # u
  BY <1>4 DEF MayStart, Completing, File, User, At
<1>7. Exclusive'
  <2> SUFFICES ASSUME NEW g \in Handlers, NEW k \in Handlers,
                      g # k, job'[k].at \in DoneSteps, job'[g].at # "idle"
               PROVE  /\ job'[g].file # job'[k].file
                      /\ job'[g].at \in DoneSteps => job'[g].user # job'[k].user
    BY DEF Exclusive
  <2>1. s \in DoneSteps => s = "done.get"
    BY DEF DoneSteps
  <2>2. CASE k = h
    BY <1>2, <1>5, <1>6, <2>1, <2>2
  <2>3. CASE g = h
    BY <1>2, <1>5, <1>6, <2>1, <2>3
  <2>4. CASE k # h /\ g # h
    BY <1>5, <2>4 DEF LedgerInv, Exclusive
  <2> QED BY <2>2, <2>3, <2>4
<1>8. ASSUME NEW g \in Handlers PROVE UpToDate(g)'
  <2>1. CASE g = h
    BY <1>2, <1>5, <2>1 DEF UpToDate, OpenSteps, FullSteps, PartSteps, DoneSteps
  <2>2. CASE g # h
    BY <1>3, <1>5, <2>2 DEF LedgerInv, UpToDate
  <2> QED BY <2>1, <2>2
<1>9. ASSUME NEW x \in Files PROVE Finished(x) => Finished(x)'
  BY <1>3, <1>5 DEF Finished
<1> QED BY <1>3, <1>7, <1>8, <1>9 DEF LedgerInv, FilesAndTasks

\* A call that ends without having changed a row.
LEMMA EndLedger ==
    ASSUME LedgerInv, TypeOK, NEW h \in Handlers, Return(h),
           UNCHANGED <<tasks, files, quota>>, job[h].at # "done.save"
    PROVE  LedgerInv'
<1>1. job'[h].at = "idle" /\ \A g \in Handlers : g # h => job'[g] = job[g]
  BY ReturnJob
<1>2. UpToDate(h)'
  BY <1>1 DEF UpToDate, OpenSteps, FullSteps, PartSteps, DoneSteps
<1> QED BY <1>1, <1>2, MoveLedger DEF Proceeds

\* Steps before anything is changed, and steps of the storage engine.
LEMMA LookLedger ==
    ASSUME EngineFaultsOnly, UploadInv, LedgerInv, NEW h \in Handlers,
           InitUser(h) \/ InitFile(h) \/ InitTask(h) \/ InitStore(h) \/ PartGet(h) \/ PartStore(h)
           \/ DoneStore(h) \/ DoneCreate(h) \/ DoneRemove(h)
    PROVE  LedgerInv'
<1> DEFINE a == job[h].at
<1>0. TypeOK
  BY DEF UploadInv
<1>1. UNCHANGED <<tasks, files, quota>> /\ a # "done.save" /\ a # "idle"
  BY DEF InitUser, InitFile, InitTask, InitStore, PartGet, PartStore, DoneStore, DoneCreate,
         DoneRemove, dbVars, At
<1>2. \/ Return(h)
      \/ \E s \in {"init.file", "init.task", "init.create"} : Goto(h, s) /\ a \notin DoneSteps
      \/ Goto(h, "init.delete") /\ a = "init.store"
      \/ Goto(h, "part.store") /\ a = "part.get" /\ tasks[job[h].file].status = "uploading"
      \/ Goto(h, "part.lock") /\ a = "part.store"
      \/ Goto(h, "done.copy") /\ a = "done.store"
      \/ Goto(h, "done.user") /\ a \in {"done.store", "done.copy"}
  BY DEF InitUser, InitFile, InitTask, InitStore, PartGet, PartStore, DoneStore, DoneCreate,
         DoneRemove, At, Task, File, DoneSteps
<1>3. CASE Return(h)
  BY <1>0, <1>1, <1>3, EndLedger
<1>4. ASSUME NEW s \in Steps, Goto(h, s), s \in DoneSteps => a \in DoneSteps, UpToDate(h)' PROVE LedgerInv'
  BY <1>0, <1>1, <1>4, GotoKeeps, MoveLedger DEF Proceeds
<1>5. UpToDate(h) /\ job[h].file \in Files
  BY <1>0, JobAt DEF LedgerInv
<1> HIDE DEF a
<1>6. CASE \E s \in {"init.file", "init.task", "init.create"} : Goto(h, s) /\ a \notin DoneSteps
  <2>1. PICK s \in {"init.file", "init.task", "init.create"} : Goto(h, s)
    BY <1>6
  <2>2. s \in Steps /\ s \notin DoneSteps /\ s \notin OpenSteps /\ s \notin FullSteps
    BY DEF Steps, DoneSteps, OpenSteps, FullSteps, PartSteps
  <2>3. job'[h].at = s
    BY <1>0, <2>1, <2>2, GotoKeeps
  <2>4. UpToDate(h)'
    BY <2>2, <2>3 DEF UpToDate
  <2> QED BY <1>4, <2>1, <2>2, <2>4
<1>7. CASE Goto(h, "init.delete") /\ a = "init.store"
  <2>1. "init.delete" \in Steps \ (DoneSteps \cup FullSteps)
    BY DEF Steps, DoneSteps, FullSteps
  <2>2. UpToDate(h)'
    BY <1>0, <1>1, <1>5, <1>7, <2>1, GotoKeeps DEF UpToDate, OpenSteps, a
  <2> QED BY <1>4, <1>7, <2>1, <2>2
<1>8. CASE Goto(h, "part.store") /\ a = "part.get" /\ tasks[job[h].file].status = "uploading"
  <2>1. "part.store" \in Steps \ (DoneSteps \cup FullSteps)
    BY DEF Steps, DoneSteps, FullSteps, PartSteps
  <2>2. job[h].file \notin files
    BY <1>5, <1>8 DEF LedgerInv, FilesAndTasks, Finished, Exclusive, DoneSteps, a
  <2>3. UpToDate(h)'
    BY <1>0, <1>1, <1>8, <2>1, <2>2, GotoKeeps DEF UpToDate
  <2> QED BY <1>4, <1>8, <2>1, <2>3
<1>9. CASE Goto(h, "part.lock") /\ a = "part.store"
  <2>1. "part.lock" \in Steps \ (DoneSteps \cup FullSteps) /\ "part.store" \in OpenSteps
    BY DEF Steps, DoneSteps, FullSteps, PartSteps, OpenSteps
  <2>2. UpToDate(h)'
    BY <1>0, <1>1, <1>5, <1>9, <2>1, GotoKeeps DEF UpToDate, a
  <2> QED BY <1>4, <1>9, <2>1, <2>2
<1>10. ASSUME NEW s \in {"done.copy", "done.user"}, Goto(h, s), a \in {"done.store", "done.copy"}
       PROVE  LedgerInv'
  <2>1. s \in Steps /\ s \in FullSteps /\ a \in FullSteps /\ a \in DoneSteps /\ s \notin OpenSteps
    BY <1>10 DEF Steps, DoneSteps, FullSteps, PartSteps, OpenSteps
  <2>2. UpToDate(h)'
    BY <1>0, <1>1, <1>5, <1>10, <2>1, GotoKeeps DEF UpToDate, a
  <2> QED BY <1>4, <1>10, <2>1, <2>2
<1> QED BY <1>2, <1>3, <1>6, <1>7, <1>8, <1>9, <1>10

\* Steps that make or remove a task.
LEMMA TaskLedger ==
    ASSUME EngineFaultsOnly, UploadInv, LedgerInv, NEW h \in Handlers, InitCreate(h) \/ InitDelete(h)
    PROVE  LedgerInv'
<1> DEFINE f == job[h].file
<1>0. TypeOK /\ tasks \in [Files -> Rows] /\ job[h].file \in Files /\ User(h) \in Users
  BY JobAt DEF UploadInv, TypeOK
<1>1. UNCHANGED <<files, quota>> /\ job[h].at \notin DoneSteps /\ job[h].at # "idle"
  BY DEF InitCreate, InitDelete, At, DoneSteps
<1>2. CASE UNCHANGED tasks /\ Return(h)
  BY <1>0, <1>1, <1>2, EndLedger DEF DoneSteps
<1>3. CASE InitCreate(h) /\ tasks[f].status = "none"
  <2>1. /\ tasks[f].status = "none" /\ tasks'[f].status = "uploading"
        /\ Goto(h, "init.store") /\ \A g \in Files : g # f => tasks'[g] = tasks[g]
    BY <1>0, <1>3 DEF InitCreate, Task, File
  <2>2. "init.store" \in Steps \ (DoneSteps \cup FullSteps)
    BY DEF Steps, DoneSteps, FullSteps
  <2>3. /\ job'[h].at = "init.store" /\ job'[h].file = f /\ job'[h].user = job[h].user
        /\ \A g \in Handlers : g # h => job'[g] = job[g]
    BY <1>0, <2>1, <2>2, GotoKeeps
  <2>4. Exclusive'
    BY <1>1, <2>2, <2>3, ExclusiveKept DEF LedgerInv, Proceeds
  <2>5. f \notin files
    BY <1>0, <1>1, <2>1 DEF LedgerInv, FilesAndTasks, Finished, Exclusive, DoneSteps
  <2>6. ASSUME NEW g \in Handlers PROVE UpToDate(g)'
    <3>1. CASE g = h
      BY <1>1, <2>1, <2>2, <2>3, <2>5, <3>1 DEF UpToDate
    <3>2. CASE g # h
      <4>1. UpToDate(g) /\ job'[g] = job[g] /\ job[g].file \in Files
        BY <1>0, <2>3, <3>2, JobAt DEF LedgerInv
      <4>2. CASE job[g].file = f
        <5>1. job[g].at \notin OpenSteps /\ job[g].at \notin FullSteps
          BY <2>1, <4>1, <4>2 DEF UpToDate
        <5>2. job[g].at # "part.save" /\ job[g].at # "done.charge"
          BY <5>1 DEF OpenSteps, FullSteps, PartSteps, DoneSteps
        <5> QED BY <4>1, <5>1, <5>2 DEF UpToDate
      <4>3. CASE job[g].file # f
        BY <1>1, <2>1, <4>1, <4>3 DEF UpToDate
      <4> QED BY <4>2, <4>3
    <3> QED BY <3>1, <3>2
  <2>7. ASSUME NEW x \in Files, x # f PROVE Finished(x) => Finished(x)'
    BY <1>1, <2>1, <2>3, <2>7 DEF Finished, DoneSteps
  <2> QED BY <1>1, <2>1, <2>4, <2>5, <2>6, <2>7 DEF LedgerInv, FilesAndTasks
<1>4. CASE InitDelete(h) /\ ~UNCHANGED tasks
  <2>1. /\ tasks'[f].status \in {tasks[f].status, "deleted"} /\ tasks'[f].done = tasks[f].done
        /\ Return(h) /\ \A g \in Files : g # f => tasks'[g] = tasks[g]
        /\ job[h].at \in OpenSteps
    <3>1. tasks' = [tasks EXCEPT ![f].status = IF Visible(Task(h)) THEN "deleted" ELSE @]
      BY <1>4 DEF InitDelete, File
    <3>2. tasks[f] \in Rows
      BY <1>0
    <3> QED BY <1>0, <1>4, <3>1, <3>2 DEF InitDelete, Rows, At, OpenSteps
  <2>2. job'[h].at = "idle" /\ \A g \in Handlers : g # h => job'[g] = job[g]
    BY <1>0, <2>1, ReturnJob
  <2>3. Exclusive'
    BY <2>2, ExclusiveKept DEF LedgerInv, Proceeds
  <2>4. f \notin files /\ tasks[f].status # "none"
    BY <2>1 DEF LedgerInv, UpToDate
  <2>5. ASSUME NEW g \in Handlers PROVE UpToDate(g)'
    <3>1. CASE g = h
      BY <2>2, <3>1 DEF UpToDate, OpenSteps, FullSteps, PartSteps, DoneSteps
    <3>2. CASE g # h
      <4>1. UpToDate(g) /\ job'[g] = job[g] /\ job[g].file \in Files
        BY <1>0, <2>2, <3>2, JobAt DEF LedgerInv
      <4>2. CASE job[g].file = f
        <5>1. job[g].at \notin DoneSteps
          BY <1>1, <3>2, <4>2 DEF LedgerInv, Exclusive
        <5>2. Recorded(tasks'[f]) = Recorded(tasks[f])
          BY <2>1 DEF Recorded
        <5> QED BY <1>1, <2>1, <4>1, <4>2, <5>1, <5>2 DEF UpToDate, FullSteps, DoneSteps
      <4>3. CASE job[g].file # f
        BY <1>1, <2>1, <4>1, <4>3 DEF UpToDate
      <4> QED BY <4>2, <4>3
    <3> QED BY <3>1, <3>2
  <2>6. ASSUME NEW x \in Files, x # f PROVE Finished(x) => Finished(x)'
    BY <1>1, <2>1, <2>2, <2>6 DEF Finished, DoneSteps
  <2> QED BY <1>1, <2>1, <2>3, <2>4, <2>5, <2>6 DEF LedgerInv, FilesAndTasks
<1> QED BY <1>2, <1>3, <1>4 DEF InitCreate, InitDelete, Task, File

\* The steps of an upload that has stored its part.
LEMMA PartLedger ==
    ASSUME EngineFaultsOnly, OneStorageProcess, UploadInv, LedgerInv, NEW h \in Handlers,
           PartLock(h) \/ PartFetch(h) \/ PartSave(h) \/ PartSaveZero(h)
    PROVE  LedgerInv'
<1> DEFINE f == job[h].file
<1>0. /\ TypeOK /\ tasks \in [Files -> Rows] /\ f \in Files /\ UpToDate(h)
      /\ job \in [Handlers -> Jobs] /\ job[h].row \in Rows /\ job[h].part \in Numbers
      /\ Once(job[h].row.done)
  BY JobAt DEF UploadInv, TypeOK, LedgerInv, NoRepeats
<1>1. UNCHANGED <<files, quota>> /\ job[h].at \in OpenSteps \ (DoneSteps \cup {"idle"})
  BY DEF PartLock, PartFetch, PartSave, PartSaveZero, At, DoneSteps, PartSteps, OpenSteps, dbVars
<1>2. CASE PartLock(h)
  <2>1. "part.fetch" \in Steps \ (DoneSteps \cup FullSteps)
    BY DEF Steps, DoneSteps, FullSteps, PartSteps
  <2>2. Goto(h, "part.fetch") /\ UNCHANGED tasks
    BY <1>2 DEF PartLock, dbVars
  <2>3. UpToDate(h)'
    BY <1>0, <1>1, <2>1, <2>2, GotoKeeps DEF UpToDate
  <2> QED BY <1>0, <1>1, <2>1, <2>2, <2>3, GotoKeeps, MoveLedger DEF Proceeds, DoneSteps
<1>3. CASE PartFetch(h)
  <2>1. PICK t \in {Task(h), NoRow} :
          job' = [job EXCEPT ![h].at = "part.save", ![h].row = IF Visible(t) THEN t ELSE NoRow]
    BY <1>3 DEF PartFetch
  <2>2. /\ job'[h].at = "part.save" /\ job'[h].file = f /\ job'[h].user = job[h].user
        /\ job'[h].row \in {NoRow, tasks[f]} /\ \A g \in Handlers : g # h => job'[g] = job[g]
    BY <1>0, <2>1, JobAt, NoRowType DEF Jobs, Task, File
  <2>3. UNCHANGED tasks
    BY <1>3 DEF PartFetch, dbVars
  <2>4. UpToDate(h)'
    BY <1>0, <1>1, <2>2, <2>3, NoRowType DEF UpToDate, Visible, FullSteps, DoneSteps
  <2> QED BY <1>1, <2>2, <2>3, <2>4, MoveLedger DEF Proceeds, DoneSteps
<1>4. CASE PartSaveZero(h)
  BY <1>0, <1>1, <1>4, EndLedger DEF PartSaveZero, DoneSteps
<1>5. CASE PartSave(h)
  <2>1. /\ job[h].at = "part.save" /\ Visible(job[h].row) /\ Return(h)
        /\ tasks'[f] = WithPart(job[h].row, job[h].part)
        /\ \A g \in Files : g # f => tasks'[g] = tasks[g]
    BY <1>0, <1>5 DEF PartSave, At, File
  <2>2. tasks'[f].status = "uploading"
    BY <1>0, <2>1, WithPartRow DEF UpToDate
  <2>3. job'[h].at = "idle" /\ \A g \in Handlers : g # h => job'[g] = job[g]
    BY <1>0, <2>1, ReturnJob
  <2>4. Exclusive'
    BY <2>3, ExclusiveKept DEF LedgerInv, Proceeds
  <2>5. f \notin files
    BY <1>0, <1>1 DEF UpToDate
  <2>6. ASSUME NEW g \in Handlers PROVE UpToDate(g)'
    <3>1. CASE g = h
      BY <2>3, <3>1 DEF UpToDate, OpenSteps, FullSteps, PartSteps, DoneSteps
    <3>2. CASE g # h
      <4>1. UpToDate(g) /\ job'[g] = job[g] /\ job[g].file \in Files
        BY <1>0, <2>3, <3>2, JobAt DEF LedgerInv
      <4>2. CASE job[g].file = f
        <5>1. job[g].at \notin DoneSteps
          BY <1>1, <3>2, <4>2 DEF LedgerInv, Exclusive
        <5>2. job[g].at # "part.save"
          BY <2>1, <3>2, OneMutex
        <5> QED BY <1>1, <2>2, <4>1, <4>2, <5>1, <5>2 DEF UpToDate, FullSteps, DoneSteps
      <4>3. CASE job[g].file # f
        BY <1>1, <2>1, <4>1, <4>3 DEF UpToDate
      <4> QED BY <4>2, <4>3
    <3> QED BY <3>1, <3>2
  <2>7. ASSUME NEW x \in Files, x # f PROVE Finished(x) => Finished(x)'
    BY <1>1, <2>1, <2>3, <2>7 DEF Finished, DoneSteps
  <2> QED BY <1>1, <2>1, <2>2, <2>4, <2>5, <2>6, <2>7 DEF LedgerInv, FilesAndTasks
<1> QED BY <1>2, <1>3, <1>4, <1>5

\* The steps of a completion.
LEMMA CompletionLedger ==
    ASSUME EngineFaultsOnly, UploadInv, LedgerInv, NEW h \in Handlers,
           DoneGet(h) \/ DoneCopy(h) \/ DoneUser(h) \/ DoneCharge(h) \/ DoneFile(h) \/ DoneSave(h)
    PROVE  LedgerInv'
<1> USE DEF DoneSteps, FullSteps
<1> DEFINE f == job[h].file
           u == job[h].user
<1>0. /\ TypeOK /\ tasks \in [Files -> Rows] /\ f \in Files /\ UpToDate(h) /\ u \in Users
      /\ job \in [Handlers -> Jobs] /\ job[h] \in Jobs /\ quota \in [Users -> Int] /\ Total \in Nat
      /\ FilesAndTasks /\ Exclusive
  BY JobAt, ChunksType DEF UploadInv, TypeOK, LedgerInv, User
<1>1. job[h].at \in DoneSteps /\ "done.user" \in Steps /\ \A s \in DoneSteps : s \in Steps /\ s \notin OpenSteps
  BY DEF DoneGet, DoneCopy, DoneUser, DoneCharge, DoneFile, DoneSave, At, Steps, OpenSteps, PartSteps
<1>2. CASE DoneGet(h)
  <2>1. UNCHANGED <<tasks, files, quota>> /\ job[h].at = "done.get"
    BY <1>2 DEF DoneGet, dbVars, At
  <2>2. CASE Return(h)
    BY <1>0, <2>1, <2>2, EndLedger
  <2>3. CASE ~Return(h)
    <3>1. /\ tasks[f].status = "uploading"
          /\ job' = [job EXCEPT ![h].at = "done.store", ![h].row = tasks[f]]
      BY <1>2, <2>3 DEF DoneGet, Task, File
    <3>2. /\ job'[h].at = "done.store" /\ job'[h].file = f /\ job'[h].user = u /\ job'[h].row = tasks[f]
          /\ \A g \in Handlers : g # h => job'[g] = job[g]
      BY <1>0, <3>1 DEF Jobs
    <3>3. f \notin files
      BY <1>0, <2>1, <3>1 DEF FilesAndTasks, Finished, Exclusive
    <3>4. UpToDate(h)'
      BY <1>1, <2>1, <3>1, <3>2, <3>3 DEF UpToDate
    <3> QED BY <1>0, <2>1, <3>2, <3>4, MoveLedger DEF Proceeds
  <2> QED BY <2>2, <2>3
<1>3. CASE DoneCopy(h)
  <2>1. UNCHANGED <<tasks, files, quota>> /\ job[h].at = "done.copy"
    BY <1>3 DEF DoneCopy, dbVars, At
  <2>2. CASE Return(h)
    BY <1>0, <2>1, <2>2, EndLedger
  <2>3. CASE ~Return(h)
    <3>1. job' = [job EXCEPT ![h].copied = @ + 1]
      BY <1>3, <2>3 DEF DoneCopy
    <3>2. /\ job'[h].at = "done.copy" /\ job'[h].file = f /\ job'[h].user = u /\ job'[h].row = job[h].row
          /\ \A g \in Handlers : g # h => job'[g] = job[g]
      BY <1>0, <2>1, <3>1 DEF Jobs
    <3>4. UpToDate(h)'
      BY <1>0, <1>1, <2>1, <3>1, <3>2 DEF UpToDate
    <3> QED BY <1>0, <2>1, <3>2, <3>4, MoveLedger DEF Proceeds
  <2> QED BY <2>2, <2>3
<1>4. CASE DoneUser(h)
  <2>1. UNCHANGED <<tasks, files, quota>> /\ job[h].at = "done.user"
    BY <1>4 DEF DoneUser, dbVars, At
  <2>2. job' = [job EXCEPT ![h].at = "done.charge", ![h].balance = quota[u]]
    BY <1>4 DEF DoneUser, Fault, EngineFaultsOnly, User
  <2>3. /\ job'[h].at = "done.charge" /\ job'[h].file = f /\ job'[h].user = u /\ job'[h].row = job[h].row
        /\ job'[h].balance = quota[u]
        /\ \A g \in Handlers : g # h => job'[g] = job[g]
    BY <1>0, <2>1, <2>2 DEF Jobs
  <2>4. UpToDate(h)'
    BY <1>0, <1>1, <2>1, <2>3 DEF UpToDate
  <2> QED BY <1>0, <2>1, <2>3, <2>4, MoveLedger DEF Proceeds
<1>5. CASE DoneCharge(h)
  <2>1. /\ UNCHANGED <<tasks, files>> /\ job[h].at = "done.charge" /\ Goto(h, "done.file")
        /\ quota' = [quota EXCEPT ![u] = job[h].balance - Total]
    BY <1>5 DEF DoneCharge, At, Fault, EngineFaultsOnly, User
  <2>2. /\ job'[h].at = "done.file" /\ job'[h].file = f /\ job'[h].user = u /\ job'[h].row = job[h].row
        /\ \A g \in Handlers : g # h => job'[g] = job[g]
    BY <1>0, <1>1, <2>1, GotoKeeps
  <2>3. UpToDate(h)'
    BY <1>0, <1>1, <2>1, <2>2 DEF UpToDate
  <2>4. f \notin files /\ tasks[f].status # "none"
    BY <1>0, <2>1 DEF UpToDate
  <2>5. \A x \in Users : x # u => quota'[x] = quota[x]
    BY <1>0, <2>1
  <2> QED BY <1>0, <1>1, <2>1, <2>2, <2>3, <2>4, <2>5, DoneLedger DEF Proceeds
<1>6. CASE DoneFile(h)
  <2>1. job[h].at = "done.file" /\ UNCHANGED <<tasks, quota>>
    BY <1>6 DEF DoneFile, At
  <2>2. f \notin files /\ tasks[f].status # "none"
    BY <1>0, <2>1 DEF UpToDate
  <2>3. files' = files \cup {f} /\ Goto(h, "done.save")
    BY <1>6, <2>2 DEF DoneFile, File
  <2>4. /\ job'[h].at = "done.save" /\ job'[h].file = f /\ job'[h].user = u /\ job'[h].row = job[h].row
        /\ \A g \in Handlers : g # h => job'[g] = job[g]
    BY <1>0, <1>1, <2>3, GotoKeeps
  <2>5. UpToDate(h)'
    BY <1>0, <1>1, <2>1, <2>3, <2>4 DEF UpToDate
  <2>6. \A x \in Files : x = f => Finished(x)'
    BY <2>4 DEF Finished
  <2> QED BY <1>0, <1>1, <2>1, <2>2, <2>3, <2>4, <2>5, <2>6, DoneLedger DEF Proceeds
<1>7. CASE DoneSave(h)
  <2>1. /\ job[h].at = "done.save" /\ UNCHANGED <<files, quota>> /\ Return(h)
        /\ tasks' = [tasks EXCEPT ![f] = [job[h].row EXCEPT !.status = "completed"]]
    BY <1>7 DEF DoneSave, At, Fault, EngineFaultsOnly, File
  <2>2. job'[h].at = "idle" /\ \A g \in Handlers : g # h => job'[g] = job[g]
    BY <1>0, <2>1, ReturnJob
  <2>3. job[h].row \in Rows
    BY <1>0, JobAt
  <2>4. tasks'[f].status = "completed" /\ \A x \in Files : x # f => tasks'[x] = tasks[x]
    BY <1>0, <2>1, <2>3 DEF Rows
  <2>5. UpToDate(h)'
    BY <2>2 DEF UpToDate, OpenSteps, PartSteps
  <2> QED BY <1>0, <1>1, <2>1, <2>2, <2>4, <2>5, DoneLedger DEF Proceeds, Finished
<1> QED BY <1>2, <1>3, <1>4, <1>5, <1>6, <1>7

LEMMA LedgerInvInit == Init => LedgerInv
<1> SUFFICES ASSUME Init PROVE LedgerInv
  OBVIOUS
<1>1. \A h \in Handlers : job[h].at = "idle"
  BY IdleType DEF Init
<1>2. files = {} /\ \A f \in Files : tasks[f].done = <<>>
  BY NoRowType DEF Init
<1> QED BY <1>1, <1>2
        DEF LedgerInv, Exclusive, UpToDate, FilesAndTasks, OpenSteps, FullSteps, PartSteps, DoneSteps

\* Steps that concern neither rows nor calls.
LEMMA StillLedger ==
    ASSUME LedgerInv, UNCHANGED <<tasks, files, quota, job>>
    PROVE  LedgerInv'
<1>1. \A h \in Handlers : UpToDate(h)'
  BY DEF LedgerInv, UpToDate
<1>2. Exclusive'
  BY DEF LedgerInv, Exclusive
<1>3. FilesAndTasks'
  BY DEF LedgerInv, FilesAndTasks, Finished
<1> QED BY <1>1, <1>2, <1>3 DEF LedgerInv

\* Only the storage engine fails.
LEMMA EngineFaults ==
    ASSUME EngineFaultsOnly
    PROVE  /\ \A h \in Handlers : ~QueryFails(h) /\ ~PartSaveFails(h)
           /\ \A i \in Instances : ~Crash(i)
BY DEF QueryFails, PartSaveFails, Crash, Fault, EngineFaultsOnly

-----------------------------------------------------------------------------
(* The refinement. *)

StateOf(f) == IF f \in files THEN "stored"
              ELSE CASE tasks[f].status = "none" -> "absent"
                     [] tasks[f].status = "deleted" -> "dropped"
                     [] OTHER -> "open"
PaidFor(u) == Quota - quota[u] - Total * Pending(u)

States == [f \in Files |-> StateOf(f)]
Acks == [f \in Files |-> Recorded(tasks[f])]
Payments == [u \in Users |-> PaidFor(u)]

\* The deductions on their way, in calls J.
PayersIn(J, u) == {h \in Handlers : J[h].at = "done.file" /\ J[h].user = u}

LEMMA PendingPayers == \A u : Pending(u) = Cardinality(PayersIn(job, u))
BY DEF Pending, PayersIn, At, User

LEMMA PendingSame ==
    ASSUME NEW h \in Handlers, \A g \in Handlers : g # h => job'[g] = job[g],
           job[h].at # "done.file", job'[h].at # "done.file", NEW u
    PROVE  PayersIn(job', u) = PayersIn(job, u)
BY DEF PayersIn

\* A completion about to insert the file is the only payer of its user.
LEMMA OnePayer ==
    ASSUME NEW J, NEW h \in Handlers, NEW u,
           \A g \in Handlers : g # h /\ J[g].at = "done.file" => J[g].user # u
    PROVE  /\ J[h].at = "done.file" /\ J[h].user = u => Cardinality(PayersIn(J, u)) = 1
           /\ J[h].at # "done.file" => Cardinality(PayersIn(J, u)) = 0
<1>1. CASE J[h].at = "done.file" /\ J[h].user = u
  <2>1. PayersIn(J, u) = {h}
    BY <1>1 DEF PayersIn
  <2> QED BY <1>1, <2>1, FS_Singleton
<1>2. CASE J[h].at # "done.file"
  <2>1. PayersIn(J, u) = {}
    BY <1>2 DEF PayersIn
  <2> QED BY <1>2, <2>1, FS_EmptySet
<1> QED BY <1>1, <1>2

LEMMA SamePayments ==
    ASSUME NEW h \in Handlers, \A g \in Handlers : g # h => job'[g] = job[g],
           job[h].at # "done.file", job'[h].at # "done.file", UNCHANGED quota
    PROVE  Payments' = Payments
<1>1. \A u \in Users : Pending(u)' = Pending(u)
  BY PendingSame DEF Pending, PayersIn, At, User
<1> QED BY <1>1 DEF Payments, PaidFor

LEMMA SameTasks == UNCHANGED <<tasks, files>> => States' = States /\ Acks' = Acks
BY DEF States, StateOf, Acks, Recorded

LEMMA LedgerInit == Init => Ledger!Init
<1> SUFFICES ASSUME Init PROVE Ledger!Init
  OBVIOUS
<1>1. \A h \in Handlers : job[h].at # "done.file"
  BY IdleType DEF Init
<1>2. \A u : PayersIn(job, u) = {}
  BY <1>1 DEF PayersIn
<1>3. \A u \in Users : Pending(u) = 0
  BY <1>2, PendingPayers, FS_EmptySet
<1>4. \A u \in Users : Quota - quota[u] - Total * Pending(u) = 0
  BY <1>3, QuotaAssumption, ChunksType DEF Init
<1>5. \A f \in Files : f \notin files /\ tasks[f].status = "none" /\ Recorded(tasks[f]) = {}
  BY NoRowType DEF Init, Recorded
<1> QED BY <1>4, <1>5 DEF Ledger!Init

\* Every step but those below leaves the ledger alone.
LEMMA StepsStutter ==
    ASSUME EngineFaultsOnly, UploadInv, NEW h \in Handlers,
           Request(h) \/ InitUser(h) \/ InitFile(h) \/ InitTask(h) \/ InitStore(h) \/ PartGet(h)
           \/ PartStore(h) \/ PartLock(h) \/ PartFetch(h) \/ PartSaveZero(h) \/ DoneGet(h)
           \/ DoneStore(h) \/ DoneCreate(h) \/ DoneCopy(h) \/ DoneRemove(h) \/ DoneUser(h)
    PROVE  States' = States /\ Acks' = Acks /\ Payments' = Payments
<1>0. TypeOK /\ job \in [Handlers -> Jobs] /\ job[h] \in Jobs
  BY JobAt DEF UploadInv
<1>1. UNCHANGED <<tasks, files, quota>> /\ job[h].at # "done.file"
  BY DEF Request, InitUpload, UploadPart, CompleteUpload, Begin, InitUser, InitFile, InitTask, InitStore,
         PartGet, PartStore, PartLock, PartFetch, PartSaveZero, DoneGet, DoneStore, DoneCreate,
         DoneCopy, DoneRemove, DoneUser, dbVars, At
<1>2. \E j \in Jobs : j.at # "done.file" /\ job' = [job EXCEPT ![h] = j]
  <2>1. CASE Request(h)
    <3>1. PICK f \in Files, u \in Users, p \in Numbers, s \in {"init.user", "part.get", "done.get"} :
            Begin(h, f, u, p, s)
      BY <2>1, ChunksType, IdleType DEF Request, InitUpload, UploadPart, CompleteUpload
    <3> DEFINE j == [Idle EXCEPT !.at = s, !.file = f, !.user = u, !.part = p]
    <3>2. j \in Jobs /\ j.at # "done.file" /\ job' = [job EXCEPT ![h] = j]
      BY <3>1, IdleType DEF Begin, Jobs, Steps, PartSteps, DoneSteps
    <3> QED BY <3>2
  <2>2. CASE Return(h)
    BY <2>2, IdleType DEF Return
  <2>3. ASSUME NEW s \in Steps \ {"done.file"}, Goto(h, s)
        PROVE  \E j \in Jobs : j.at # "done.file" /\ job' = [job EXCEPT ![h] = j]
    <3> DEFINE j == [job[h] EXCEPT !.at = s]
    <3>1. j \in Jobs /\ j.at = s /\ job' = [job EXCEPT ![h] = j]
      BY <1>0, <2>3 DEF Goto, Jobs
    <3> QED BY <3>1
  <2>4. CASE PartFetch(h)
    <3>1. PICK t \in {Task(h), NoRow} :
            job' = [job EXCEPT ![h].at = "part.save", ![h].row = IF Visible(t) THEN t ELSE NoRow]
      BY <2>4 DEF PartFetch
    <3> DEFINE j == [job[h] EXCEPT !.at = "part.save", !.row = IF Visible(t) THEN t ELSE NoRow]
    <3>2. j \in Jobs /\ j.at = "part.save"
      BY <1>0, NoRowType, JobAt DEF Jobs, Steps, PartSteps
    <3>3. job' = [job EXCEPT ![h] = j]
      BY <1>0, <3>1
    <3> QED BY <3>2, <3>3
  <2>5. CASE DoneGet(h)
    <3> DEFINE j == [job[h] EXCEPT !.at = "done.store", !.row = Task(h)]
    <3>1. j \in Jobs /\ j.at = "done.store"
      BY <1>0, JobAt DEF Jobs, Steps, DoneSteps
    <3>2. Return(h) \/ job' = [job EXCEPT ![h] = j]
      BY <1>0, <2>5 DEF DoneGet
    <3> QED BY <2>2, <3>1, <3>2
  <2>6. CASE DoneCopy(h)
    <3> DEFINE j == [job[h] EXCEPT !.copied = @ + 1]
    <3>1. j \in Jobs /\ j.at = "done.copy"
      BY <1>0, <2>6 DEF Jobs, DoneCopy, At
    <3>2. Return(h) \/ job' = [job EXCEPT ![h] = j]
      BY <1>0, <2>6 DEF DoneCopy
    <3> QED BY <2>2, <3>1, <3>2
  <2>7. CASE DoneUser(h)
    <3> DEFINE j == [job[h] EXCEPT !.at = "done.charge", !.balance = quota[User(h)]]
    <3>1. j \in Jobs /\ j.at = "done.charge"
      BY <1>0, JobAt DEF Jobs, Steps, DoneSteps, TypeOK
    <3>2. job' = [job EXCEPT ![h] = j]
      BY <1>0, <2>7 DEF DoneUser, Fault, EngineFaultsOnly
    <3> QED BY <3>1, <3>2
  <2>8. CASE \/ InitUser(h) \/ InitFile(h) \/ InitTask(h) \/ InitStore(h) \/ PartGet(h) \/ PartStore(h)
             \/ PartLock(h) \/ PartSaveZero(h) \/ DoneStore(h) \/ DoneCreate(h) \/ DoneRemove(h)
    <3>1. Return(h) \/ \E s \in {"init.file", "init.task", "init.create", "init.delete", "part.store",
                                 "part.lock", "part.fetch", "done.copy", "done.user"} : Goto(h, s)
      BY <2>8 DEF InitUser, InitFile, InitTask, InitStore, PartGet, PartStore, PartLock, PartSaveZero,
                  DoneStore, DoneCreate, DoneRemove
    <3> QED BY <2>2, <2>3, <3>1 DEF Steps, PartSteps, DoneSteps
  <2> QED BY <2>1, <2>4, <2>5, <2>6, <2>7, <2>8
<1>3. job'[h].at # "done.file" /\ \A g \in Handlers : g # h => job'[g] = job[g]
  BY <1>0, <1>2
<1> QED BY <1>1, <1>3, SameTasks, SamePayments

\* A task is made (Open), removed (Drop), or gets a chunk (Acknowledge).
LEMMA TaskMaps ==
    ASSUME OwnChunksOnly, EngineFaultsOnly, UploadInv, LedgerInv, NEW h \in Handlers,
           InitCreate(h) \/ InitDelete(h) \/ PartSave(h)
    PROVE  [Ledger!Next]_<<States, Acks, Payments>>
<1> DEFINE f == job[h].file
           p == job[h].part
<1>0. /\ TypeOK /\ tasks \in [Files -> Rows] /\ f \in Files /\ UpToDate(h)
      /\ job[h].row \in Rows /\ p \in Chunks /\ p \in Numbers /\ tasks[f] \in Rows
  BY JobAt DEF OwnChunksOnly, UploadInv, TypeOK, LedgerInv
<1>1. UNCHANGED <<files, quota>> /\ job[h].at \notin DoneSteps
  BY DEF InitCreate, InitDelete, PartSave, At, DoneSteps
<1>2. job'[h].at # "done.file" /\ \A g \in Handlers : g # h => job'[g] = job[g]
  <2>1. Return(h) \/ Goto(h, "init.store")
    BY DEF InitCreate, InitDelete, PartSave
  <2> QED BY <1>0, <2>1, ReturnJob, GotoKeeps DEF Steps
<1>3. Payments' = Payments
  BY <1>1, <1>2, SamePayments DEF DoneSteps
<1>4. CASE UNCHANGED tasks
  BY <1>1, <1>3, <1>4, SameTasks
<1>5. CASE InitCreate(h) /\ tasks[f].status = "none"
  <2>1. /\ tasks' = [tasks EXCEPT ![f] = [status |-> "uploading", owner |-> User(h), done |-> <<>>]]
        /\ tasks[f].done = <<>>
    BY <1>0, <1>5 DEF InitCreate, File, Task, LedgerInv, FilesAndTasks
  <2>2. f \notin files
    BY <1>0, <1>1, <1>5 DEF LedgerInv, FilesAndTasks, Finished, Exclusive, InitCreate, At, DoneSteps
  <2>3. StateOf(f) = "absent" /\ States' = [States EXCEPT ![f] = "open"]
    BY <1>0, <1>1, <1>5, <2>1, <2>2 DEF States, StateOf
  <2>4. Acks' = Acks
    <3>1. tasks'[f].done = tasks[f].done /\ \A x \in Files : x # f => tasks'[x] = tasks[x]
      BY <1>0, <2>1
    <3> QED BY <3>1 DEF Acks, Recorded
  <2> QED BY <1>0, <1>3, <2>3, <2>4 DEF Ledger!Next, Ledger!Open, States, Acks, Payments, StateOf, PaidFor
<1>6. CASE InitDelete(h) /\ ~UNCHANGED tasks
  <2>1. tasks' = [tasks EXCEPT ![f].status = IF Visible(Task(h)) THEN "deleted" ELSE @]
    BY <1>6 DEF InitDelete, File
  <2>2. Visible(tasks[f]) /\ f \notin files /\ tasks[f].status = "uploading"
    <3>1. tasks[f].status \in {"uploading", "deleted"} /\ f \notin files
      BY <1>0, <1>6 DEF UpToDate, InitDelete, At, OpenSteps
    <3>2. ASSUME ~Visible(tasks[f]) PROVE tasks' = tasks
      <4>1. tasks' = [tasks EXCEPT ![f].status = tasks[f].status]
        BY <1>0, <2>1, <3>2 DEF Task, File
      <4>2. tasks' = [tasks EXCEPT ![f] = [tasks[f] EXCEPT !.status = tasks[f].status]]
        BY <4>1
      <4>3. [tasks[f] EXCEPT !.status = tasks[f].status] = tasks[f]
        BY <1>0 DEF Rows
      <4> QED BY <1>0, <4>2, <4>3
    <3> QED BY <1>6, <3>1, <3>2 DEF Visible
  <2>3. tasks'[f].status = "deleted" /\ tasks'[f].done = tasks[f].done
        /\ \A x \in Files : x # f => tasks'[x] = tasks[x]
    BY <1>0, <2>1, <2>2 DEF Task, File, Rows
  <2>4. StateOf(f) = "open" /\ States' = [States EXCEPT ![f] = "dropped"]
    BY <1>0, <1>1, <2>2, <2>3 DEF States, StateOf
  <2>5. Acks' = Acks
    BY <2>3 DEF Acks, Recorded
  <2> QED BY <1>0, <1>3, <2>4, <2>5 DEF Ledger!Next, Ledger!Drop, States, Acks, Payments, StateOf, PaidFor
<1>7. CASE PartSave(h)
  <2>1. /\ Visible(job[h].row) /\ job[h].at = "part.save"
        /\ tasks' = [tasks EXCEPT ![f] = WithPart(job[h].row, p)]
    BY <1>7 DEF PartSave, At, File
  <2>2. /\ f \notin files /\ tasks[f].status \in {"uploading", "deleted"}
        /\ job[h].row.status = "uploading" /\ Recorded(job[h].row) = Recorded(tasks[f])
    BY <1>0, <2>1 DEF UpToDate, OpenSteps, PartSteps
  <2>3. Once(job[h].row.done)
    BY DEF UploadInv, NoRepeats
  <2>4. /\ tasks'[f].status = "uploading" /\ Recorded(tasks'[f]) = Recorded(tasks[f]) \cup {p}
        /\ \A x \in Files : x # f => tasks'[x] = tasks[x]
    BY <1>0, <2>1, <2>2, <2>3, WithPartRow, WithPartOnly
  <2>5. StateOf(f) \in {"open", "dropped"} /\ States' = [States EXCEPT ![f] = "open"]
    BY <1>0, <1>1, <2>2, <2>4 DEF States, StateOf
  <2>6. Acks' = [Acks EXCEPT ![f] = @ \cup {p}]
    <3>1. \A x \in Files : Recorded(tasks'[x]) = IF x = f THEN Recorded(tasks[x]) \cup {p} ELSE Recorded(tasks[x])
      BY <2>4
    <3>2. Acks' = [x \in Files |-> Recorded(tasks'[x])]
      BY DEF Acks, Recorded
    <3> QED BY <1>0, <3>1, <3>2 DEF Acks
  <2> QED BY <1>0, <1>3, <2>5, <2>6 DEF Ledger!Next, Ledger!Acknowledge, States, Acks, Payments, StateOf,
                                         PaidFor, Chunks
<1>8. InitCreate(h) => UNCHANGED tasks \/ tasks[f].status = "none"
  BY DEF InitCreate, Task, File
<1> QED BY <1>4, <1>5, <1>6, <1>7, <1>8

\* The file row is inserted (Store); the deduction before it and the Save after
\* it change nothing in the ledger.
LEMMA DoneMaps ==
    ASSUME OwnChunksOnly, EngineFaultsOnly, UploadInv, LedgerInv, LedgerInv', NEW h \in Handlers,
           DoneCharge(h) \/ DoneFile(h) \/ DoneSave(h)
    PROVE  [Ledger!Next]_<<States, Acks, Payments>>
<1> USE DEF DoneSteps, FullSteps
<1> DEFINE f == job[h].file
           u == job[h].user
<1>0. /\ TypeOK /\ tasks \in [Files -> Rows] /\ f \in Files /\ UpToDate(h) /\ u \in Users
      /\ job \in [Handlers -> Jobs] /\ quota \in [Users -> Int] /\ Total \in Nat
      /\ tasks[f] \in Rows /\ Quota \in Int
  BY JobAt, ChunksType, QuotaAssumption DEF UploadInv, TypeOK, LedgerInv, User
<1>1. job[h].at \in {"done.charge", "done.file", "done.save"}
  BY DEF DoneCharge, DoneFile, DoneSave, At
<1>2. \A g \in Handlers : g # h /\ job[g].at = "done.file" => job[g].user # u
  BY <1>1 DEF LedgerInv, Exclusive
<1>3. CASE DoneSave(h)
  <2>1. /\ job[h].at = "done.save" /\ UNCHANGED <<files, quota>> /\ Return(h)
        /\ tasks' = [tasks EXCEPT ![f] = [job[h].row EXCEPT !.status = "completed"]]
    BY <1>3 DEF DoneSave, At, Fault, EngineFaultsOnly, File
  <2>2. f \in files /\ job[h].row = tasks[f]
    BY <1>0, <2>1 DEF UpToDate
  <2>3. tasks'[f].done = tasks[f].done /\ \A x \in Files : x # f => tasks'[x] = tasks[x]
    BY <1>0, <2>1, <2>2 DEF Rows
  <2>4. Payments' = Payments
    BY <1>0, <2>1, ReturnJob, SamePayments
  <2>5. States' = States
    BY <2>1, <2>2, <2>3 DEF States, StateOf
  <2>6. Acks' = Acks
    BY <2>3 DEF Acks, Recorded
  <2> QED BY <2>4, <2>5, <2>6
<1>4. ASSUME NEW x \in Users, x # u, job'[h].user = u, \A g \in Handlers : g # h => job'[g] = job[g]
      PROVE  Pending(x)' = Pending(x)
  <2>1. PayersIn(job', x) = PayersIn(job, x)
    BY <1>4 DEF PayersIn
  <2> QED BY <2>1 DEF Pending, PayersIn, At, User
<1>5. CASE DoneCharge(h)
  <2>1. /\ UNCHANGED <<tasks, files>> /\ job[h].at = "done.charge" /\ Goto(h, "done.file")
        /\ quota' = [quota EXCEPT ![u] = job[h].balance - Total]
    BY <1>5 DEF DoneCharge, At, Fault, EngineFaultsOnly, User
  <2>2. /\ job'[h].at = "done.file" /\ job'[h].user = u
        /\ \A g \in Handlers : g # h => job'[g] = job[g]
    BY <1>0, <2>1, GotoKeeps DEF Steps
  <2>3. job[h].balance = quota[u]
    BY <1>0, <2>1 DEF UpToDate
  <2>4. Pending(u) = 0
    BY <1>2, <2>1, OnePayer, PendingPayers
  <2>5. Cardinality(PayersIn(job', u)) = 1
    BY <1>2, <2>2, OnePayer
  <2>6. \A x \in Users : x # u => Pending(x)' = Pending(x)
    BY <1>4, <2>2
  <2>7. \A x \in Users : Pending(x)' = Cardinality(PayersIn(job', x))
    BY DEF Pending, PayersIn, At, User
  <2>8. ASSUME NEW x \in Users PROVE Quota - quota'[x] - Total * Pending(x)' = PaidFor(x)
    <3>1. CASE x = u
      <4>1. Pending(x)' = 1 /\ quota'[x] = quota[x] - Total
        BY <1>0, <2>1, <2>3, <2>5, <2>7, <3>1
      <4>2. Total * 1 = Total /\ Total * 0 = 0
        BY <1>0
      <4> QED BY <1>0, <2>4, <3>1, <4>1, <4>2 DEF PaidFor
    <3>2. CASE x # u
      BY <1>0, <2>1, <2>6, <3>2 DEF PaidFor
    <3> QED BY <3>1, <3>2
  <2>9. Payments' = Payments
    BY <2>8 DEF Payments, PaidFor
  <2> QED BY <2>1, <2>9, SameTasks
<1>6. CASE DoneFile(h)
  <2>1. job[h].at = "done.file" /\ UNCHANGED <<tasks, quota>>
    BY <1>6 DEF DoneFile, At
  <2>2. f \notin files /\ job[h].row = tasks[f] /\ tasks[f].status = "uploading"
    BY <1>0, <2>1 DEF UpToDate
  <2>3. files' = files \cup {f} /\ Goto(h, "done.save")
    BY <1>6, <2>2 DEF DoneFile, File
  <2>4. /\ job'[h].at = "done.save" /\ job'[h].user = u
        /\ \A g \in Handlers : g # h => job'[g] = job[g]
    BY <1>0, <2>3, GotoKeeps DEF Steps
  <2>5. Pending(u) = 1
    BY <1>2, <2>1, OnePayer, PendingPayers
  <2>6. Cardinality(PayersIn(job', u)) = 0
    BY <1>2, <2>4, OnePayer
  <2>7. /\ \A x \in Users : x # u => Pending(x)' = Pending(x)
        /\ \A x \in Users : Pending(x)' = Cardinality(PayersIn(job', x))
    BY <1>4, <2>4 DEF Pending, PayersIn, At, User
  <2>8. ASSUME NEW x \in Users
        PROVE  Quota - quota'[x] - Total * Pending(x)' = IF x = u THEN PaidFor(x) + Total ELSE PaidFor(x)
    <3>1. CASE x = u
      <4>1. Total * 1 = Total /\ Total * 0 = 0
        BY <1>0
      <4>2. Pending(x)' = 0 /\ quota'[x] = quota[x]
        BY <2>1, <2>6, <2>7, <3>1
      <4> QED BY <1>0, <2>5, <3>1, <4>1, <4>2 DEF PaidFor
    <3>2. CASE x # u
      BY <2>1, <2>7, <3>2 DEF PaidFor
    <3> QED BY <3>1, <3>2
  <2>9. Payments' = [Payments EXCEPT ![u] = @ + Total]
    <3>1. Payments' = [x \in Users |-> Quota - quota'[x] - Total * Pending(x)']
      BY DEF Payments, PaidFor
    <3> QED BY <1>0, <2>8, <3>1 DEF Payments
  <2>10. StateOf(f) = "open" /\ States' = [States EXCEPT ![f] = "stored"]
    BY <1>0, <2>1, <2>2, <2>3 DEF States, StateOf
  <2>11. Recorded(tasks[f]) = 1 .. Total
    <3>1. job[h].row.done \in Seq(Numbers)
      BY <1>0, <2>2, RowAt
    <3>2. Once(job[h].row.done) /\ Len(job[h].row.done) = Total
      BY <2>1 DEF UploadInv, NoRepeats, FullRows
    <3>3. \A i \in Chunks : job[h].row.done[i] \in Chunks
      BY <3>1, <3>2 DEF OwnChunksOnly, Chunks
    <3> QED BY <2>2, <3>1, <3>2, <3>3, Pigeonhole DEF Recorded, Chunks
  <2>12. Acks' = Acks
    BY <2>1 DEF Acks, Recorded
  <2> QED BY <1>0, <2>9, <2>10, <2>11, <2>12
          DEF Ledger!Next, Ledger!Store, States, Acks, Payments, StateOf, PaidFor
<1> QED BY <1>3, <1>5, <1>6

\* The service implements the ledger: chunks acknowledged stay acknowledged, a
\* file is stored once and with all its chunks, and one user pays for it once
\* (CompleteUpload, UploadPart and InitUpload of file_service.go), as long as
\* one process serves orderly clients that send no number above Total, and only
\* the storage engine fails.
THEOREM LedgerImplemented ==
    ASSUME Orderly, OwnChunksOnly, OneStorageProcess, EngineFaultsOnly
    PROVE  Spec => LedgerSpec
<1>1. UploadInv /\ LedgerInv /\ [Next]_vars => LedgerInv'
  <2> SUFFICES ASSUME UploadInv, LedgerInv, [Next]_vars PROVE LedgerInv'
    OBVIOUS
  <2>1. CASE UNCHANGED vars
    BY <2>1, StillLedger DEF vars, dbVars
  <2>2. ASSUME NEW h \in Handlers, Request(h) \/ Advance(h) \/ PartLock(h) PROVE LedgerInv'
    BY <2>2, RequestLedger, LookLedger, TaskLedger, PartLedger, CompletionLedger DEF Advance
  <2>3. ASSUME NEW i \in Instances, NEW f \in Files, NEW p \in Numbers, Cleanup(i, f, p) PROVE LedgerInv'
    BY <2>3, StillLedger DEF Cleanup, dbVars
  <2> QED BY <2>1, <2>2, <2>3, EngineFaults DEF Next
<1>2. UploadInv /\ LedgerInv /\ LedgerInv' /\ [Next]_vars => [Ledger!Next]_<<States, Acks, Payments>>
  <2> SUFFICES ASSUME UploadInv, LedgerInv, LedgerInv', [Next]_vars
               PROVE  [Ledger!Next]_<<States, Acks, Payments>>
    OBVIOUS
  <2>1. CASE UNCHANGED <<tasks, files, quota, job>>
    <3>1. Payments' = Payments
      BY <2>1 DEF Payments, PaidFor, Pending, At, User
    <3> QED BY <2>1, <3>1, SameTasks
  <2>2. ASSUME NEW h \in Handlers, Request(h) \/ Advance(h) \/ PartLock(h)
        PROVE  [Ledger!Next]_<<States, Acks, Payments>>
    BY <2>2, StepsStutter, TaskMaps, DoneMaps DEF Advance
  <2> QED BY <2>1, <2>2, EngineFaults DEF Next, vars, dbVars, Cleanup
<1> QED BY <1>1, <1>2, LedgerInvInit, LedgerInit, UploadInvAlways, PTL
        DEF Spec, LedgerSpec, Ledger!Spec, States, Acks, Payments, StateOf, PaidFor

=============================================================================
