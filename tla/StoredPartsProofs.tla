-------------------------- MODULE StoredPartsProofs -------------------------
(***************************************************************************)
(* RecordedIsStored, for any clients, handlers and processes: what breaks  *)
(* it with MinIO is a completion that ends between composing the parts and *)
(* inserting the file, by a crash or because MySQL refuses the row.        *)
(***************************************************************************)
EXTENDS UploadProofs

-----------------------------------------------------------------------------
(* The inductive invariant. *)

\* A completion past composing, its file row still to come.
Payers == {"done.user", "done.charge", "done.file"}
Settled(f) == f \in files \/ \E h \in Handlers : job[h].at \in Payers /\ job[h].file = f

\* An upload past storing its part, the task row still to be saved.
Holders == {"part.lock", "part.fetch", "part.save"}

StoredInv ==
    /\ \A i \in Instances, f \in Files, p \in Numbers : <<i, f, p>> \in cleanup => Settled(f)
    /\ \A h \in Handlers, f \in Files :
          /\ job[h].at \in Holders /\ job[h].file = f => Settled(f) \/ job[h].part \in parts[f]
          /\ job[h].at = "part.save" /\ Visible(job[h].row) /\ job[h].file = f
                => Settled(f) \/ Recorded(job[h].row) \subseteq parts[f]
    /\ \A f \in Files : Settled(f) \/ Recorded(tasks[f]) \subseteq parts[f]
    /\ \A h \in Handlers : job[h].at = "done.save" => job[h].file \in files

\* What a step of handler h has to do with its own part of the invariant.
LEMMA StoredFrame ==
    ASSUME UploadInv, UploadInv', StoredInv, NEW h \in Handlers,
           \A g \in Handlers : g # h => job'[g] = job[g],
           \A f \in Files : parts[f] \subseteq parts'[f], files \subseteq files',
           job[h].at \in Payers =>
              job[h].file \in files' \/ (job'[h].at \in Payers /\ job'[h].file = job[h].file),
           \A i \in Instances, f \in Files, p \in Numbers : <<i, f, p>> \in cleanup' =>
              <<i, f, p>> \in cleanup \/ (job'[h].at \in Payers /\ job'[h].file = f),
           \A f \in Files : \/ Recorded(tasks'[f]) \subseteq Recorded(tasks[f])
                            \/ f \in files'
                            \/ Settled(f)
                            \/ Recorded(tasks'[f]) \subseteq parts'[f],
           job'[h].at \in Holders =>
              \/ job'[h].part \in parts'[job'[h].file]
              \/ job[h].at \in Holders /\ job'[h].part = job[h].part /\ job'[h].file = job[h].file,
           job'[h].at = "part.save" /\ Visible(job'[h].row) =>
              Recorded(job'[h].row) \subseteq Recorded(tasks[job'[h].file]),
           job'[h].at = "done.save" => job'[h].file \in files'
    PROVE  StoredInv'
<1>1. \A g \in Handlers : job[g].file \in Files /\ job'[g].file \in Files /\ job'[g].part \in Numbers
  BY DEF UploadInv, TypeOK
<1>2. ASSUME NEW f \in Files, Settled(f) PROVE Settled(f)'
  BY <1>2 DEF Settled
<1>3. \A i \in Instances, f \in Files, p \in Numbers : <<i, f, p>> \in cleanup' => Settled(f)'
  BY <1>2 DEF StoredInv, Settled
<1>4. ASSUME NEW g \in Handlers, NEW f \in Files, job'[g].at \in Holders, job'[g].file = f
      PROVE  Settled(f)' \/ job'[g].part \in parts'[f]
  <2>1. \/ job'[g].part \in parts'[f]
        \/ job[g].at \in Holders /\ job'[g].part = job[g].part /\ job[g].file = f
    BY <1>4
  <2>2. CASE job[g].at \in Holders /\ job'[g].part = job[g].part /\ job[g].file = f
    <3>1. Settled(f) \/ job[g].part \in parts[f]
      BY <2>2 DEF StoredInv
    <3> QED BY <1>2, <2>2, <3>1
  <2> QED BY <2>1, <2>2
<1>5. \A f \in Files : Settled(f)' \/ Recorded(tasks'[f]) \subseteq parts'[f]
  <2> SUFFICES ASSUME NEW f \in Files, ~Settled(f)' PROVE Recorded(tasks'[f]) \subseteq parts'[f]
    OBVIOUS
  <2>1. ~Settled(f) /\ f \notin files'
    BY <1>2 DEF Settled
  <2>2. Recorded(tasks[f]) \subseteq parts[f] /\ parts[f] \subseteq parts'[f]
    BY <2>1 DEF StoredInv
  <2> QED BY <2>1, <2>2
<1>6. ASSUME NEW g \in Handlers, NEW f \in Files,
             job'[g].at = "part.save", Visible(job'[g].row), job'[g].file = f
      PROVE  Settled(f)' \/ Recorded(job'[g].row) \subseteq parts'[f]
  <2>1. parts[f] \subseteq parts'[f]
    OBVIOUS
  <2>2. CASE g = h
    <3>1. Recorded(job'[g].row) \subseteq Recorded(tasks[f])
      BY <1>6, <2>2
    <3>2. Settled(f) \/ Recorded(tasks[f]) \subseteq parts[f]
      BY DEF StoredInv
    <3> QED BY <1>2, <2>1, <3>1, <3>2
  <2>3. CASE g # h
    <3>1. job'[g] = job[g]
      BY <2>3
    <3>2. Settled(f) \/ Recorded(job[g].row) \subseteq parts[f]
      BY <1>6, <3>1 DEF StoredInv
    <3> QED BY <1>2, <2>1, <3>1, <3>2
  <2> QED BY <2>2, <2>3
<1>7. \A g \in Handlers : job'[g].at = "done.save" => job'[g].file \in files'
  BY DEF StoredInv
<1> QED BY <1>3, <1>4, <1>5, <1>6, <1>7 DEF StoredInv
-----------------------------------------------------------------------------
(* The steps of a handler. *)

\* A step that only moves h to a step outside the uploads past storing and the
\* completions past composing.
LEMMA StoredPlain ==
    ASSUME UploadInv, UploadInv', StoredInv, NEW h \in Handlers,
           UNCHANGED <<parts, cleanup, tasks, files>>,
           \A g \in Handlers : g # h => job'[g] = job[g],
           job[h].at \in Payers => job[h].file \in files,
           job'[h].at \notin Payers \cup Holders \cup {"done.save"}
    PROVE  StoredInv'
BY StoredFrame DEF Holders

\* h goes on to step s of the same call.
LEMMA GotoCall ==
    ASSUME TypeOK, NEW h \in Handlers, NEW s \in Steps, Goto(h, s)
    PROVE  /\ job'[h].at = s /\ job'[h].file = job[h].file /\ job'[h].row = job[h].row
           /\ job'[h].part = job[h].part
           /\ \A g \in Handlers : g # h => job'[g] = job[g]
<1>1. job' = [job EXCEPT ![h].at = s] /\ job[h] \in Jobs /\ job \in [Handlers -> Jobs]
  BY JobAt DEF Goto
<1> QED BY <1>1 DEF Jobs

\* Recording a chunk records no other.
LEMMA WithPartOnly ==
    ASSUME NEW t \in Rows, NEW p \in Numbers
    PROVE  Recorded(WithPart(t, p)) \subseteq Recorded(t) \cup {p}
<1>1. t.done \in Seq(Numbers)
  BY RowAt
<1>2. CASE p \in Recorded(t)
  BY <1>2 DEF WithPart, Rows, Recorded
<1>3. CASE p \notin Recorded(t)
  <2> DEFINE d == Append(t.done, p)
  <2>1. /\ DOMAIN d = 1 .. (Len(t.done) + 1) /\ DOMAIN t.done = 1 .. Len(t.done) /\ Len(t.done) \in Nat
        /\ \A i \in DOMAIN t.done : d[i] = t.done[i]
        /\ d[Len(t.done) + 1] = p
    BY <1>1, AppendProperties
  <2>2. WithPart(t, p).done = d
    BY <1>3 DEF WithPart, Rows
  <2> HIDE DEF d
  <2>3. \A i \in DOMAIN d : i \in DOMAIN t.done \/ d[i] = p
    BY <2>1
  <2>4. \A i \in DOMAIN d : d[i] \in Recorded(t) \cup {p}
    BY <2>1, <2>3 DEF Recorded
  <2> QED BY <2>2, <2>4 DEF Recorded
<1> QED BY <1>2, <1>3

\* Steps that look something up, and requests.
LEMMA LooksStore ==
    ASSUME UploadInv, UploadInv', StoredInv, NEW h \in Handlers,
           Request(h) \/ InitUser(h) \/ InitFile(h) \/ InitTask(h) \/ InitStore(h)
           \/ PartGet(h) \/ DoneGet(h)
    PROVE  StoredInv'
<1> USE DEF Payers, Holders, Steps, PartSteps, DoneSteps
<1>0. TypeOK /\ job \in [Handlers -> Jobs]
  BY JobAt DEF UploadInv
<1>1. CASE Request(h)
  <2>1. PICK f \in Files, u \in Users, p \in Numbers, s \in {"init.user", "part.get", "done.get"} :
          Begin(h, f, u, p, s)
    BY <1>1, ChunksType, IdleType DEF Request, InitUpload, UploadPart, CompleteUpload
  <2> DEFINE j == [Idle EXCEPT !.at = s, !.file = f, !.user = u, !.part = p]
  <2>2. j \in Jobs /\ j.at = s
    BY IdleType DEF Jobs
  <2>3. job' = [job EXCEPT ![h] = j] /\ UNCHANGED <<parts, cleanup, tasks, files>> /\ job[h].at = "idle"
    BY <2>1 DEF Begin, engineVars, dbVars, At
  <2> HIDE DEF j
  <2>4. job'[h].at = s /\ \A g \in Handlers : g # h => job'[g] = job[g]
    BY <1>0, <2>2, <2>3
  <2> QED BY <2>3, <2>4, StoredPlain
<1>2. CASE InitUser(h) \/ InitFile(h) \/ InitTask(h) \/ InitStore(h) \/ PartGet(h)
  <2>1. Return(h) \/ \E s \in {"init.file", "init.task", "init.create", "init.delete", "part.store"} : Goto(h, s)
    BY <1>2 DEF InitUser, InitFile, InitTask, InitStore, PartGet
  <2>2. UNCHANGED <<parts, cleanup, tasks, files>> /\ job[h].at \notin Payers
    BY <1>2 DEF InitUser, InitFile, InitTask, InitStore, PartGet, engineVars, dbVars, At
  <2>3. /\ job'[h].at \in {"idle", "init.file", "init.task", "init.create", "init.delete", "part.store"}
        /\ \A g \in Handlers : g # h => job'[g] = job[g]
    BY <1>0, <2>1, GotoCall, ReturnJob
  <2> QED BY <2>2, <2>3, StoredPlain
<1>3. CASE DoneGet(h)
  <2>1. UNCHANGED <<parts, cleanup, tasks, files>> /\ job[h].at = "done.get"
    BY <1>3 DEF DoneGet, engineVars, dbVars, At
  <2>2. job'[h].at \in {"idle", "done.store"} /\ \A g \in Handlers : g # h => job'[g] = job[g]
    <3>1. CASE Return(h)
      BY <1>0, <3>1, ReturnJob
    <3>2. CASE job' = [job EXCEPT ![h].at = "done.store", ![h].row = Task(h)]
      BY <1>0, <3>2 DEF Jobs
    <3> QED BY <1>3, <3>1, <3>2 DEF DoneGet
  <2> QED BY <2>1, <2>2, StoredPlain
<1> QED BY <1>1, <1>2, <1>3

\* UploadPart: the part is there before the row that lists it is saved.
LEMMA PartsStore ==
    ASSUME UploadInv, UploadInv', StoredInv, NEW h \in Handlers,
           PartStore(h) \/ PartLock(h) \/ PartFetch(h) \/ PartSave(h) \/ PartSaveZero(h)
    PROVE  StoredInv'
<1> USE DEF Payers, Holders, Steps, PartSteps, DoneSteps
<1>0. /\ TypeOK /\ job \in [Handlers -> Jobs] /\ tasks \in [Files -> Rows]
      /\ parts \in [Files -> SUBSET Numbers]
      /\ job[h].file \in Files /\ job[h].part \in Numbers /\ job[h].row \in Rows
  BY JobAt DEF UploadInv, TypeOK, EngineTypeOK
<1>1. CASE PartStore(h)
  <2>1. UNCHANGED <<cleanup, tasks, files>> /\ job[h].at = "part.store"
    BY <1>1 DEF PartStore, StorePart, engineVars, dbVars, At
  <2>2. CASE StorePart(File(h), job[h].part) /\ Goto(h, "part.lock")
    <3>1. /\ job'[h].at = "part.lock" /\ job'[h].file = job[h].file /\ job'[h].part = job[h].part
          /\ \A g \in Handlers : g # h => job'[g] = job[g]
      BY <1>0, <2>2, GotoCall
    <3>2. /\ parts' = [parts EXCEPT ![job[h].file] = @ \cup {job[h].part}]
      BY <2>2 DEF StorePart, File
    <3>3. /\ \A f \in Files : parts[f] \subseteq parts'[f]
          /\ job'[h].part \in parts'[job'[h].file]
      BY <1>0, <3>1, <3>2
    <3> QED BY <2>1, <3>1, <3>3, StoredFrame
  <2>3. CASE Return(h) /\ UNCHANGED engineVars
    BY <1>0, <2>1, <2>3, ReturnJob, StoredPlain DEF engineVars
  <2> QED BY <1>1, <2>2, <2>3 DEF PartStore
<1>2. CASE PartLock(h)
  <2>1. UNCHANGED <<parts, cleanup, tasks, files>> /\ job[h].at = "part.lock"
    BY <1>2 DEF PartLock, engineVars, dbVars, At
  <2>2. /\ job'[h].at = "part.fetch" /\ job'[h].file = job[h].file /\ job'[h].part = job[h].part
        /\ \A g \in Handlers : g # h => job'[g] = job[g]
    BY <1>0, <1>2, GotoCall DEF PartLock
  <2> QED BY <2>1, <2>2, StoredFrame
<1>3. CASE PartFetch(h)
  <2>1. UNCHANGED <<parts, cleanup, tasks, files>> /\ job[h].at = "part.fetch"
    BY <1>3 DEF PartFetch, engineVars, dbVars, At
  <2>2. PICK t \in {Task(h), NoRow} :
          job' = [job EXCEPT ![h].at = "part.save", ![h].row = IF Visible(t) THEN t ELSE NoRow]
    BY <1>3 DEF PartFetch
  <2> DEFINE x == IF Visible(t) THEN t ELSE NoRow
  <2>3. Recorded(x) \subseteq Recorded(tasks[job[h].file])
    BY NoRowType DEF Recorded, Task, File
  <2>4. job' = [job EXCEPT ![h].at = "part.save", ![h].row = x]
    BY <2>2
  <2> HIDE DEF x
  <2>5. /\ job'[h].at = "part.save" /\ job'[h].file = job[h].file /\ job'[h].part = job[h].part
        /\ job'[h].row = x /\ \A g \in Handlers : g # h => job'[g] = job[g]
    BY <1>0, <2>4 DEF Jobs
  <2> QED BY <2>1, <2>3, <2>5, StoredFrame
<1>4. CASE PartSave(h)
  <2> DEFINE f == job[h].file
             t == WithPart(job[h].row, job[h].part)
  <2>1. UNCHANGED <<parts, cleanup, files>> /\ job[h].at = "part.save" /\ Visible(job[h].row)
        /\ tasks' = [tasks EXCEPT ![f] = t]
    BY <1>4 DEF PartSave, engineVars, At, File
  <2>2. job'[h].at = "idle" /\ \A g \in Handlers : g # h => job'[g] = job[g]
    BY <1>0, <1>4, ReturnJob DEF PartSave
  <2>3. Settled(f) \/ Recorded(t) \subseteq parts[f]
    BY <1>0, <2>1, WithPartOnly DEF StoredInv
  <2>4. tasks'[f] = t /\ \A g \in Files : g # f => tasks'[g] = tasks[g]
    BY <1>0, <2>1
  <2> HIDE DEF f, t
  <2>5. \A g \in Files : \/ Recorded(tasks'[g]) \subseteq Recorded(tasks[g])
                         \/ Settled(g) \/ Recorded(tasks'[g]) \subseteq parts'[g]
    BY <2>1, <2>3, <2>4
  <2>6. job[h].at \notin Payers /\ job'[h].at \notin Payers \cup Holders \cup {"done.save"}
    BY <2>1, <2>2
  <2> QED BY <2>1, <2>2, <2>5, <2>6, StoredFrame
<1>5. CASE PartSaveZero(h)
  <2>1. UNCHANGED <<parts, cleanup, tasks, files>> /\ job[h].at = "part.save" /\ Return(h)
    BY <1>5 DEF PartSaveZero, engineVars, At
  <2> QED BY <1>0, <2>1, ReturnJob, StoredPlain
<1> QED BY <1>1, <1>2, <1>3, <1>4, <1>5

\* CompleteUpload: once the parts are composed the file row is inserted.
LEMMA DoneStores ==
    ASSUME UploadInv, UploadInv', StoredInv, engine = "minio", NEW h \in Handlers,
           InitCreate(h) \/ InitDelete(h) \/ DoneStore(h) \/ DoneCreate(h) \/ DoneCopy(h)
           \/ DoneRemove(h) \/ DoneUser(h) \/ DoneCharge(h) \/ DoneFile(h) \/ DoneSave(h)
    PROVE  StoredInv'
<1> USE DEF Payers, Holders, Steps, PartSteps, DoneSteps
<1>0. /\ TypeOK /\ job \in [Handlers -> Jobs] /\ tasks \in [Files -> Rows] /\ job[h].file \in Files
  BY JobAt DEF UploadInv, TypeOK
<1>1. CASE InitCreate(h)
  <2>1. UNCHANGED <<parts, cleanup, files>> /\ job[h].at = "init.create"
    BY <1>1 DEF InitCreate, engineVars, At
  <2>2. \A f \in Files : tasks'[f] = tasks[f] \/ Recorded(tasks'[f]) = {}
    BY <1>0, <1>1 DEF InitCreate, Recorded, File
  <2>3. job'[h].at \in {"idle", "init.store"} /\ \A g \in Handlers : g # h => job'[g] = job[g]
    BY <1>0, <1>1, GotoCall, ReturnJob DEF InitCreate
  <2> QED BY <2>1, <2>2, <2>3, StoredFrame
<1>2. ~InitDelete(h) /\ ~DoneCreate(h) /\ ~DoneCopy(h) /\ ~DoneRemove(h)
  BY DEF InitDelete, DoneCreate, DoneCopy, DoneRemove, At, UploadInv, LocalOnly, LocalSteps
<1>3. CASE DoneStore(h)
  <2>1. UNCHANGED <<parts, tasks, files>> /\ job[h].at = "done.store"
    BY <1>3 DEF DoneStore, Compose, engineVars, dbVars, At
  <2>2. CASE Compose(instanceOf[h], File(h), job[h].row.done) /\ Goto(h, "done.user")
    <3>1. /\ job'[h].at = "done.user" /\ job'[h].file = job[h].file
          /\ \A g \in Handlers : g # h => job'[g] = job[g]
      BY <1>0, <2>2, GotoCall
    <3>2. \A i \in Instances, f \in Files, p \in Numbers :
            <<i, f, p>> \in cleanup' => <<i, f, p>> \in cleanup \/ f = job[h].file
      BY <2>2 DEF Compose, File
    <3> QED BY <2>1, <3>1, <3>2, StoredFrame
  <2>3. CASE Return(h) /\ UNCHANGED engineVars
    BY <1>0, <2>1, <2>3, ReturnJob, StoredPlain DEF engineVars
  <2> QED BY <1>3, <2>2, <2>3 DEF DoneStore
<1>4. CASE DoneUser(h) \/ DoneCharge(h)
  <2>1. UNCHANGED <<parts, cleanup, tasks, files>> /\ job[h].at \in Payers
    BY <1>4 DEF DoneUser, DoneCharge, engineVars, dbVars, At
  <2>2. /\ job'[h].at \in {"done.charge", "done.file"} /\ job'[h].file = job[h].file
        /\ \A g \in Handlers : g # h => job'[g] = job[g]
    <3>1. CASE job' = [job EXCEPT ![h].at = "done.charge", ![h].balance = quota[User(h)]]
      BY <1>0, <3>1 DEF Jobs
    <3>2. CASE Goto(h, "done.file")
      BY <1>0, <3>2, GotoCall
    <3> QED BY <1>4, <3>1, <3>2 DEF DoneUser, DoneCharge
  <2> QED BY <2>1, <2>2, StoredFrame
<1>5. CASE DoneFile(h)
  <2>1. UNCHANGED <<parts, cleanup, tasks>> /\ job[h].at = "done.file"
    BY <1>5 DEF DoneFile, engineVars, At
  <2>2. CASE File(h) \in files /\ Return(h) /\ UNCHANGED files
    BY <1>0, <2>1, <2>2, ReturnJob, StoredPlain DEF File
  <2>3. CASE files' = files \cup {File(h)} /\ Goto(h, "done.save")
    <3>1. /\ job'[h].at = "done.save" /\ job'[h].file = job[h].file
          /\ \A g \in Handlers : g # h => job'[g] = job[g]
      BY <1>0, <2>3, GotoCall
    <3> QED BY <2>1, <2>3, <3>1, StoredFrame DEF File
  <2> QED BY <1>5, <2>2, <2>3 DEF DoneFile
<1>6. CASE DoneSave(h)
  <2>1. UNCHANGED <<parts, cleanup, files>> /\ job[h].at = "done.save" /\ job[h].file \in files
    BY <1>6 DEF DoneSave, engineVars, At, StoredInv
  <2>2. \A f \in Files : tasks'[f] = tasks[f] \/ f = job[h].file
    BY <1>0, <1>6 DEF DoneSave, File
  <2>3. job'[h].at = "idle" /\ \A g \in Handlers : g # h => job'[g] = job[g]
    BY <1>0, <1>6, ReturnJob DEF DoneSave
  <2> QED BY <2>1, <2>2, <2>3, StoredFrame
<1> QED BY <1>1, <1>2, <1>3, <1>4, <1>5, <1>6

\* A clean-up removes a part of a file that is settled.
LEMMA CleanupStores ==
    ASSUME UploadInv, UploadInv', StoredInv, NEW i \in Instances, NEW f \in Files, NEW p \in Numbers,
           Cleanup(i, f, p)
    PROVE  StoredInv'
<1>1. UNCHANGED <<files, tasks, job>> /\ <<i, f, p>> \in cleanup /\ cleanup' \subseteq cleanup
  BY DEF Cleanup, RemovePart, RemovePartFails, dbVars
<1>2. \A g \in Files : g # f => parts'[g] = parts[g]
  BY DEF Cleanup, RemovePart, RemovePartFails, UploadInv, TypeOK, EngineTypeOK
<1>3. Settled(f)' /\ \A g : Settled(g) => Settled(g)'
  BY <1>1 DEF StoredInv, Settled
<1> QED BY <1>1, <1>2, <1>3 DEF StoredInv

-----------------------------------------------------------------------------
\* With MinIO, chunks the task lists have their parts, so that the upload can
\* be resumed and completed, as long as no process crashes and no statement of
\* a completion fails: a failing storage engine and ignored errors do no harm,
\* and neither do disorderly clients, chunk numbers above Total or several
\* processes.
THEOREM StoredAlways ==
    ASSUME "db" \notin FaultKinds, "crash" \notin FaultKinds
    PROVE  Spec => []RecordedIsStored
<1> DEFINE Inv == engine = "minio" => StoredInv
<1>1. Init => Inv
  <2> SUFFICES ASSUME Init PROVE StoredInv
    OBVIOUS
  <2>1. \A h \in Handlers : job[h].at = "idle"
    BY IdleType DEF Init
  <2>2. \A f \in Files : Recorded(tasks[f]) = {}
    BY NoRowType DEF Init, Recorded
  <2>3. cleanup = {}
    BY DEF Init, EngineInit
  <2> QED BY <2>1, <2>2, <2>3 DEF StoredInv, Holders
<1>2. UploadInv /\ UploadInv' /\ Inv /\ [Next]_vars => Inv'
  <2> SUFFICES ASSUME UploadInv, UploadInv', Inv, [Next]_vars, engine' = "minio" PROVE StoredInv'
    OBVIOUS
  <2>1. CASE UNCHANGED vars
    <3>1. UNCHANGED <<engine, parts, cleanup, tasks, files, job>>
      BY <2>1 DEF vars, engineVars, dbVars, restVars
    <3> QED BY <3>1 DEF StoredInv, Settled
  <2>2. ASSUME NEW h \in Handlers, Request(h) \/ Advance(h) \/ PartLock(h) PROVE StoredInv'
    <3>1. engine' = engine
      BY <2>2 DEF Request, InitUpload, UploadPart, CompleteUpload, Begin, Advance, PartLock, Quiet, restVars,
          InitUser, InitFile, InitTask, InitCreate, InitStore, InitDelete, PartGet, PartStore, PartFetch,
          PartSave, PartSaveZero, DoneGet, DoneStore, DoneCreate, DoneCopy, DoneRemove, DoneUser,
          DoneCharge, DoneFile, DoneSave
    <3> QED BY <2>2, <3>1, LooksStore, PartsStore, DoneStores DEF Advance
  <2>3. \A h \in Handlers : ~QueryFails(h) /\ ~PartSaveFails(h)
    BY DEF QueryFails, PartSaveFails, Fault
  <2>4. \A i \in Instances : ~Crash(i)
    BY DEF Crash, Fault
  <2>5. ASSUME NEW i \in Instances, NEW f \in Files, NEW p \in Numbers, Cleanup(i, f, p) PROVE StoredInv'
    <3>1. engine' = engine
      BY <2>5 DEF Cleanup, restVars
    <3> QED BY <2>5, <3>1, CleanupStores
  <2> QED BY <2>1, <2>2, <2>3, <2>4, <2>5 DEF Next
<1>3. Inv => RecordedIsStored
  BY DEF StoredInv, Settled, Payers, RecordedIsStored, Completing, DoneSteps, File
<1> HIDE DEF Inv
<1> QED BY <1>1, <1>2, <1>3, UploadInvAlways, UploadInvStep, PTL DEF Spec

=============================================================================
