----------------------------- MODULE FileService ----------------------------
(***************************************************************************)
(* The chunked upload of storage/internal/service/file_service.go.  Each   *)
(* handler goroutine runs one call at a time, one step per access to MySQL *)
(* or the storage engine; a row is read into the handler, changed there    *)
(* and written back whole (GORM's Save).  partMu belongs to one storage    *)
(* process (instance).  A file is Total chunks of equal size, so sizes and *)
(* quotas are counted in chunks.                                           *)
(***************************************************************************)
EXTENDS StorageEngine, Integers

CONSTANTS
    Users,
    Quota,        \* users.quota at the start
    Handlers,     \* handler goroutines
    Engines,      \* the engines one of which is configured: "minio", "local"
    Placements,   \* possible assignments of handlers to storage processes
    Orderly,      \* TRUE if clients are orderly (see MayStart)
    FaultKinds,   \* failures allowed: "store" and "db" are answered with an
                  \* error, "copy" and "ignored" are not noticed; "crash"
    MaxFaults,    \* bound on the number of failures
    MaxCalls      \* bound on the number of calls

Instances == UNION {{p[h] : h \in Handlers} : p \in Placements}

ASSUME EnginesAssumption == Engines \subseteq {"minio", "local"}
ASSUME QuotaAssumption  == Quota \in Int
ASSUME UsersAssumption  == Users # {} /\ Files # {}
ASSUME BoundsAssumption == MaxFaults \in Nat /\ MaxCalls \in Nat
ASSUME HandlersAssumption == "free" \notin Handlers

VARIABLES
    tasks,       \* upload_tasks, one row per upload id
    files,       \* hashes with a row in files (unique index)
    quota,       \* users.quota
    orphan,      \* the row with an empty upload id: the chunk it records, if any
    mu,          \* partMu of each instance: the holder, or "free"
    job,         \* what each handler is at: step, arguments, copies of rows
    calls, faults,
    engine,      \* the configured storage engine
    instanceOf,  \* the storage process each handler runs in
    reported     \* history: parts answered 200

dbVars == <<tasks, files, quota, orphan>>
restVars == <<engine, instanceOf, reported>>
vars == <<engineVars, dbVars, mu, job, calls, faults, restVars>>

-----------------------------------------------------------------------------
(* Rows and steps *)

\* A row of upload_tasks: "none" if there is none, "deleted" if it is only
\* soft-deleted, which hides it from queries and not from the unique index.
Rows == [status : {"none", "deleted", "uploading", "completed"},
         owner : Users, done : Seq(Numbers)]
NoRow == [status |-> "none", owner |-> CHOOSE u \in Users : TRUE, done |-> <<>>]
Visible(t) == t.status \in {"uploading", "completed"}
Recorded(t) == {t.done[i] : i \in DOMAIN t.done}

Idle == [at |-> "idle", file |-> CHOOSE f \in Files : TRUE,
         user |-> CHOOSE u \in Users : TRUE, part |-> 1,
         row |-> NoRow, balance |-> 0, copied |-> 0]

At(h, s) == job[h].at = s
Goto(h, s) == job' = [job EXCEPT ![h].at = s]
Return(h) == job' = [job EXCEPT ![h] = Idle]
Fault(k) == k \in FaultKinds /\ faults < MaxFaults /\ faults' = faults + 1

File(h) == job[h].file
User(h) == job[h].user
Task(h) == tasks[File(h)]

\* What a step leaves alone unless it says otherwise.
Quiet == UNCHANGED <<calls, faults, restVars>>

PartSteps == {"part.get", "part.store", "part.lock", "part.fetch", "part.save"}
DoneSteps == {"done.get", "done.store", "done.copy", "done.user", "done.charge",
              "done.file", "done.save"}
Completing(g) == job[g].at \in DoneSteps

\* An orderly client has no other call on a file running while it completes
\* it, and no other completion on its account.
MayStart(f, u, s) ==
    Orderly =>
        /\ \A g \in Handlers : Completing(g) => File(g) # f
        /\ s = "done.get" =>
              \A g \in Handlers : /\ ~At(g, "idle") => File(g) # f
                                  /\ Completing(g) => User(g) # u

\* A request reaches handler h.
Begin(h, f, u, p, s) ==
    /\ At(h, "idle") /\ calls < MaxCalls /\ MayStart(f, u, s)
    /\ calls' = calls + 1
    /\ job' = [job EXCEPT ![h] = [Idle EXCEPT !.at = s, !.file = f, !.user = u, !.part = p]]
    /\ UNCHANGED <<engineVars, dbVars, mu, faults, restVars>>

InitUpload(h, f, u) == Begin(h, f, u, 1, "init.user")
UploadPart(h, f, p) == Begin(h, f, Idle.user, p, "part.get")
CompleteUpload(h, f, u) == Begin(h, f, u, 1, "done.get")

\* A read or write of MySQL fails where the code answers with an error.
QueryFails(h) ==
    /\ job[h].at \in {"init.user", "init.create", "part.get", "done.get", "done.file"}
    /\ Fault("db")
    /\ Return(h)
    /\ UNCHANGED <<engineVars, dbVars, mu, calls, restVars>>

-----------------------------------------------------------------------------
(* InitUpload *)

InitUser(h) ==
    /\ At(h, "init.user")
    /\ IF quota[User(h)] < Total THEN Return(h) ELSE Goto(h, "init.file")
    /\ Quiet /\ UNCHANGED <<engineVars, dbVars, mu>>

\* A file with this hash: instant upload.  An error counts as "no such file".
InitFile(h) ==
    /\ At(h, "init.file")
    /\ \/ File(h) \in files /\ Return(h) /\ UNCHANGED faults
       \/ File(h) \notin files /\ Goto(h, "init.task") /\ UNCHANGED faults
       \/ Fault("ignored") /\ Goto(h, "init.task")
    /\ UNCHANGED <<engineVars, dbVars, mu, calls, restVars>>

\* An unfinished task with this id: resume.  An error counts as "no such task".
InitTask(h) ==
    /\ At(h, "init.task")
    /\ \/ /\ Task(h).status = "uploading"
          /\ Return(h) /\ UNCHANGED faults
       \/ /\ Task(h).status # "uploading"
          /\ Goto(h, "init.create") /\ UNCHANGED faults
       \/ Fault("ignored") /\ Goto(h, "init.create")
    /\ UNCHANGED <<engineVars, dbVars, mu, calls, restVars>>

\* The unique index on the upload id refuses a second row.
InitCreate(h) ==
    /\ At(h, "init.create")
    /\ IF Task(h).status = "none"
       THEN /\ tasks' = [tasks EXCEPT ![File(h)] =
                           [status |-> "uploading", owner |-> User(h), done |-> <<>>]]
            /\ Goto(h, "init.store")
       ELSE Return(h) /\ UNCHANGED tasks
    /\ Quiet /\ UNCHANGED <<engineVars, files, quota, orphan, mu>>

\* store.InitUpload: MinIO has nothing to do, the local engine makes a directory.
InitStore(h) ==
    /\ At(h, "init.store")
    /\ \/ Return(h) /\ UNCHANGED faults
       \/ engine = "local" /\ Fault("store") /\ Goto(h, "init.delete")
    /\ UNCHANGED <<engineVars, dbVars, mu, calls, restVars>>

\* The task is soft-deleted; an error is ignored.
InitDelete(h) ==
    /\ At(h, "init.delete")
    /\ \/ /\ tasks' = [tasks EXCEPT ![File(h)].status = IF Visible(Task(h)) THEN "deleted" ELSE @]
          /\ UNCHANGED faults
       \/ Fault("ignored") /\ UNCHANGED tasks
    /\ Return(h)
    /\ UNCHANGED <<engineVars, files, quota, orphan, mu, calls, restVars>>

-----------------------------------------------------------------------------
(* UploadPart *)

PartGet(h) ==
    /\ At(h, "part.get")
    /\ IF Task(h).status = "uploading" THEN Goto(h, "part.store") ELSE Return(h)
    /\ Quiet /\ UNCHANGED <<engineVars, dbVars, mu>>

PartStore(h) ==
    /\ At(h, "part.store")
    /\ \/ StorePart(File(h), job[h].part) /\ Goto(h, "part.lock") /\ UNCHANGED faults
       \/ Fault("store") /\ Return(h) /\ UNCHANGED engineVars
    /\ UNCHANGED <<dbVars, mu, calls, restVars>>

\* Mutant: no mutex around fetch and save.
PartNoLock(h) ==
    /\ At(h, "part.lock")
    /\ Goto(h, "part.fetch")
    /\ Quiet /\ UNCHANGED <<engineVars, dbVars, mu>>

PartLock(h) ==
    /\ At(h, "part.lock") /\ mu[instanceOf[h]] = "free"
    /\ mu' = [mu EXCEPT ![instanceOf[h]] = h]
    /\ Goto(h, "part.fetch")
    /\ Quiet /\ UNCHANGED <<engineVars, dbVars>>

\* The row is read again; an error is ignored and leaves the zero row.
PartFetch(h) ==
    /\ At(h, "part.fetch")
    /\ \E t \in {Task(h), NoRow} :
          /\ job' = [job EXCEPT ![h].at = "part.save",
                                ![h].row = IF Visible(t) THEN t ELSE NoRow]
          /\ IF t = Task(h) THEN UNCHANGED faults ELSE Fault("ignored")
    /\ UNCHANGED <<engineVars, dbVars, mu, calls, restVars>>

\* Mutant: the mutex is not released.
UnlockNever(h) == UNCHANGED mu

\* The deferred unlock.
Unlock(h) == mu' = [mu EXCEPT ![instanceOf[h]] = IF @ = h THEN "free" ELSE @]

\* Mutant: the list holds zero-based indices.
WithPartZeroBased(t, p) ==
    [t EXCEPT !.done = IF p - 1 \in Recorded(t) THEN @ ELSE Append(@, p - 1)]

\* The row with chunk p recorded.
WithPart(t, p) == [t EXCEPT !.done = IF p \in Recorded(t) THEN @ ELSE Append(@, p)]

\* Save writes the whole row, its status included.
PartSave(h) ==
    /\ At(h, "part.save") /\ Visible(job[h].row)
    /\ tasks' = [tasks EXCEPT ![File(h)] = WithPart(job[h].row, job[h].part)]
    /\ reported' = reported \cup {<<File(h), job[h].part>>}
    /\ Unlock(h) /\ Return(h)
    /\ UNCHANGED <<engineVars, files, quota, orphan, calls, faults, engine, instanceOf>>

\* Having no primary key the zero row is inserted as a new one, once: its
\* upload id is the empty string, and the index is unique.
PartSaveZero(h) ==
    /\ At(h, "part.save") /\ ~Visible(job[h].row)
    /\ IF orphan = {}
       THEN /\ orphan' = {<<File(h), job[h].part>>}
            /\ reported' = reported \cup orphan'
       ELSE UNCHANGED <<orphan, reported>>
    /\ Unlock(h) /\ Return(h)
    /\ UNCHANGED <<engineVars, tasks, files, quota, calls, faults, engine, instanceOf>>

\* Mutant: an early return before the unlock, which is not deferred.
PartSaveFailsLocked(h) ==
    /\ At(h, "part.save") /\ Fault("db")
    /\ Return(h)
    /\ UNCHANGED <<engineVars, dbVars, mu, calls, restVars>>

\* The error is returned, and the unlock is deferred.
PartSaveFails(h) ==
    /\ At(h, "part.save") /\ Fault("db")
    /\ Unlock(h) /\ Return(h)
    /\ UNCHANGED <<engineVars, dbVars, calls, restVars>>

-----------------------------------------------------------------------------
(* CompleteUpload *)

DoneGet(h) ==
    /\ At(h, "done.get")
    /\ IF Task(h).status = "uploading" /\ Len(Task(h).done) = Total
       THEN job' = [job EXCEPT ![h].at = "done.store", ![h].row = Task(h)]
       ELSE Return(h)
    /\ Quiet /\ UNCHANGED <<engineVars, dbVars, mu>>

\* MinIO composes the parts in the order they were recorded, or answers an
\* error if one is missing.
DoneStore(h) ==
    /\ At(h, "done.store") /\ engine = "minio"
    /\ \/ /\ Compose(instanceOf[h], File(h), job[h].row.done)
          /\ Goto(h, "done.user") /\ UNCHANGED faults
       \/ ~Composable(File(h), job[h].row.done) /\ Return(h) /\ UNCHANGED <<engineVars, faults>>
       \/ Fault("store") /\ Return(h) /\ UNCHANGED engineVars
    /\ UNCHANGED <<dbVars, mu, calls, restVars>>

\* The local engine creates the merged file ...
DoneCreate(h) ==
    /\ At(h, "done.store") /\ engine = "local"
    /\ \/ Truncate(File(h)) /\ Goto(h, "done.copy") /\ UNCHANGED faults
       \/ Fault("store") /\ Return(h) /\ UNCHANGED engineVars
    /\ UNCHANGED <<dbVars, mu, calls, restVars>>

\* ... copies one part after the other, unless a part cannot be opened; that
\* a copy failed is not noticed ...
DoneCopy(h) ==
    /\ At(h, "done.copy") /\ job[h].copied < Len(job[h].row.done)
    /\ LET p == job[h].row.done[job[h].copied + 1] IN
       \/ /\ p \in parts[File(h)]
          /\ \/ AppendPart(File(h), p) /\ UNCHANGED faults
             \/ Fault("copy") /\ DropPart(File(h), p)
          /\ job' = [job EXCEPT ![h].copied = @ + 1]
       \/ p \notin parts[File(h)] /\ Return(h) /\ UNCHANGED <<engineVars, faults>>
       \/ Fault("store") /\ Return(h) /\ UNCHANGED engineVars
    /\ UNCHANGED <<dbVars, mu, calls, restVars>>

\* ... and removes the directory of the parts.
DoneRemove(h) ==
    /\ At(h, "done.copy") /\ job[h].copied = Len(job[h].row.done)
    /\ RemoveAll(File(h)) /\ Goto(h, "done.user")
    /\ Quiet /\ UNCHANGED <<dbVars, mu>>

\* Read the caller's quota; on an error the deduction is skipped.
DoneUser(h) ==
    /\ At(h, "done.user")
    /\ \/ /\ job' = [job EXCEPT ![h].at = "done.charge", ![h].balance = quota[User(h)]]
          /\ UNCHANGED faults
       \/ Fault("ignored") /\ Goto(h, "done.file")
    /\ UNCHANGED <<engineVars, dbVars, mu, calls, restVars>>

\* Mutant: the deduction is forgotten.
DoneNoCharge(h) ==
    /\ At(h, "done.charge")
    /\ Goto(h, "done.file")
    /\ Quiet /\ UNCHANGED <<engineVars, dbVars, mu>>

\* Save the user with the reduced quota; an error is ignored.
DoneCharge(h) ==
    /\ At(h, "done.charge")
    /\ \/ quota' = [quota EXCEPT ![User(h)] = job[h].balance - Total] /\ UNCHANGED faults
       \/ Fault("ignored") /\ UNCHANGED quota
    /\ Goto(h, "done.file")
    /\ UNCHANGED <<engineVars, tasks, files, orphan, mu, calls, restVars>>

\* The unique index on the hash refuses a second row.
DoneFile(h) ==
    /\ At(h, "done.file")
    /\ IF File(h) \in files
       THEN Return(h) /\ UNCHANGED files
       ELSE files' = files \cup {File(h)} /\ Goto(h, "done.save")
    /\ Quiet /\ UNCHANGED <<engineVars, tasks, quota, orphan, mu>>

\* Save the row as it was read at the beginning, with status 1; an error is
\* ignored.
DoneSave(h) ==
    /\ At(h, "done.save")
    /\ \/ /\ tasks' = [tasks EXCEPT ![File(h)] = [job[h].row EXCEPT !.status = "completed"]]
          /\ UNCHANGED faults
       \/ Fault("ignored") /\ UNCHANGED tasks
    /\ Return(h)
    /\ UNCHANGED <<engineVars, files, quota, orphan, mu, calls, restVars>>

-----------------------------------------------------------------------------
\* A storage process dies, and its handlers, its mutex and its clean-ups with it.
Crash(i) ==
    /\ Fault("crash")
    /\ job' = [h \in Handlers |-> IF instanceOf[h] = i THEN Idle ELSE job[h]]
    /\ mu' = [mu EXCEPT ![i] = "free"]
    /\ cleanup' = {c \in cleanup : c[1] # i}
    /\ UNCHANGED <<parts, merged, dbVars, calls, restVars>>

Request(h) ==
    \E f \in Files :
        \/ \E u \in Users : InitUpload(h, f, u)
        \/ \E p \in Numbers : UploadPart(h, f, p)
        \/ \E u \in Users : CompleteUpload(h, f, u)

\* The next step of the call h is running, but for taking the mutex.
Advance(h) ==
    \/ InitUser(h)
    \/ InitFile(h)
    \/ InitTask(h)
    \/ InitCreate(h)
    \/ InitStore(h)
    \/ InitDelete(h)
    \/ PartGet(h)
    \/ PartStore(h)
    \/ PartFetch(h)
    \/ PartSave(h)
    \/ PartSaveZero(h)
    \/ DoneGet(h)
    \/ DoneStore(h)
    \/ DoneCreate(h)
    \/ DoneCopy(h)
    \/ DoneRemove(h)
    \/ DoneUser(h)
    \/ DoneCharge(h)
    \/ DoneFile(h)
    \/ DoneSave(h)

\* A clean-up goroutine removes a part, or is told that it could not.
Cleanup(i, f, p) ==
    /\ \/ RemovePart(i, f, p) /\ UNCHANGED faults
       \/ RemovePartFails(i, f, p) /\ Fault("store")
    /\ UNCHANGED <<dbVars, mu, job, calls, restVars>>

Init ==
    /\ EngineInit
    /\ tasks = [f \in Files |-> NoRow]
    /\ files = {}
    /\ quota = [u \in Users |-> Quota]
    /\ orphan = {}
    /\ mu = [i \in Instances |-> "free"]
    /\ job = [h \in Handlers |-> Idle]
    /\ calls = 0
    /\ faults = 0
    /\ engine \in Engines
    /\ instanceOf \in Placements
    /\ reported = {}

Next ==
    \/ \E h \in Handlers :
          \/ Request(h)
          \/ Advance(h)
          \/ PartLock(h)
          \/ QueryFails(h)
          \/ PartSaveFails(h)
    \/ \E i \in Instances : Crash(i)
    \/ \E i \in Instances, f \in Files, p \in Numbers : Cleanup(i, f, p)

Spec == Init /\ [][Next]_vars

\* Handlers and clean-ups run on, MySQL and the storage engine answer in the
\* end, and sync.Mutex lets every waiting goroutine have its turn.
Fairness ==
    /\ \A h \in Handlers : WF_vars(Advance(h)) /\ SF_vars(PartLock(h))
    /\ \A i \in Instances, f \in Files, p \in Numbers : WF_vars(Cleanup(i, f, p))
FairSpec == Spec /\ Fairness

=============================================================================
