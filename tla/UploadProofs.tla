---------------------------- MODULE UploadProofs ----------------------------
(***************************************************************************)
(* Theorems about FileService, for all handlers, processes, files and      *)
(* numbers of chunks, calls and failures.                                  *)
(***************************************************************************)
EXTENDS UploadProperties, SequenceTheorems, FiniteSetTheorems, TLAPS

Steps == {"idle", "init.user", "init.file", "init.task", "init.create",
          "init.store", "init.delete"} \cup PartSteps \cup DoneSteps
Jobs == [at : Steps, file : Files, user : Users, part : Numbers,
         row : Rows, balance : Int, copied : Nat]

-----------------------------------------------------------------------------
(* The inductive invariant. *)

\* The steps of a completion that has read a list of Total numbers, and of one
\* that has composed the parts.
FullSteps == DoneSteps \ {"done.get"}
MergedSteps == {"done.user", "done.charge", "done.file", "done.save"}

Once(s) == \A i, j \in DOMAIN s : s[i] = s[j] => i = j
Whole(f) == Len(merged[f]) = Total /\ Once(merged[f])

\* List t begins with list s.
Begins(s, t) == Len(s) <= Len(t) /\ \A i \in DOMAIN s : s[i] = t[i]

\* No list of chunks repeats one.
NoRepeats ==
    /\ \A f \in Files : Once(tasks[f].done)
    /\ \A h \in Handlers : Once(job[h].row.done)

\* A completion goes on with a row that lists Total numbers.
FullRows == \A h \in Handlers : job[h].at \in FullSteps => Len(job[h].row.done) = Total

MergedWhole ==
    /\ \A f \in files : Whole(f)
    /\ \A h \in Handlers : job[h].at \in MergedSteps => Whole(File(h))

\* Between fetch and save a handler holds partMu of its process.
PartMutex ==
    \A h \in Handlers : job[h].at \in {"part.fetch", "part.save"} => mu[instanceOf[h]] = h

\* The local engine alone can refuse an upload, and copies part by part.
LocalSteps == {"init.delete", "done.copy"}
LocalOnly == \A h \in Handlers : job[h].at \in LocalSteps => engine = "local"

Alone == engine = "minio" /\ OneProcess

\* The row an upload is about to save begins with the recorded list, and the
\* recorded list with that of any completion on its way: it only grows, but for
\* being cut back to its first Total numbers.
FreshRows ==
    \A h \in Handlers :
        /\ At(h, "part.save") /\ Visible(job[h].row)
              => Begins(Task(h).done, job[h].row.done) /\ Task(h).status # "none"
        /\ job[h].at \in FullSteps
              => Begins(job[h].row.done, Task(h).done) /\ Task(h).status # "none"

\* Chunk p is in row t, or t can be completed without all chunks.
Accounts(t, p) == p \in Recorded(t) \/ StrayCounted(t)

Accounted ==
    \A f \in Files, p \in Chunks : <<f, p>> \in reported =>
        <<f, p>> \in orphan \/ (Visible(tasks[f]) /\ Accounts(tasks[f], p))

UploadInv ==
    /\ TypeOK
    /\ NoRepeats
    /\ FullRows
    /\ engine = "minio" => MergedWhole
    /\ PartMutex
    /\ LocalOnly
    /\ Alone => FreshRows /\ Accounted

-----------------------------------------------------------------------------
(* Rows and lists of chunks. *)

LEMMA ChunksType ==
    /\ Total \in Nat /\ Total > 0 /\ 1 \in Chunks /\ 1 \in Numbers /\ Chunks \subseteq Numbers
    /\ IsFiniteSet(Chunks) /\ Cardinality(Chunks) = Total
<1>1. Total \in Nat /\ Total > 0
  BY TotalAssumption
<1>2. IsFiniteSet(1 .. Total) /\ Cardinality(1 .. Total) = Total
  BY <1>1, FS_Interval
<1> QED BY <1>1, <1>2, NumbersAssumption DEF Chunks

\* A list of Total chunks of the file that repeats none lists them all.
LEMMA Pigeonhole ==
    ASSUME NEW s \in Seq(Numbers), Once(s), Len(s) = Total, \A i \in Chunks : s[i] \in Chunks
    PROVE  {s[i] : i \in DOMAIN s} = Chunks
<1> DEFINE S == {s[i] : i \in DOMAIN s}
<1>1. DOMAIN s = 1 .. Total /\ DOMAIN s = Chunks
  BY DEF Chunks
<1>2. S \subseteq Chunks
  BY <1>1
<1>3. s \in Bijection(Chunks, S)
  BY <1>1 DEF Bijection, Injection, Surjection, Once, IsInjective
<1>4. IsFiniteSet(S) /\ Cardinality(S) = Cardinality(Chunks)
  BY <1>3, ChunksType, FS_Bijection DEF ExistsBijection
<1> QED BY <1>2, <1>4, ChunksType, FS_Subset

LEMMA RowAt ==
    ASSUME NEW t \in Rows
    PROVE  /\ t.done \in Seq(Numbers) /\ t.owner \in Users
           /\ t.status \in {"none", "deleted", "uploading", "completed"}
BY DEF Rows

LEMMA NoRowType == NoRow \in Rows /\ NoRow.status = "none" /\ NoRow.done = <<>> /\ Once(NoRow.done)
<1>1. (CHOOSE u \in Users : TRUE) \in Users
  BY UsersAssumption
<1> QED BY <1>1 DEF NoRow, Rows, Once

LEMMA IdleType ==
    /\ Idle \in Jobs /\ Idle.at = "idle" /\ Idle.row = NoRow /\ Idle.user \in Users
<1>1. (CHOOSE u \in Users : TRUE) \in Users /\ (CHOOSE f \in Files : TRUE) \in Files
  BY UsersAssumption
<1> QED BY <1>1, NoRowType, ChunksType DEF Idle, Jobs, Steps

\* Recording a chunk keeps what is recorded and repeats nothing.
LEMMA WithPartRow ==
    ASSUME NEW t \in Rows, Once(t.done), NEW p \in Numbers
    PROVE  /\ WithPart(t, p) \in Rows /\ WithPart(t, p).status = t.status
           /\ Once(WithPart(t, p).done) /\ Begins(t.done, WithPart(t, p).done)
           /\ Recorded(t) \subseteq Recorded(WithPart(t, p)) /\ p \in Recorded(WithPart(t, p))
<1> DEFINE d == IF p \in Recorded(t) THEN t.done ELSE Append(t.done, p)
<1>0. t.done \in Seq(Numbers)
  BY RowAt
<1>1. /\ WithPart(t, p) = [t EXCEPT !.done = d]
  BY DEF WithPart
<1>2. CASE p \in Recorded(t)
  <2>1. d = t.done
    BY <1>2
  <2>2. WithPart(t, p) = t
    BY <1>1, <2>1 DEF Rows
  <2>3. Begins(t.done, t.done)
    BY <1>0 DEF Begins
  <2> QED BY <1>2, <2>2, <2>3
<1>3. CASE p \notin Recorded(t)
  <2>1. /\ d \in Seq(Numbers) /\ DOMAIN d = 1 .. (Len(t.done) + 1) /\ DOMAIN t.done = 1 .. Len(t.done)
        /\ Len(t.done) \in Nat
        /\ \A i \in DOMAIN t.done : d[i] = t.done[i]
        /\ d[Len(t.done) + 1] = p /\ Len(d) = Len(t.done) + 1
    BY <1>0, <1>3, AppendProperties
  <2>2. \A i \in DOMAIN d : i \in DOMAIN t.done \/ i = Len(t.done) + 1
    BY <2>1
  <2>3. \A i \in DOMAIN t.done : t.done[i] # p
    BY <1>3 DEF Recorded
  <2> HIDE DEF d
  <2>4. Once(d)
    BY <2>1, <2>2, <2>3 DEF Once
  <2>5. \A i \in DOMAIN t.done : i \in DOMAIN d
    BY <2>1
  <2>6. WithPart(t, p) \in Rows /\ WithPart(t, p).done = d /\ WithPart(t, p).status = t.status
    BY <1>1, <2>1 DEF Rows
  <2>7. Len(t.done) + 1 \in DOMAIN d
    BY <2>1
  <2>8. Recorded(t) \subseteq Recorded(WithPart(t, p)) /\ p \in Recorded(WithPart(t, p))
    BY <2>1, <2>5, <2>6, <2>7 DEF Recorded
  <2>9. Begins(t.done, d)
    BY <2>1 DEF Begins
  <2> QED BY <2>4, <2>6, <2>8, <2>9
<1> QED BY <1>2, <1>3

\* What a save leaves of the list s that is recorded: it goes on, or is cut back
\* to its first Total numbers.
Kept(s, t) == Begins(s, t) \/ (Begins(t, s) /\ Len(t) = Total)

LEMMA BeginsTrans ==
    ASSUME NEW r \in Seq(Numbers), NEW s \in Seq(Numbers), NEW t \in Seq(Numbers),
           Begins(r, s), Begins(s, t)
    PROVE  Begins(r, t)
BY DEF Begins

\* Either way a completion on its way still has the beginning of the list ...
LEMMA KeptBegins ==
    ASSUME NEW r \in Seq(Numbers), NEW s \in Seq(Numbers), NEW t \in Seq(Numbers),
           Begins(r, s), Len(r) = Total, Kept(s, t)
    PROVE  Begins(r, t)
<1>1. CASE Begins(s, t)
  BY <1>1, BeginsTrans
<1>2. CASE Begins(t, s) /\ Len(t) = Total
  <2>1. DOMAIN r = DOMAIN t
    BY <1>2
  <2> QED BY <1>2, <2>1 DEF Begins
<1> QED BY <1>1, <1>2 DEF Kept

\* ... and a chunk is missing only where a number above Total counts.
LEMMA KeptAccounts ==
    ASSUME NEW s \in Rows, NEW t \in Rows, Once(t.done), Kept(s.done, t.done),
           NEW p \in Chunks, Accounts(s, p)
    PROVE  Accounts(t, p)
<1>0. s.done \in Seq(Numbers) /\ t.done \in Seq(Numbers) /\ Total \in Nat
  BY RowAt, ChunksType
<1>1. CASE Begins(s.done, t.done)
  <2>1. /\ Len(s.done) <= Len(t.done)
        /\ \A i \in DOMAIN s.done : i \in DOMAIN t.done /\ s.done[i] = t.done[i]
    BY <1>0, <1>1 DEF Begins
  <2>2. CASE p \in Recorded(s)
    BY <2>1, <2>2 DEF Accounts, Recorded
  <2>3. CASE StrayCounted(s)
    <3>1. PICK i \in Chunks : s.done[i] \notin Chunks
      BY <2>3 DEF StrayCounted
    <3>2. i \in DOMAIN s.done /\ Total <= Len(t.done)
      BY <1>0, <2>1, <2>3 DEF StrayCounted, Chunks
    <3> QED BY <2>1, <3>1, <3>2 DEF Accounts, StrayCounted
  <2> QED BY <2>2, <2>3 DEF Accounts
<1>2. CASE Begins(t.done, s.done) /\ Len(t.done) = Total
  <2>1. CASE \E i \in Chunks : t.done[i] \notin Chunks
    BY <1>0, <1>2, <2>1 DEF Accounts, StrayCounted
  <2>2. CASE \A i \in Chunks : t.done[i] \in Chunks
    <3>1. {t.done[i] : i \in DOMAIN t.done} = Chunks
      BY <1>0, <1>2, <2>2, Pigeonhole
    <3> QED BY <3>1 DEF Accounts, Recorded
  <2> QED BY <2>1, <2>2
<1> QED BY <1>1, <1>2 DEF Kept

-----------------------------------------------------------------------------
(* What the steps do to job. *)

LEMMA JobAt ==
    ASSUME TypeOK, NEW h \in Handlers
    PROVE  /\ job[h] \in Jobs /\ job[h].at \in Steps /\ File(h) \in Files /\ User(h) \in Users
           /\ job[h].part \in Numbers /\ job[h].row \in Rows /\ job[h].balance \in Int
           /\ job[h].copied \in Nat /\ Task(h) \in Rows
           /\ job \in [Handlers -> Jobs] /\ File(h) = job[h].file /\ Task(h) = tasks[job[h].file]
BY DEF TypeOK, Jobs, Steps, File, User, Task

LEMMA InstanceAt ==
    ASSUME TypeOK, NEW h \in Handlers PROVE instanceOf[h] \in Instances
BY DEF TypeOK, Instances

\* Job h becomes j.
LEMMA Becomes ==
    ASSUME TypeOK, NEW h \in Handlers, NEW j \in Jobs, job' = [job EXCEPT ![h] = j]
    PROVE  /\ job' \in [Handlers -> Jobs] /\ job'[h] = j
           /\ \A g \in Handlers : g # h => job'[g] = job[g]
BY JobAt

LEMMA GotoJob ==
    ASSUME TypeOK, NEW h \in Handlers, NEW s \in Steps, Goto(h, s)
    PROVE  /\ job' \in [Handlers -> Jobs]
           /\ job'[h].at = s /\ job'[h].file = job[h].file /\ job'[h].row = job[h].row
           /\ \A g \in Handlers : g # h => job'[g] = job[g]
<1> DEFINE j == [job[h] EXCEPT !.at = s]
<1>1. job[h] \in Jobs
  BY JobAt
<1>2. j \in Jobs /\ j.at = s /\ j.file = job[h].file /\ j.row = job[h].row
  BY <1>1 DEF Jobs
<1>3. job' = [job EXCEPT ![h] = j]
  BY DEF Goto
<1> HIDE DEF j
<1> QED BY <1>2, <1>3, Becomes

LEMMA ReturnJob ==
    ASSUME TypeOK, NEW h \in Handlers, Return(h)
    PROVE  /\ job' \in [Handlers -> Jobs] /\ job'[h].at = "idle" /\ job'[h].row = NoRow
           /\ \A g \in Handlers : g # h => job'[g] = job[g]
BY IdleType, Becomes DEF Return

LEMMA FaultType ==
    ASSUME TypeOK, (\E k \in FaultKinds : Fault(k)) \/ UNCHANGED faults
    PROVE  faults' \in Nat
BY DEF TypeOK, Fault

LEMMA FaultKind == ASSUME NEW k, Fault(k) PROVE \E x \in FaultKinds : Fault(x)
BY DEF Fault

\* A step of handler h that touches no task, no mutex and no report, and ends
\* up neither between fetch and save nor in a completion without a full row.
LEMMA QuietKeeps ==
    ASSUME UploadInv, TypeOK', UNCHANGED <<tasks, mu, orphan, reported, engine, instanceOf>>,
           NEW h \in Handlers, \A g \in Handlers : g # h => job'[g] = job[g],
           job'[h].at \notin {"part.fetch", "part.save"},
           Once(job'[h].row.done),
           job'[h].at \in FullSteps =>
               /\ Len(job'[h].row.done) = Total
               /\ Alone => /\ Begins(job'[h].row.done, tasks[job'[h].file].done)
                           /\ tasks[job'[h].file].status # "none",
           job'[h].at \in LocalSteps => engine = "local",
           engine = "minio" => MergedWhole'
    PROVE  UploadInv'
<1>1. NoRepeats'
  BY DEF UploadInv, NoRepeats
<1>2. FullRows'
  BY DEF UploadInv, FullRows
<1>3. PartMutex'
  BY DEF UploadInv, PartMutex
<1>4. LocalOnly'
  BY DEF UploadInv, LocalOnly
<1>5. Alone' => Alone
  BY DEF Alone, OneProcess
<1>6. ASSUME Alone PROVE FreshRows'
  <2>1. FreshRows
    BY <1>6 DEF UploadInv
  <2>2. ASSUME NEW g \in Handlers, g # h
        PROVE  /\ At(g, "part.save")' /\ Visible(job'[g].row)
                     => Begins(Task(g)'.done, job'[g].row.done) /\ Task(g)'.status # "none"
               /\ job'[g].at \in FullSteps => Begins(job'[g].row.done, Task(g)'.done) /\ Task(g)'.status # "none"
    BY <2>1, <2>2 DEF FreshRows, At, Task, File
  <2>3. job'[h].at \in FullSteps => Begins(job'[h].row.done, Task(h)'.done) /\ Task(h)'.status # "none"
    BY <1>6 DEF Task, File
  <2>4. ~At(h, "part.save")'
    BY DEF At
  <2> QED BY <2>2, <2>3, <2>4 DEF FreshRows, Begins, Visible
<1>7. ASSUME Alone PROVE Accounted'
  BY <1>7 DEF UploadInv, Accounted, Accounts, StrayCounted, Recorded
<1> QED BY <1>1, <1>2, <1>3, <1>4, <1>5, <1>6, <1>7 DEF UploadInv

\* What is merged stays whole if neither merged nor files change.
LEMMA MergedSame ==
    ASSUME UploadInv, UNCHANGED <<merged, files>>,
           NEW h \in Handlers, \A g \in Handlers : g # h => job'[g] = job[g],
           job'[h].at \in MergedSteps => job[h].at \in MergedSteps /\ job'[h].file = job[h].file
    PROVE  engine = "minio" => MergedWhole'
<1> SUFFICES ASSUME engine = "minio" PROVE MergedWhole'
  OBVIOUS
<1>1. MergedWhole
  BY DEF UploadInv
<1>2. \A f : Whole(f)' = Whole(f)
  BY DEF Whole
<1>3. \A f \in files' : Whole(f)'
  BY <1>1, <1>2 DEF MergedWhole
<1>4. ASSUME NEW g \in Handlers, job'[g].at \in MergedSteps
      PROVE  Whole(File(g))'
  <2>1. job[g].at \in MergedSteps /\ job'[g].file = job[g].file
    BY <1>4
  <2>2. Whole(File(g))
    BY <1>1, <2>1 DEF MergedWhole
  <2> QED BY <2>1, <2>2 DEF Whole, File
<1> QED BY <1>3, <1>4 DEF MergedWhole

\* The same for a step that stores nothing at all.
LEMMA LookKeeps ==
    ASSUME UploadInv, UNCHANGED <<engineVars, dbVars, mu, restVars>>,
           calls' \in Nat, faults' \in Nat, job' \in [Handlers -> Jobs],
           NEW h \in Handlers, \A g \in Handlers : g # h => job'[g] = job[g],
           job'[h].at \notin {"part.fetch", "part.save"},
           Once(job'[h].row.done),
           job'[h].at \in FullSteps =>
               /\ Len(job'[h].row.done) = Total
               /\ Alone => /\ Begins(job'[h].row.done, tasks[job'[h].file].done)
                           /\ tasks[job'[h].file].status # "none",
           job'[h].at \in LocalSteps => engine = "local",
           job'[h].at \in MergedSteps => job[h].at \in MergedSteps /\ job'[h].file = job[h].file
    PROVE  UploadInv'
<1>1. TypeOK'
  BY DEF UploadInv, TypeOK, EngineTypeOK, engineVars, dbVars, restVars, Jobs, Steps
<1>2. engine = "minio" => MergedWhole'
  BY MergedSame DEF engineVars, dbVars
<1> QED BY <1>1, <1>2, QuietKeeps DEF dbVars, restVars

LEMMA Counts ==
    ASSUME TypeOK
    PROVE  calls \in Nat /\ faults \in Nat /\ calls + 1 \in Nat /\ faults + 1 \in Nat
BY DEF TypeOK

\* A handler goes on to a step outside completions and the locked section, or returns.
LEMMA GoOnKeeps ==
    ASSUME UploadInv, UNCHANGED <<engineVars, dbVars, mu, restVars>>,
           calls' \in Nat, faults' \in Nat, NEW h \in Handlers,
           \/ \E s \in Steps \ (FullSteps \cup {"part.fetch", "part.save", "init.delete"}) : Goto(h, s)
           \/ Return(h)
    PROVE  UploadInv'
<1>0. TypeOK /\ Once(job[h].row.done)
  BY DEF UploadInv, NoRepeats
<1>1. ASSUME NEW s \in Steps \ (FullSteps \cup {"part.fetch", "part.save", "init.delete"}), Goto(h, s)
      PROVE  UploadInv'
  <2>1. /\ job' \in [Handlers -> Jobs]
        /\ job'[h].at = s /\ job'[h].row = job[h].row
        /\ \A g \in Handlers : g # h => job'[g] = job[g]
    BY <1>0, <1>1, GotoJob
  <2>2. s \notin MergedSteps /\ s \notin LocalSteps
    BY DEF FullSteps, MergedSteps, LocalSteps, DoneSteps
  <2> QED BY <1>0, <2>1, <2>2, LookKeeps
<1>2. CASE Return(h)
  <2>1. /\ job' \in [Handlers -> Jobs] /\ job'[h].at = "idle" /\ job'[h].row = NoRow
        /\ \A g \in Handlers : g # h => job'[g] = job[g]
    BY <1>0, <1>2, ReturnJob
  <2>2. "idle" \notin FullSteps /\ "idle" \notin MergedSteps /\ "idle" \notin LocalSteps
    BY DEF FullSteps, MergedSteps, LocalSteps, DoneSteps
  <2> QED BY <2>1, <2>2, NoRowType, LookKeeps
<1> QED BY <1>1, <1>2

LEMMA BeginKeeps ==
    ASSUME UploadInv, NEW h \in Handlers, NEW f \in Files, NEW u \in Users, NEW p \in Numbers,
           NEW s \in {"init.user", "part.get", "done.get"}, Begin(h, f, u, p, s)
    PROVE  UploadInv'
<1> DEFINE j == [Idle EXCEPT !.at = s, !.file = f, !.user = u, !.part = p]
<1>0. TypeOK /\ s \in Steps
  BY DEF UploadInv, Steps, PartSteps, DoneSteps
<1>1. j.at = s /\ j.row = NoRow
  BY IdleType DEF Jobs
<1>2. j \in Jobs
  BY <1>0, IdleType DEF Jobs
<1>3. job' = [job EXCEPT ![h] = j]
  BY DEF Begin
<1> HIDE DEF j
<1>4. /\ job' \in [Handlers -> Jobs] /\ job'[h] = j
      /\ \A g \in Handlers : g # h => job'[g] = job[g]
  BY <1>0, <1>2, <1>3, Becomes
<1>5. s \notin FullSteps /\ s \notin MergedSteps /\ s \notin LocalSteps
  BY DEF FullSteps, MergedSteps, LocalSteps, DoneSteps
<1>6. calls' \in Nat /\ faults' \in Nat /\ UNCHANGED <<engineVars, dbVars, mu, restVars>>
  BY <1>0, Counts DEF Begin
<1> QED BY <1>1, <1>4, <1>5, <1>6, NoRowType, LookKeeps

LEMMA RequestKeeps ==
    ASSUME UploadInv, NEW h \in Handlers, Request(h) PROVE UploadInv'
BY BeginKeeps, IdleType, ChunksType DEF Request, InitUpload, UploadPart, CompleteUpload

\* Failed queries and the steps of InitUpload and UploadPart that only look.
LEMMA LooksKeep ==
    ASSUME UploadInv, NEW h \in Handlers,
           QueryFails(h) \/ InitUser(h) \/ InitFile(h) \/ InitTask(h) \/ PartGet(h)
    PROVE  UploadInv'
<1>0. TypeOK
  BY DEF UploadInv
<1>1. /\ calls' \in Nat /\ faults' \in Nat /\ UNCHANGED <<engineVars, dbVars, mu, restVars>>
  BY <1>0, Counts DEF QueryFails, InitUser, InitFile, InitTask, PartGet, Quiet, Fault
<1>2. \A s \in {"init.file", "init.task", "init.create", "part.store"} :
         s \in Steps \ (FullSteps \cup {"part.fetch", "part.save", "init.delete"})
  BY DEF Steps, FullSteps, PartSteps, DoneSteps
<1>3. Return(h) \/ \E s \in {"init.file", "init.task", "init.create", "part.store"} : Goto(h, s)
  BY DEF QueryFails, InitUser, InitFile, InitTask, PartGet
<1> QED BY <1>1, <1>2, <1>3, GoOnKeeps

LEMMA InitStoreKeeps ==
    ASSUME UploadInv, NEW h \in Handlers, InitStore(h) PROVE UploadInv'
<1>0. TypeOK /\ Once(job[h].row.done)
  BY DEF UploadInv, NoRepeats
<1>1. /\ calls' \in Nat /\ faults' \in Nat /\ UNCHANGED <<engineVars, dbVars, mu, restVars>>
  BY <1>0, Counts DEF InitStore, Fault
<1>2. CASE Return(h)
  BY <1>1, <1>2, GoOnKeeps
<1>3. CASE engine = "local" /\ Goto(h, "init.delete")
  <2>1. "init.delete" \in Steps /\ "init.delete" \notin FullSteps /\ "init.delete" \notin MergedSteps
    BY DEF Steps, FullSteps, MergedSteps, DoneSteps
  <2>2. /\ job' \in [Handlers -> Jobs]
        /\ job'[h].at = "init.delete" /\ job'[h].row = job[h].row
        /\ \A g \in Handlers : g # h => job'[g] = job[g]
    BY <1>0, <1>3, <2>1, GotoJob
  <2> QED BY <1>0, <1>1, <1>3, <2>1, <2>2, LookKeeps
<1> QED BY <1>2, <1>3 DEF InitStore

\* A step within a completion, or to its end, that writes no task: merged may change.
LEMMA CompletionKeeps ==
    ASSUME UploadInv, UNCHANGED <<tasks, mu, orphan, calls, restVars>>,
           NEW h \in Handlers, \A g \in Handlers : g # h => job'[g] = job[g],
           job' \in [Handlers -> Jobs], EngineTypeOK(Instances)', faults' \in Nat,
           files' \subseteq Files, quota' \in [Users -> Int],
           \/ job'[h].at = "idle" /\ job'[h].row = NoRow
           \/ /\ job[h].at \in FullSteps /\ job'[h].at \in FullSteps
              /\ job'[h].row = job[h].row /\ job'[h].file = job[h].file
              /\ job'[h].at = "done.copy" => engine = "local",
           engine = "minio" => MergedWhole'
    PROVE  UploadInv'
<1>1. TypeOK'
  BY DEF UploadInv, TypeOK, restVars, Jobs, Steps
<1>2. "idle" \notin FullSteps /\ \A s \in FullSteps : s \notin {"part.fetch", "part.save", "init.delete", "idle"}
  BY DEF FullSteps, DoneSteps
<1>3. /\ Once(job'[h].row.done) /\ job'[h].at \notin {"part.fetch", "part.save"}
      /\ job'[h].at \in LocalSteps => engine = "local"
  BY <1>2, NoRowType DEF UploadInv, NoRepeats, LocalSteps
<1>4. ASSUME job'[h].at \in FullSteps
      PROVE  /\ Len(job'[h].row.done) = Total
             /\ Alone => /\ Begins(job'[h].row.done, tasks[job'[h].file].done)
                         /\ tasks[job'[h].file].status # "none"
  <2>1. /\ job[h].at \in FullSteps /\ job'[h].row = job[h].row /\ job'[h].file = job[h].file
    BY <1>2, <1>4
  <2>2. Len(job[h].row.done) = Total
    BY <2>1 DEF UploadInv, FullRows
  <2>3. Alone => Begins(job[h].row.done, Task(h).done) /\ Task(h).status # "none"
    BY <2>1 DEF UploadInv, FreshRows
  <2> QED BY <2>1, <2>2, <2>3 DEF Task, File
<1> QED BY <1>1, <1>3, <1>4, QuietKeeps DEF restVars

LEMMA FullGoto ==
    ASSUME UploadInv, NEW h \in Handlers, job[h].at \in FullSteps, NEW s \in FullSteps,
           Goto(h, s) \/ Return(h)
    PROVE  /\ job' \in [Handlers -> Jobs] /\ \A g \in Handlers : g # h => job'[g] = job[g]
           /\ \/ job'[h].at = "idle" /\ job'[h].row = NoRow
              \/ /\ job[h].at \in FullSteps /\ job'[h].at \in FullSteps /\ job'[h].at = s
                 /\ job'[h].row = job[h].row /\ job'[h].file = job[h].file
<1>1. TypeOK /\ s \in Steps
  BY DEF UploadInv, Steps, FullSteps
<1> QED BY <1>1, GotoJob, ReturnJob

\* A list of Total numbers is enough to go on.
LEMMA DoneGetKeeps ==
    ASSUME UploadInv, NEW h \in Handlers, DoneGet(h) PROVE UploadInv'
<1>0. TypeOK /\ Task(h) \in Rows
  BY JobAt DEF UploadInv
<1>1. /\ calls' \in Nat /\ faults' \in Nat /\ UNCHANGED <<engineVars, dbVars, mu, restVars>>
  BY <1>0, Counts DEF DoneGet, Quiet
<1>2. CASE Return(h)
  BY <1>1, <1>2, GoOnKeeps
<1>3. CASE /\ Task(h).status = "uploading" /\ Len(Task(h).done) = Total
           /\ job' = [job EXCEPT ![h].at = "done.store", ![h].row = Task(h)]
  <2> DEFINE j == [job[h] EXCEPT !.at = "done.store", !.row = Task(h)]
  <2>1. job[h] \in Jobs /\ "done.store" \in Steps
    BY <1>0, JobAt DEF Steps, DoneSteps
  <2>2. j.at = "done.store" /\ j.row = Task(h) /\ j.file = job[h].file
    BY <2>1 DEF Jobs
  <2>3. j \in Jobs
    BY <1>0, <2>1 DEF Jobs
  <2>4. job' = [job EXCEPT ![h] = j]
    BY <1>3
  <2> HIDE DEF j
  <2>5. /\ job' \in [Handlers -> Jobs] /\ job'[h] = j
        /\ \A g \in Handlers : g # h => job'[g] = job[g]
    BY <1>0, <2>3, <2>4, Becomes
  <2>6. File(h) \in Files /\ Task(h) = tasks[File(h)] /\ File(h) = job[h].file
    BY <1>0, JobAt DEF Task
  <2>7. Once(Task(h).done)
    BY <2>6 DEF UploadInv, NoRepeats
  <2>8. Begins(Task(h).done, Task(h).done)
    BY <1>0, RowAt DEF Begins
  <2>9. "done.store" \notin MergedSteps /\ "done.store" \notin LocalSteps
    BY DEF MergedSteps, LocalSteps
  <2>10. Begins(job'[h].row.done, tasks[job'[h].file].done) /\ tasks[job'[h].file].status # "none"
    BY <1>3, <2>2, <2>5, <2>6, <2>8
  <2> QED BY <1>1, <1>3, <2>2, <2>5, <2>7, <2>8, <2>9, <2>10, LookKeeps
<1> QED BY <1>2, <1>3 DEF DoneGet

\* MinIO composes a list of Total numbers.
LEMMA DoneStoreKeeps ==
    ASSUME UploadInv, NEW h \in Handlers, DoneStore(h) PROVE UploadInv'
<1>0. /\ TypeOK /\ job[h].at = "done.store" /\ File(h) \in Files /\ job[h].row \in Rows
      /\ job[h].at \in FullSteps /\ "done.user" \in FullSteps
  BY JobAt DEF UploadInv, DoneStore, At, FullSteps, DoneSteps
<1>1. /\ UNCHANGED <<tasks, mu, orphan, calls, restVars, files, quota>> /\ faults' \in Nat
  BY <1>0, Counts DEF DoneStore, dbVars, Fault
<1>2. files' \subseteq Files /\ quota' \in [Users -> Int]
  BY <1>0, <1>1 DEF TypeOK
<1>3. CASE Compose(instanceOf[h], File(h), job[h].row.done) /\ Goto(h, "done.user")
  <2>1. /\ job' \in [Handlers -> Jobs] /\ \A g \in Handlers : g # h => job'[g] = job[g]
        /\ job'[h].at = "done.user" /\ job'[h].row = job[h].row /\ job'[h].file = job[h].file
    BY <1>0, <1>3, GotoJob DEF FullSteps, Steps
  <2>2. /\ merged' = [merged EXCEPT ![File(h)] = job[h].row.done]
        /\ cleanup' = cleanup \cup
              {<<instanceOf[h], File(h), job[h].row.done[k]>> : k \in DOMAIN job[h].row.done}
        /\ UNCHANGED parts
    BY <1>3 DEF Compose
  <2>3. /\ job[h].row.done \in Seq(Numbers) /\ Len(job[h].row.done) = Total
        /\ Once(job[h].row.done) /\ instanceOf[h] \in Instances
    BY <1>0, RowAt, InstanceAt DEF UploadInv, FullRows, NoRepeats
  <2>4. \A i \in DOMAIN job[h].row.done : job[h].row.done[i] \in Numbers
    BY <2>3
  <2>5. EngineTypeOK(Instances)'
    BY <1>0, <2>2, <2>3, <2>4 DEF TypeOK, EngineTypeOK
  <2>6. /\ Whole(File(h))'
        /\ \A f \in Files : f # File(h) => merged'[f] = merged[f]
        /\ merged'[File(h)] = job[h].row.done
    BY <1>0, <2>1, <2>2, <2>3 DEF TypeOK, EngineTypeOK, Whole, Once, File
  <2>7. \A f \in Files : Whole(f) \/ f = File(h) => Whole(f)'
    BY <2>1, <2>6 DEF Whole, File
  <2>8. engine = "minio" => MergedWhole'
    <3> SUFFICES ASSUME engine = "minio" PROVE MergedWhole'
      OBVIOUS
    <3>1. \A f \in files' : Whole(f)'
      BY <1>0, <1>1, <2>7 DEF TypeOK, UploadInv, MergedWhole
    <3>2. ASSUME NEW g \in Handlers, job'[g].at \in MergedSteps PROVE Whole(File(g))'
      <4>1. CASE g = h
        BY <2>6, <4>1
      <4>2. CASE g # h
        <5>1. Whole(File(g)) /\ job'[g] = job[g] /\ File(g) \in Files
          BY <1>0, <2>1, <3>2, <4>2, JobAt DEF UploadInv, MergedWhole
        <5> QED BY <2>7, <5>1 DEF Whole, File
      <4> QED BY <4>1, <4>2
    <3> QED BY <3>1, <3>2 DEF MergedWhole
  <2> QED BY <1>0, <1>1, <1>2, <2>1, <2>5, <2>8, CompletionKeeps
<1>4. CASE Return(h) /\ UNCHANGED engineVars
  <2>1. EngineTypeOK(Instances)' /\ UNCHANGED <<merged, files>>
    BY <1>0, <1>1, <1>4 DEF TypeOK, EngineTypeOK, engineVars
  <2>2. /\ job' \in [Handlers -> Jobs] /\ job'[h].at = "idle" /\ job'[h].row = NoRow
        /\ \A g \in Handlers : g # h => job'[g] = job[g]
    BY <1>0, <1>4, ReturnJob
  <2>3. engine = "minio" => MergedWhole'
    BY <2>1, <2>2, MergedSame DEF MergedSteps
  <2> QED BY <1>1, <1>2, <2>1, <2>2, <2>3, CompletionKeeps
<1> QED BY <1>3, <1>4 DEF DoneStore

\* The steps of the local engine.
LEMMA LocalKeeps ==
    ASSUME UploadInv, NEW h \in Handlers, DoneCreate(h) \/ DoneCopy(h) \/ DoneRemove(h)
    PROVE  UploadInv'
<1>0. /\ TypeOK /\ File(h) \in Files /\ job[h].row \in Rows /\ job[h] \in Jobs
      /\ job[h].row.done \in Seq(Numbers)
  BY JobAt, RowAt DEF UploadInv
<1>1. /\ UNCHANGED <<tasks, mu, orphan, calls, restVars, files, quota>> /\ faults' \in Nat
  BY <1>0, Counts DEF DoneCreate, DoneCopy, DoneRemove, dbVars, Fault, Quiet
<1>2. files' \subseteq Files /\ quota' \in [Users -> Int]
  BY <1>0, <1>1 DEF TypeOK
<1>3. job[h].at \in FullSteps /\ {"done.copy", "done.user"} \subseteq FullSteps
  BY DEF DoneCreate, DoneCopy, DoneRemove, At, FullSteps, DoneSteps
<1>4. /\ parts \in [Files -> SUBSET Numbers] /\ merged \in [Files -> Seq(Numbers)]
      /\ cleanup \subseteq Instances \X Files \X Numbers
  BY <1>0 DEF TypeOK, EngineTypeOK
<1>5. EngineTypeOK(Instances)'
  <2>1. CASE UNCHANGED engineVars
    BY <1>4, <2>1 DEF EngineTypeOK, engineVars
  <2>2. CASE Truncate(File(h))
    BY <1>0, <1>4, <2>2 DEF EngineTypeOK, Truncate
  <2>3. CASE RemoveAll(File(h))
    BY <1>0, <1>4, <2>3 DEF EngineTypeOK, RemoveAll
  <2>4. ASSUME NEW p \in Numbers, DropPart(File(h), p) PROVE EngineTypeOK(Instances)'
    BY <1>0, <1>4, <2>4 DEF EngineTypeOK, DropPart
  <2>5. ASSUME NEW p \in Numbers, AppendPart(File(h), p) PROVE EngineTypeOK(Instances)'
    <3>1. Append(merged[File(h)], p) \in Seq(Numbers)
      BY <1>0, <1>4
    <3> QED BY <1>0, <1>4, <2>5, <3>1 DEF EngineTypeOK, AppendPart
  <2>6. CASE DoneCopy(h)
    <3> DEFINE p == job[h].row.done[job[h].copied + 1]
    <3>1. p \in Numbers
      <4>1. job[h].copied \in Nat /\ job[h].copied < Len(job[h].row.done)
        BY <1>0, <2>6 DEF DoneCopy, Jobs
      <4>2. job[h].copied + 1 \in 1 .. Len(job[h].row.done)
        BY <1>0, <4>1
      <4> QED BY <1>0, <4>2
    <3>2. UNCHANGED engineVars \/ DropPart(File(h), p) \/ AppendPart(File(h), p)
      BY <2>6 DEF DoneCopy
    <3> QED BY <2>1, <2>4, <2>5, <3>1, <3>2
  <2> QED BY <2>1, <2>2, <2>3, <2>6 DEF DoneCreate, DoneRemove
<1>6. /\ job' \in [Handlers -> Jobs] /\ \A g \in Handlers : g # h => job'[g] = job[g]
      /\ \/ job'[h].at = "idle" /\ job'[h].row = NoRow
         \/ /\ job[h].at \in FullSteps /\ job'[h].at \in FullSteps
            /\ job'[h].row = job[h].row /\ job'[h].file = job[h].file
  <2>1. CASE Return(h) \/ Goto(h, "done.copy") \/ Goto(h, "done.user")
    BY <1>3, <2>1, FullGoto
  <2>2. CASE At(h, "done.copy") /\ job' = [job EXCEPT ![h].copied = @ + 1]
    <3> DEFINE j == [job[h] EXCEPT !.copied = @ + 1]
    <3>1. j \in Jobs /\ j.at = job[h].at /\ j.row = job[h].row /\ j.file = job[h].file
      BY <1>0 DEF Jobs
    <3>2. job' = [job EXCEPT ![h] = j]
      BY <2>2
    <3> HIDE DEF j
    <3> QED BY <1>0, <1>3, <3>1, <3>2, Becomes
  <2> QED BY <2>1, <2>2 DEF DoneCreate, DoneCopy, DoneRemove
<1>7. engine = "local" /\ engine # "minio"
  BY DEF DoneCreate, DoneCopy, DoneRemove, At, UploadInv, LocalOnly, LocalSteps
<1> QED BY <1>1, <1>2, <1>5, <1>6, <1>7, CompletionKeeps

\* Charging and recording the file.
LEMMA ChargeKeeps ==
    ASSUME UploadInv, NEW h \in Handlers, DoneUser(h) \/ DoneCharge(h) \/ DoneFile(h)
    PROVE  UploadInv'
<1>0. /\ TypeOK /\ File(h) \in Files /\ User(h) \in Users /\ job[h] \in Jobs
      /\ job[h].balance \in Int /\ quota \in [Users -> Int] /\ files \subseteq Files
      /\ Total \in Int
  BY JobAt, ChunksType DEF UploadInv, TypeOK
<1>1. UNCHANGED <<tasks, mu, orphan, calls, restVars, engineVars>> /\ faults' \in Nat
  BY <1>0, Counts DEF DoneUser, DoneCharge, DoneFile, dbVars, Fault, Quiet
<1>2. files' \subseteq Files
  BY <1>0 DEF DoneUser, DoneCharge, DoneFile, dbVars
<1>3. quota' \in [Users -> Int]
  BY <1>0 DEF DoneUser, DoneCharge, DoneFile, dbVars
<1>4. EngineTypeOK(Instances)'
  BY <1>0, <1>1 DEF TypeOK, EngineTypeOK, engineVars
<1>5. /\ job[h].at \in FullSteps /\ job[h].at \in MergedSteps
      /\ {"done.charge", "done.file", "done.save"} \subseteq FullSteps
  BY DEF DoneUser, DoneCharge, DoneFile, At, FullSteps, MergedSteps, DoneSteps
<1>6. /\ job' \in [Handlers -> Jobs] /\ \A g \in Handlers : g # h => job'[g] = job[g]
      /\ \/ job'[h].at = "idle" /\ job'[h].row = NoRow
         \/ /\ job'[h].at \in {"done.charge", "done.file", "done.save"}
            /\ job'[h].row = job[h].row /\ job'[h].file = job[h].file
  <2>1. CASE \/ Return(h)
             \/ \E s \in {"done.charge", "done.file", "done.save"} : Goto(h, s)
    BY <1>5, <2>1, FullGoto
  <2>2. CASE job' = [job EXCEPT ![h].at = "done.charge", ![h].balance = quota[User(h)]]
    <3> DEFINE j == [job[h] EXCEPT !.at = "done.charge", !.balance = quota[User(h)]]
    <3>1. job[h] \in Jobs /\ quota[User(h)] \in Int /\ "done.charge" \in Steps
      BY <1>0 DEF Steps, DoneSteps
    <3>2. /\ j.at = "done.charge" /\ j.row = job[h].row /\ j.file = job[h].file
      BY <3>1 DEF Jobs
    <3>3. j \in Jobs
      BY <3>1 DEF Jobs
    <3>4. job' = [job EXCEPT ![h] = j]
      BY <2>2
    <3> HIDE DEF j
    <3> QED BY <1>0, <3>2, <3>3, <3>4, Becomes
  <2> QED BY <2>1, <2>2 DEF DoneUser, DoneCharge, DoneFile
<1>7. engine = "minio" => MergedWhole'
  <2> SUFFICES ASSUME engine = "minio" PROVE MergedWhole'
    OBVIOUS
  <2>0. MergedWhole
    BY DEF UploadInv
  <2>1. \A f : Whole(f)' = Whole(f)
    BY <1>1 DEF Whole, engineVars
  <2>2. files' \subseteq files \cup {File(h)}
    BY DEF DoneUser, DoneCharge, DoneFile, dbVars
  <2>3. Whole(File(h))
    BY <1>5, <2>0 DEF MergedWhole
  <2>4. \A f \in files' : Whole(f)'
    BY <2>0, <2>1, <2>2, <2>3 DEF MergedWhole
  <2>5. ASSUME NEW g \in Handlers, job'[g].at \in MergedSteps PROVE Whole(File(g))'
    <3>1. job'[g].file = job[g].file /\ job[g].at \in MergedSteps
      BY <1>5, <1>6, <2>5 DEF MergedSteps
    <3>2. Whole(File(g))
      BY <2>0, <3>1 DEF MergedWhole
    <3> QED BY <1>1, <3>1, <3>2 DEF Whole, File, engineVars
  <2> QED BY <2>4, <2>5 DEF MergedWhole
<1> QED BY <1>1, <1>2, <1>3, <1>4, <1>5, <1>6, <1>7, CompletionKeeps

LEMMA PartStoreKeeps ==
    ASSUME UploadInv, NEW h \in Handlers, PartStore(h) PROVE UploadInv'
<1>0. /\ TypeOK /\ File(h) \in Files /\ job[h].part \in Numbers /\ Once(job[h].row.done)
  BY JobAt DEF UploadInv, NoRepeats
<1>1. CASE StorePart(File(h), job[h].part) /\ Goto(h, "part.lock") /\ UNCHANGED faults
  <2>1. /\ "part.lock" \in Steps /\ "part.lock" \notin FullSteps
        /\ "part.lock" \notin LocalSteps /\ "part.lock" \notin MergedSteps
    BY DEF Steps, PartSteps, FullSteps, LocalSteps, MergedSteps, DoneSteps
  <2>2. /\ job' \in [Handlers -> Jobs] /\ job'[h].at = "part.lock" /\ job'[h].row = job[h].row
        /\ \A g \in Handlers : g # h => job'[g] = job[g]
    BY <1>0, <1>1, <2>1, GotoJob
  <2>3. EngineTypeOK(Instances)' /\ UNCHANGED merged
    BY <1>0, <1>1 DEF TypeOK, EngineTypeOK, StorePart
  <2>4. UNCHANGED <<dbVars, mu, calls, faults, restVars>>
    BY <1>1 DEF PartStore
  <2>5. TypeOK'
    BY <1>0, <2>2, <2>3, <2>4 DEF TypeOK, Jobs, Steps, dbVars, restVars
  <2>6. engine = "minio" => MergedWhole'
    BY <2>1, <2>2, <2>3, <2>4, MergedSame DEF dbVars
  <2> QED BY <1>0, <2>1, <2>2, <2>4, <2>5, <2>6, QuietKeeps DEF dbVars, restVars
<1>2. CASE Fault("store") /\ Return(h) /\ UNCHANGED engineVars
  <2>1. calls' \in Nat /\ faults' \in Nat /\ UNCHANGED <<engineVars, dbVars, mu, restVars>>
    BY <1>0, <1>2, Counts DEF PartStore, Fault
  <2> QED BY <1>2, <2>1, GoOnKeeps
<1> QED BY <1>1, <1>2 DEF PartStore

\* Only parts, clean-ups and counters change.
LEMMA SameKeeps ==
    ASSUME UploadInv, TypeOK', UNCHANGED <<dbVars, mu, job, restVars, merged>>
    PROVE  UploadInv'
<1>1. UNCHANGED <<tasks, files, orphan, mu, job, engine, instanceOf, reported, merged>>
  BY DEF dbVars, restVars
<1>2. NoRepeats' /\ FullRows' /\ PartMutex' /\ LocalOnly'
  BY <1>1 DEF UploadInv, NoRepeats, FullRows, PartMutex, LocalOnly
<1>3. engine' = "minio" => MergedWhole'
  <2>1. \A f : Whole(f)' = Whole(f)
    BY <1>1 DEF Whole, Once
  <2>2. \A h \in Handlers : Whole(File(h))' = Whole(File(h))
    BY <1>1 DEF Whole, File
  <2> QED BY <1>1, <2>1, <2>2 DEF UploadInv, MergedWhole
<1>4. Alone' => Alone
  BY <1>1 DEF Alone, OneProcess
<1>5. Alone => FreshRows'
  <2>1. \A h \in Handlers : Task(h)' = Task(h)
    BY <1>1 DEF Task, File
  <2> QED BY <1>1, <2>1 DEF UploadInv, FreshRows, At, Visible, Recorded
<1>6. Alone => Accounted'
  BY <1>1 DEF UploadInv, Accounted, Accounts, StrayCounted, Visible, Recorded
<1> QED BY <1>2, <1>3, <1>4, <1>5, <1>6 DEF UploadInv

LEMMA CleanupKeeps ==
    ASSUME UploadInv, NEW i \in Instances, NEW f \in Files, NEW p \in Numbers, Cleanup(i, f, p)
    PROVE  UploadInv'
<1>1. UNCHANGED <<dbVars, mu, job, calls, restVars, merged>>
  BY DEF Cleanup, RemovePart, RemovePartFails
<1>2. EngineTypeOK(Instances)'
  <2>1. EngineTypeOK(Instances)
    BY DEF UploadInv, TypeOK
  <2>2. CASE RemovePart(i, f, p)
    <3>1. parts' \in [Files -> SUBSET Numbers]
      BY <2>1, <2>2 DEF EngineTypeOK, RemovePart
    <3> QED BY <2>1, <2>2, <3>1 DEF EngineTypeOK, RemovePart
  <2>3. CASE RemovePartFails(i, f, p)
    BY <2>1, <2>3 DEF EngineTypeOK, RemovePartFails
  <2> QED BY <2>2, <2>3 DEF Cleanup
<1>3. faults' \in Nat
  BY Counts DEF UploadInv, Cleanup, Fault
<1>4. TypeOK'
  BY <1>1, <1>2, <1>3 DEF UploadInv, TypeOK, dbVars, restVars
<1> QED BY <1>1, <1>4, SameKeeps

-----------------------------------------------------------------------------
(* The section under partMu. *)

LEMMA PartLockKeeps ==
    ASSUME UploadInv, NEW h \in Handlers, PartLock(h) PROVE UploadInv'
<1>0. /\ TypeOK /\ Once(job[h].row.done) /\ "part.fetch" \in Steps /\ instanceOf[h] \in Instances
  BY InstanceAt DEF UploadInv, NoRepeats, Steps, PartSteps
<1>1. /\ job' \in [Handlers -> Jobs] /\ job'[h].at = "part.fetch" /\ job'[h].row = job[h].row
      /\ job'[h].file = job[h].file
      /\ \A g \in Handlers : g # h => job'[g] = job[g]
  BY <1>0, GotoJob DEF PartLock
<1>2. /\ UNCHANGED <<engineVars, tasks, files, quota, orphan, calls, faults, engine, instanceOf, reported>>
      /\ mu[instanceOf[h]] = "free" /\ mu' = [mu EXCEPT ![instanceOf[h]] = h]
  BY DEF PartLock, Quiet, dbVars, restVars
<1>3. /\ "part.fetch" \notin FullSteps /\ "part.fetch" \notin LocalSteps
      /\ "part.fetch" \notin MergedSteps
  BY DEF FullSteps, LocalSteps, MergedSteps, DoneSteps
<1>4. TypeOK'
  BY <1>0, <1>1, <1>2 DEF TypeOK, EngineTypeOK, engineVars, Jobs, Steps
<1>5. NoRepeats' /\ FullRows' /\ LocalOnly'
  BY <1>0, <1>1, <1>2, <1>3 DEF UploadInv, NoRepeats, FullRows, LocalOnly
<1>6. PartMutex'
  <2>1. mu' [instanceOf[h]] = h
    BY <1>0, <1>2 DEF TypeOK
  <2>2. ASSUME NEW g \in Handlers, g # h, job[g].at \in {"part.fetch", "part.save"}
        PROVE  mu'[instanceOf[g]] = g
    <3>1. mu[instanceOf[g]] = g /\ g # "free" /\ instanceOf[g] \in Instances
      BY <1>0, <2>2, InstanceAt, HandlersAssumption DEF UploadInv, PartMutex
    <3>2. instanceOf[g] # instanceOf[h]
      BY <1>2, <3>1
    <3> QED BY <1>0, <1>2, <3>1, <3>2 DEF TypeOK
  <2> QED BY <1>1, <1>2, <2>1, <2>2 DEF PartMutex
<1>7. engine = "minio" => MergedWhole'
  BY <1>1, <1>2, <1>3, MergedSame DEF engineVars
<1>8. Alone' => Alone
  BY <1>2 DEF Alone, OneProcess
<1>9. ASSUME Alone PROVE FreshRows' /\ Accounted'
  <2>1. FreshRows /\ Accounted
    BY <1>9 DEF UploadInv
  <2>2. Accounted'
    BY <1>2, <2>1 DEF Accounted, Accounts, StrayCounted, Visible, Recorded
  <2>3. FreshRows'
    <3>1. ASSUME NEW g \in Handlers
          PROVE  /\ Task(g)' = Task(g) /\ job'[g].row = job[g].row
                 /\ job'[g].at = job[g].at \/ job'[g].at = "part.fetch"
      BY <1>1, <1>2 DEF Task, File
    <3> QED BY <1>3, <2>1, <3>1 DEF FreshRows, At, Visible, Begins
  <2> QED BY <2>2, <2>3
<1> QED BY <1>2, <1>4, <1>5, <1>6, <1>7, <1>8, <1>9 DEF UploadInv

\* The row fetched has what is recorded.
LEMMA PartFetchKeeps ==
    ASSUME UploadInv, NEW h \in Handlers, PartFetch(h) PROVE UploadInv'
<1>0. TypeOK /\ job[h] \in Jobs /\ Task(h) \in Rows /\ Task(h) = tasks[job[h].file]
      /\ job[h].file \in Files /\ job[h].at = "part.fetch"
  BY JobAt DEF UploadInv, PartFetch, At, File
<1> PICK t \in {Task(h), NoRow} :
        job' = [job EXCEPT ![h].at = "part.save", ![h].row = IF Visible(t) THEN t ELSE NoRow]
  BY DEF PartFetch
<1> DEFINE k == IF Visible(t) THEN t ELSE NoRow
           j == [job[h] EXCEPT !.at = "part.save", !.row = k]
<1>1. k \in Rows /\ Once(k.done) /\ (Visible(k) => k = Task(h))
  <2>1. Once(Task(h).done)
    BY <1>0 DEF UploadInv, NoRepeats
  <2>2. ~Visible(NoRow)
    BY NoRowType DEF Visible
  <2> QED BY <1>0, <2>1, <2>2, NoRowType
<1> HIDE DEF k
<1>2. "part.save" \in Steps /\ j.at = "part.save" /\ j.row = k /\ j.file = job[h].file
  BY <1>0 DEF Jobs, Steps, PartSteps
<1>3. j \in Jobs
  BY <1>0, <1>1, <1>2 DEF Jobs
<1>4. job' = [job EXCEPT ![h] = j]
  BY DEF k
<1> HIDE DEF j
<1>5. /\ job' \in [Handlers -> Jobs] /\ job'[h] = j
      /\ \A g \in Handlers : g # h => job'[g] = job[g]
  BY <1>0, <1>3, <1>4, Becomes
<1>6. /\ UNCHANGED <<engineVars, tasks, files, quota, orphan, mu, calls, engine, instanceOf, reported>>
      /\ faults' \in Nat
  BY <1>0, Counts DEF PartFetch, dbVars, restVars, Fault
<1>7. /\ "part.save" \notin FullSteps /\ "part.save" \notin LocalSteps
      /\ "part.save" \notin MergedSteps
  BY DEF FullSteps, LocalSteps, MergedSteps, DoneSteps
<1>8. TypeOK'
  BY <1>0, <1>5, <1>6 DEF TypeOK, EngineTypeOK, engineVars, Jobs, Steps
<1>9. NoRepeats' /\ FullRows' /\ LocalOnly'
  <2>1. NoRepeats'
    BY <1>1, <1>2, <1>5, <1>6 DEF UploadInv, NoRepeats
  <2>2. FullRows'
    BY <1>2, <1>5, <1>7 DEF UploadInv, FullRows
  <2>3. LocalOnly'
    BY <1>2, <1>5, <1>6, <1>7 DEF UploadInv, LocalOnly
  <2> QED BY <2>1, <2>2, <2>3
<1>10. PartMutex'
  BY <1>0, <1>5, <1>6 DEF UploadInv, PartMutex
<1>11. engine = "minio" => MergedWhole'
  BY <1>2, <1>5, <1>6, <1>7, MergedSame DEF engineVars
<1>12. Alone' => Alone
  BY <1>6 DEF Alone, OneProcess
<1>13. ASSUME Alone PROVE FreshRows' /\ Accounted'
  <2>1. FreshRows /\ Accounted
    BY <1>13 DEF UploadInv
  <2>2. Accounted'
    BY <1>6, <2>1 DEF Accounted, Accounts, StrayCounted, Visible, Recorded
  <2>3. ASSUME NEW g \in Handlers, g # h
        PROVE  /\ At(g, "part.save")' /\ Visible(job'[g].row)
                     => Begins(Task(g)'.done, job'[g].row.done) /\ Task(g)'.status # "none"
               /\ job'[g].at \in FullSteps => Begins(job'[g].row.done, Task(g)'.done) /\ Task(g)'.status # "none"
    BY <1>5, <1>6, <2>1, <2>3 DEF FreshRows, At, Task, File
  <2>4. Task(h)' = Task(h)
    BY <1>2, <1>5, <1>6 DEF Task, File
  <2>5. Visible(job'[h].row) => job'[h].row = Task(h) /\ Task(h).status # "none"
    BY <1>1, <1>2, <1>5 DEF Visible
  <2>6. job'[h].at \notin FullSteps
    BY <1>2, <1>5, <1>7
  <2>7. Begins(Task(h).done, Task(h).done)
    BY <1>0, RowAt DEF Begins
  <2>8. FreshRows'
    <3>1. At(h, "part.save")' /\ Visible(job'[h].row)
             => Begins(Task(h)'.done, job'[h].row.done) /\ Task(h)'.status # "none"
      BY <2>4, <2>5, <2>7
    <3> QED BY <2>3, <2>6, <3>1 DEF FreshRows, Visible, Begins
  <2> QED BY <2>2, <2>8
<1> QED BY <1>6, <1>8, <1>9, <1>10, <1>11, <1>12, <1>13 DEF UploadInv

\* The holder of the mutex gives it back: no one else is affected.
LEMMA UnlockMutex ==
    ASSUME UploadInv, NEW h \in Handlers, At(h, "part.save"), Unlock(h), UNCHANGED instanceOf,
           job'[h].at \notin {"part.fetch", "part.save"},
           \A g \in Handlers : g # h => job'[g] = job[g]
    PROVE  /\ mu' \in [Instances -> Handlers \cup {"free"}]
           /\ PartMutex'
<1>0. TypeOK /\ instanceOf[h] \in Instances /\ mu[instanceOf[h]] = h
  BY InstanceAt DEF UploadInv, PartMutex, At
<1>1. mu' = [mu EXCEPT ![instanceOf[h]] = "free"]
  BY <1>0 DEF Unlock
<1>2. mu' \in [Instances -> Handlers \cup {"free"}]
  BY <1>0, <1>1 DEF TypeOK
<1>3. ASSUME NEW g \in Handlers, g # h, job[g].at \in {"part.fetch", "part.save"}
      PROVE  mu'[instanceOf[g]] = g
  <2>1. mu[instanceOf[g]] = g /\ instanceOf[g] \in Instances
    BY <1>0, <1>3, InstanceAt DEF UploadInv, PartMutex
  <2>2. instanceOf[g] # instanceOf[h]
    BY <1>0, <1>3, <2>1
  <2> QED BY <1>0, <1>1, <2>1, <2>2 DEF TypeOK
<1> QED BY <1>2, <1>3 DEF PartMutex

\* Handler h writes row t over that of its file, and leaves the section and
\* any completion.
LEMMA SaveKeeps ==
    ASSUME UploadInv, NEW h \in Handlers, NEW t \in Rows, Once(t.done),
           tasks' = [tasks EXCEPT ![File(h)] = t],
           UNCHANGED <<engineVars, files, quota, orphan, engine, instanceOf>>,
           calls' \in Nat, faults' \in Nat,
           \/ Return(h)
           \/ job[h].at = "init.create" /\ Goto(h, "init.store"),
           mu' \in [Instances -> Handlers \cup {"free"}], PartMutex',
           reported' \subseteq Files \X Numbers,
           Alone => /\ Visible(t)
                    /\ Task(h).status # "none" => Kept(Task(h).done, t.done)
                    /\ \A g \in Handlers : g # h /\ At(g, "part.save") /\ Visible(job[g].row)
                          /\ File(g) = File(h) => Begins(t.done, job[g].row.done)
                    /\ reported' \subseteq reported \cup {<<File(h), p>> : p \in Recorded(t)}
    PROVE  UploadInv'
<1>0. TypeOK /\ File(h) \in Files /\ Task(h) = tasks[File(h)] /\ Once(job[h].row.done)
  BY JobAt DEF UploadInv, Task, NoRepeats
<1> PICK f \in Files : f = File(h)
  BY <1>0
<1>1. /\ job' \in [Handlers -> Jobs]
      /\ job'[h].at \in {"idle", "init.store"} /\ Once(job'[h].row.done)
      /\ \A g \in Handlers : g # h => job'[g] = job[g]
  <2>1. CASE Return(h)
    BY <1>0, <2>1, ReturnJob, NoRowType
  <2>2. CASE Goto(h, "init.store")
    BY <1>0, <2>2, GotoJob DEF Steps
  <2> QED BY <2>1, <2>2
<1>2. \A s \in {"idle", "init.store"} : s \notin FullSteps /\ s \notin LocalSteps /\ s \notin MergedSteps
  BY DEF FullSteps, LocalSteps, MergedSteps, DoneSteps
<1>3. /\ tasks' \in [Files -> Rows] /\ tasks'[f] = t
      /\ \A k \in Files : k # f => tasks'[k] = tasks[k]
  BY <1>0 DEF TypeOK
<1>4. TypeOK'
  BY <1>0, <1>1, <1>3 DEF TypeOK, EngineTypeOK, engineVars, Jobs, Steps
<1>5. NoRepeats'
  <2>1. \A k \in Files : Once(tasks'[k].done)
    BY <1>3 DEF UploadInv, NoRepeats
  <2>2. \A g \in Handlers : Once(job'[g].row.done)
    BY <1>1 DEF UploadInv, NoRepeats
  <2> QED BY <2>1, <2>2 DEF NoRepeats
<1>6. FullRows'
  BY <1>1, <1>2 DEF UploadInv, FullRows
<1>7. LocalOnly'
  BY <1>1, <1>2 DEF UploadInv, LocalOnly
<1>8. engine = "minio" => MergedWhole'
  BY <1>1, <1>2, MergedSame DEF engineVars
<1>9. Alone' => Alone
  BY DEF Alone, OneProcess
<1>10. ASSUME Alone PROVE FreshRows' /\ Accounted'
  <2>0. /\ FreshRows /\ Accounted /\ Visible(t) /\ t.status # "none"
        /\ tasks[f].status # "none" => Kept(tasks[f].done, t.done)
    BY <1>0, <1>10 DEF UploadInv, Visible
  <2>1. tasks[f] \in Rows /\ tasks[f].done \in Seq(Numbers) /\ t.done \in Seq(Numbers)
    BY <1>0, RowAt DEF TypeOK
  <2>2. ASSUME NEW g \in Handlers, g # h, At(g, "part.save"), Visible(job[g].row)
        PROVE  /\ Begins(tasks'[File(g)].done, job[g].row.done)
               /\ tasks'[File(g)].status # "none"
    <3>1. /\ Begins(tasks[File(g)].done, job[g].row.done)
          /\ tasks[File(g)].status # "none" /\ File(g) \in Files
      BY <1>0, <2>0, <2>2, JobAt DEF FreshRows, Task
    <3>2. CASE File(g) = f
      BY <1>3, <1>10, <2>0, <2>2, <3>2
    <3>3. CASE File(g) # f
      BY <1>3, <3>1, <3>3
    <3> QED BY <3>2, <3>3
  <2>3. ASSUME NEW g \in Handlers, g # h, job[g].at \in FullSteps
        PROVE  Begins(job[g].row.done, tasks'[File(g)].done) /\ tasks'[File(g)].status # "none"
    <3>1. /\ Begins(job[g].row.done, tasks[File(g)].done) /\ Len(job[g].row.done) = Total
          /\ job[g].row.done \in Seq(Numbers)
          /\ tasks[File(g)].status # "none" /\ File(g) \in Files
      BY <1>0, <2>0, <2>3, JobAt, RowAt DEF FreshRows, Task, UploadInv, FullRows
    <3>2. CASE File(g) = f
      <4>1. Begins(job[g].row.done, t.done)
        BY <2>0, <2>1, <3>1, <3>2, KeptBegins
      <4> QED BY <1>3, <2>0, <3>2, <4>1
    <3>3. CASE File(g) # f
      BY <1>3, <3>1, <3>3
    <3> QED BY <3>2, <3>3
  <2>4. \A g \in Handlers : g # h => Task(g)' = tasks'[File(g)]
    BY <1>1 DEF Task, File
  <2>5. ~At(h, "part.save")' /\ job'[h].at \notin FullSteps
    BY <1>1, <1>2 DEF At
  <2>6. FreshRows'
    <3>1. ASSUME NEW g \in Handlers
          PROVE  /\ At(g, "part.save")' /\ Visible(job'[g].row)
                     => Begins(Task(g)'.done, job'[g].row.done) /\ Task(g)'.status # "none"
                 /\ job'[g].at \in FullSteps => Begins(job'[g].row.done, Task(g)'.done) /\ Task(g)'.status # "none"
      BY <1>1, <2>2, <2>3, <2>4, <2>5 DEF At
    <3> QED BY <3>1 DEF FreshRows, Visible, Begins
  <2>7. Accounted'
    <3>1. ASSUME NEW k \in Files, NEW p \in Chunks, <<k, p>> \in reported', <<k, p>> \notin orphan
          PROVE  Visible(tasks'[k]) /\ Accounts(tasks'[k], p)
      <4>1. CASE <<k, p>> \in reported
        <5>1. Visible(tasks[k]) /\ Accounts(tasks[k], p)
          BY <2>0, <3>1, <4>1 DEF Accounted
        <5>2. CASE k = f
          <6>1. Kept(tasks[f].done, t.done)
            BY <2>0, <5>1, <5>2 DEF Visible
          <6> QED BY <1>3, <2>0, <2>1, <5>1, <5>2, <6>1, KeptAccounts
        <5>3. CASE k # f
          BY <1>3, <5>1, <5>3
        <5> QED BY <5>2, <5>3
      <4>2. CASE <<k, p>> \in {<<File(h), q>> : q \in Recorded(t)}
        BY <1>3, <2>0, <4>2 DEF Accounts
      <4> QED BY <1>10, <3>1, <4>1, <4>2
    <3> QED BY <3>1 DEF Accounted, Visible, Accounts, Recorded, StrayCounted
  <2> QED BY <2>6, <2>7
<1> QED BY <1>4, <1>5, <1>6, <1>7, <1>8, <1>9, <1>10 DEF UploadInv

\* Nobody's mutex changes.
LEMMA SameMutex ==
    ASSUME UploadInv, UNCHANGED <<mu, instanceOf>>, NEW h \in Handlers,
           job'[h].at \notin {"part.fetch", "part.save"},
           \A g \in Handlers : g # h => job'[g] = job[g]
    PROVE  mu' \in [Instances -> Handlers \cup {"free"}] /\ PartMutex'
BY DEF UploadInv, TypeOK, PartMutex

LEMMA InitCreateKeeps ==
    ASSUME UploadInv, NEW h \in Handlers, InitCreate(h) PROVE UploadInv'
<1>0. /\ TypeOK /\ User(h) \in Users /\ "init.store" \in Steps
      /\ "init.store" \in Steps \ (FullSteps \cup {"part.fetch", "part.save", "init.delete"})
  BY JobAt DEF UploadInv, Steps, FullSteps, DoneSteps
<1>1. /\ calls' \in Nat /\ faults' \in Nat /\ UNCHANGED <<engineVars, files, quota, orphan, mu, restVars>>
  BY <1>0, Counts DEF InitCreate, Quiet
<1>2. CASE UNCHANGED tasks /\ Return(h)
  BY <1>1, <1>2, GoOnKeeps DEF dbVars
<1>3. CASE /\ Task(h).status = "none" /\ Goto(h, "init.store")
           /\ tasks' = [tasks EXCEPT ![File(h)] =
                           [status |-> "uploading", owner |-> User(h), done |-> <<>>]]
  <2> DEFINE t == [status |-> "uploading", owner |-> User(h), done |-> <<>>]
  <2>1. t \in Rows /\ Once(t.done) /\ Visible(t) /\ t.done = <<>>
    BY <1>0 DEF Rows, Once, Visible
  <2>2. tasks' = [tasks EXCEPT ![File(h)] = t]
    BY <1>3
  <2> HIDE DEF t
  <2>3. /\ mu' \in [Instances -> Handlers \cup {"free"}] /\ PartMutex'
    BY <1>0, <1>1, <1>3, GotoJob, SameMutex DEF restVars
  <2>4. reported' \subseteq Files \X Numbers /\ reported' = reported
    BY <1>0, <1>1 DEF TypeOK, restVars
  <2>5. job[h].at = "init.create"
    BY DEF InitCreate, At
  <2>6. ASSUME Alone, NEW g \in Handlers, At(g, "part.save"), Visible(job[g].row)
        PROVE  Begins(t.done, job[g].row.done)
    <3>1. t.done = <<>> /\ job[g].row.done \in Seq(Numbers)
      BY <1>0, <2>1, JobAt, RowAt
    <3> QED BY <3>1 DEF Begins
  <2> QED BY <1>1, <1>3, <2>1, <2>2, <2>3, <2>4, <2>5, <2>6, SaveKeeps DEF restVars
<1> QED BY <1>2, <1>3 DEF InitCreate

\* MinIO refuses no upload: no task is deleted while the chunks are in it.
LEMMA InitDeleteKeeps ==
    ASSUME UploadInv, NEW h \in Handlers, InitDelete(h) PROVE UploadInv'
<1>0. TypeOK /\ Task(h) \in Rows /\ File(h) \in Files /\ Task(h) = tasks[File(h)] /\ Once(Task(h).done)
  BY JobAt DEF UploadInv, NoRepeats, Task
<1>1. /\ calls' \in Nat /\ faults' \in Nat /\ Return(h)
      /\ UNCHANGED <<engineVars, files, quota, orphan, mu, restVars>>
  BY <1>0, Counts DEF InitDelete, Fault
<1>2. ~Alone
  BY DEF InitDelete, At, UploadInv, LocalOnly, LocalSteps, Alone, OneProcess
<1>3. CASE UNCHANGED tasks
  BY <1>1, <1>3, GoOnKeeps DEF dbVars
<1>4. CASE tasks' = [tasks EXCEPT ![File(h)].status = IF Visible(Task(h)) THEN "deleted" ELSE @]
  <2> DEFINE s == IF Visible(Task(h)) THEN "deleted" ELSE Task(h).status
             t == [Task(h) EXCEPT !.status = s]
  <2>1. s \in {"none", "deleted", "uploading", "completed"}
    BY <1>0, RowAt
  <2>2. tasks' = [tasks EXCEPT ![File(h)] = t]
    BY <1>0, <1>4
  <2> HIDE DEF s
  <2>3. t \in Rows /\ t.done = Task(h).done
    BY <1>0, <2>1 DEF Rows
  <2> HIDE DEF t
  <2>4. /\ mu' \in [Instances -> Handlers \cup {"free"}] /\ PartMutex'
    BY <1>0, <1>1, ReturnJob, SameMutex DEF restVars
  <2>5. reported' \subseteq Files \X Numbers
    BY <1>0, <1>1 DEF TypeOK, restVars
  <2> QED BY <1>0, <1>1, <1>2, <2>2, <2>3, <2>4, <2>5, SaveKeeps DEF restVars
<1> QED BY <1>3, <1>4 DEF InitDelete

\* The row saved is the one fetched under the mutex, with one chunk more.
LEMMA PartSaveKeeps ==
    ASSUME UploadInv, NEW h \in Handlers, PartSave(h) PROVE UploadInv'
<1> DEFINE t == WithPart(job[h].row, job[h].part)
<1>0. /\ TypeOK /\ job[h].row \in Rows /\ job[h].part \in Numbers /\ File(h) \in Files
      /\ Once(job[h].row.done) /\ job[h].at = "part.save"
  BY JobAt DEF UploadInv, NoRepeats, PartSave, At
<1>1. /\ calls' \in Nat /\ faults' \in Nat /\ Return(h) /\ Unlock(h) /\ Visible(job[h].row)
      /\ UNCHANGED <<engineVars, files, quota, orphan, engine, instanceOf>>
      /\ tasks' = [tasks EXCEPT ![File(h)] = t]
      /\ reported' = reported \cup {<<File(h), job[h].part>>}
  BY <1>0, Counts DEF PartSave
<1>2. /\ t \in Rows /\ t.status = job[h].row.status /\ Once(t.done)
      /\ Begins(job[h].row.done, t.done) /\ job[h].part \in Recorded(t)
  BY <1>0, WithPartRow
<1> HIDE DEF t
<1>3. /\ mu' \in [Instances -> Handlers \cup {"free"}] /\ PartMutex'
  BY <1>0, <1>1, ReturnJob, UnlockMutex DEF At
<1>4. reported' \subseteq Files \X Numbers
  BY <1>0, <1>1 DEF TypeOK
<1>5. ASSUME Alone
      PROVE  /\ Visible(t) /\ Kept(Task(h).done, t.done)
             /\ \A g \in Handlers : g # h => ~At(g, "part.save")
             /\ reported' \subseteq reported \cup {<<File(h), p>> : p \in Recorded(t)}
  <2>1. Visible(t)
    BY <1>1, <1>2 DEF Visible
  <2>2. Kept(Task(h).done, t.done)
    <3>1. Begins(Task(h).done, job[h].row.done)
      BY <1>0, <1>1, <1>5 DEF UploadInv, FreshRows, At
    <3> QED BY <1>0, <1>2, <3>1, JobAt, RowAt, BeginsTrans DEF Kept
  <2>3. ASSUME NEW g \in Handlers, g # h, At(g, "part.save") PROVE FALSE
    <3>1. mu[instanceOf[g]] = g /\ mu[instanceOf[h]] = h
      BY <1>0, <2>3 DEF UploadInv, PartMutex, At
    <3>2. instanceOf[g] = instanceOf[h]
      BY <1>5 DEF Alone, OneProcess
    <3> QED BY <2>3, <3>1, <3>2
  <2> QED BY <1>1, <1>2, <2>1, <2>2, <2>3
<1> QED BY <1>1, <1>2, <1>3, <1>4, <1>5, SaveKeeps

\* The row of a completion is the beginning of the recorded list.
LEMMA DoneSaveKeeps ==
    ASSUME UploadInv, NEW h \in Handlers, DoneSave(h) PROVE UploadInv'
<1> DEFINE t == [job[h].row EXCEPT !.status = "completed"]
<1>0. /\ TypeOK /\ job[h].row \in Rows /\ File(h) \in Files
      /\ Once(job[h].row.done) /\ job[h].at \in FullSteps
  BY JobAt DEF UploadInv, NoRepeats, DoneSave, At, FullSteps, DoneSteps
<1>1. /\ calls' \in Nat /\ faults' \in Nat /\ Return(h)
      /\ UNCHANGED <<engineVars, files, quota, orphan, mu, restVars>>
  BY <1>0, Counts DEF DoneSave, Fault
<1>2. t \in Rows /\ t.status = "completed" /\ t.done = job[h].row.done
  BY <1>0 DEF Rows
<1>3. CASE UNCHANGED tasks
  BY <1>1, <1>3, GoOnKeeps DEF dbVars
<1>4. CASE tasks' = [tasks EXCEPT ![File(h)] = t]
  <2> HIDE DEF t
  <2>1. /\ mu' \in [Instances -> Handlers \cup {"free"}] /\ PartMutex'
    BY <1>0, <1>1, ReturnJob, SameMutex DEF restVars
  <2>2. reported' \subseteq Files \X Numbers /\ reported' = reported
    BY <1>0, <1>1 DEF TypeOK, restVars
  <2>3. Len(t.done) = Total /\ t.done \in Seq(Numbers)
    BY <1>0, <1>2, RowAt DEF UploadInv, FullRows
  <2>4. ASSUME Alone
        PROVE  /\ Visible(t) /\ Kept(Task(h).done, t.done)
               /\ \A g \in Handlers : g # h /\ At(g, "part.save") /\ Visible(job[g].row)
                     /\ File(g) = File(h) => Begins(t.done, job[g].row.done)
    <3>1. Begins(t.done, Task(h).done) /\ FreshRows
      BY <1>0, <1>2, <2>4 DEF UploadInv, FreshRows
    <3>2. ASSUME NEW g \in Handlers, At(g, "part.save"), Visible(job[g].row), File(g) = File(h)
          PROVE  Begins(t.done, job[g].row.done)
      <4>1. Task(g) = Task(h) /\ Begins(Task(g).done, job[g].row.done)
        BY <3>1, <3>2 DEF Task, FreshRows
      <4>2. job[g].row.done \in Seq(Numbers) /\ Task(h).done \in Seq(Numbers)
        BY <1>0, JobAt, RowAt
      <4> QED BY <2>3, <3>1, <4>1, <4>2, BeginsTrans
    <3> QED BY <1>2, <2>3, <3>1, <3>2 DEF Visible, Kept
  <2> QED BY <1>0, <1>1, <1>2, <1>4, <2>1, <2>2, <2>4, SaveKeeps DEF restVars
<1> QED BY <1>3, <1>4 DEF DoneSave

\* Nothing is saved, or a row that is no task.
LEMMA PartEndKeeps ==
    ASSUME UploadInv, NEW h \in Handlers, PartSaveZero(h) \/ PartSaveFails(h) PROVE UploadInv'
<1>0. /\ TypeOK /\ job[h].part \in Numbers /\ File(h) \in Files /\ job[h].at = "part.save"
  BY JobAt DEF UploadInv, PartSaveZero, PartSaveFails, At
<1>1. /\ calls' \in Nat /\ faults' \in Nat /\ Return(h) /\ Unlock(h)
      /\ UNCHANGED <<engineVars, tasks, files, quota, engine, instanceOf>>
  BY <1>0, Counts DEF PartSaveZero, PartSaveFails, dbVars, restVars, Fault
<1>2. /\ orphan' \subseteq Files \X Numbers /\ reported' \subseteq Files \X Numbers
      /\ reported' \ orphan' \subseteq reported \ orphan
  <2>1. CASE orphan = {} /\ orphan' = {<<File(h), job[h].part>>} /\ reported' = reported \cup orphan'
    BY <1>0, <2>1 DEF TypeOK
  <2>2. CASE UNCHANGED <<orphan, reported>>
    BY <1>0, <2>2 DEF TypeOK
  <2> QED BY <2>1, <2>2 DEF PartSaveZero, PartSaveFails, dbVars, restVars
<1>3. /\ job' \in [Handlers -> Jobs] /\ job'[h].at = "idle" /\ job'[h].row = NoRow
      /\ \A g \in Handlers : g # h => job'[g] = job[g]
  BY <1>0, <1>1, ReturnJob
<1>4. "idle" \notin FullSteps /\ "idle" \notin LocalSteps /\ "idle" \notin MergedSteps
  BY DEF FullSteps, LocalSteps, MergedSteps, DoneSteps
<1>5. /\ mu' \in [Instances -> Handlers \cup {"free"}] /\ PartMutex'
  BY <1>0, <1>1, <1>3, UnlockMutex DEF At
<1>6. TypeOK'
  BY <1>0, <1>1, <1>2, <1>3, <1>5 DEF TypeOK, EngineTypeOK, engineVars, Jobs, Steps
<1>7. NoRepeats'
  BY <1>1, <1>3, NoRowType DEF UploadInv, NoRepeats
<1>8. FullRows' /\ LocalOnly'
  BY <1>1, <1>3, <1>4 DEF UploadInv, FullRows, LocalOnly
<1>9. engine = "minio" => MergedWhole'
  BY <1>1, <1>3, <1>4, MergedSame DEF engineVars
<1>10. Alone' => Alone
  BY <1>1 DEF Alone, OneProcess
<1>11. ASSUME Alone PROVE FreshRows' /\ Accounted'
  <2>1. FreshRows /\ Accounted
    BY <1>11 DEF UploadInv
  <2>2. Accounted'
    BY <1>1, <1>2, <2>1 DEF Accounted, Accounts, StrayCounted, Visible, Recorded
  <2>3. \A g \in Handlers : g # h => Task(g)' = Task(g)
    BY <1>1, <1>3 DEF Task, File
  <2>4. FreshRows'
    BY <1>3, <1>4, <2>1, <2>3 DEF FreshRows, At, Visible, Begins
  <2> QED BY <2>2, <2>4
<1> QED BY <1>1, <1>5, <1>6, <1>7, <1>8, <1>9, <1>10, <1>11 DEF UploadInv

-----------------------------------------------------------------------------
(* The theorems. *)

LEMMA CrashKeeps ==
    ASSUME UploadInv, NEW i \in Instances, Crash(i) PROVE UploadInv'
<1>0. TypeOK
  BY DEF UploadInv
<1>1. /\ calls' \in Nat /\ faults' \in Nat
      /\ UNCHANGED <<tasks, files, quota, orphan, parts, merged, engine, instanceOf, reported>>
      /\ cleanup' \subseteq cleanup /\ mu' = [mu EXCEPT ![i] = "free"]
  BY <1>0, Counts DEF Crash, dbVars, restVars, Fault
<1>2. /\ job' \in [Handlers -> Jobs]
      /\ \A g \in Handlers : job'[g] = Idle \/ (job'[g] = job[g] /\ instanceOf[g] # i)
  BY <1>0, IdleType, JobAt DEF Crash
<1>3. mu' \in [Instances -> Handlers \cup {"free"}]
  BY <1>0, <1>1 DEF TypeOK
<1>4. TypeOK'
  BY <1>0, <1>1, <1>2, <1>3 DEF TypeOK, EngineTypeOK, Jobs, Steps
<1>5. /\ Idle.at = "idle" /\ "idle" \notin FullSteps /\ "idle" \notin LocalSteps
      /\ "idle" \notin MergedSteps /\ Once(Idle.row.done)
  BY IdleType, NoRowType DEF FullSteps, LocalSteps, MergedSteps, DoneSteps
<1>6. NoRepeats'
  BY <1>1, <1>2, <1>5 DEF UploadInv, NoRepeats
<1>7. FullRows'
  BY <1>2, <1>5 DEF UploadInv, FullRows
<1>8. LocalOnly'
  BY <1>1, <1>2, <1>5 DEF UploadInv, LocalOnly
<1>9. ASSUME engine = "minio" PROVE MergedWhole'
  <2>1. \A f : Whole(f)' = Whole(f)
    BY <1>1 DEF Whole, Once
  <2>2. \A f \in files' : Whole(f)'
    BY <1>1, <1>9, <2>1 DEF UploadInv, MergedWhole
  <2>3. ASSUME NEW g \in Handlers, job'[g].at \in MergedSteps PROVE Whole(File(g))'
    <3>1. job'[g] = job[g]
      BY <1>2, <1>5, <2>3
    <3>2. Whole(File(g))
      BY <1>9, <2>3, <3>1 DEF UploadInv, MergedWhole
    <3> QED BY <1>1, <3>1, <3>2 DEF Whole, File
  <2> QED BY <2>2, <2>3 DEF MergedWhole
<1>10. PartMutex'
  <2>1. ASSUME NEW g \in Handlers, job'[g].at \in {"part.fetch", "part.save"}
        PROVE  mu'[instanceOf[g]] = g
    <3>1. job'[g] = job[g] /\ instanceOf[g] # i /\ instanceOf[g] \in Instances
      BY <1>0, <1>2, <1>5, <2>1, InstanceAt
    <3>2. mu[instanceOf[g]] = g
      BY <2>1, <3>1 DEF UploadInv, PartMutex
    <3> QED BY <1>0, <1>1, <3>1, <3>2 DEF TypeOK
  <2> QED BY <1>1, <2>1 DEF PartMutex
<1>11. Alone' => Alone
  BY <1>1 DEF Alone, OneProcess
<1>12. ASSUME Alone PROVE FreshRows' /\ Accounted'
  <2>1. FreshRows /\ Accounted
    BY <1>12 DEF UploadInv
  <2>2. Accounted'
    BY <1>1, <2>1 DEF Accounted, Accounts, StrayCounted, Visible, Recorded
  <2>3. \A g \in Handlers : job'[g] = job[g] => Task(g)' = Task(g)
    BY <1>1 DEF Task, File
  <2>4. \A g \in Handlers : job'[g] = Idle => job'[g].at \notin FullSteps /\ ~At(g, "part.save")'
    BY <1>5 DEF At
  <2>5. FreshRows'
    <3>1. ASSUME NEW g \in Handlers
          PROVE  /\ At(g, "part.save")' /\ Visible(job'[g].row)
                     => Begins(Task(g)'.done, job'[g].row.done) /\ Task(g)'.status # "none"
                 /\ job'[g].at \in FullSteps => Begins(job'[g].row.done, Task(g)'.done) /\ Task(g)'.status # "none"
      <4>1. CASE job'[g] = Idle
        BY <2>4, <4>1
      <4>2. CASE job'[g] = job[g]
        BY <2>1, <2>3, <4>2 DEF FreshRows, At
      <4> QED BY <1>2, <4>1, <4>2
    <3> QED BY <3>1 DEF FreshRows, Visible, Begins
  <2> QED BY <2>2, <2>5
<1> QED BY <1>1, <1>4, <1>6, <1>7, <1>8, <1>9, <1>10, <1>11, <1>12 DEF UploadInv

LEMMA UploadInvInit == Init => UploadInv
<1> SUFFICES ASSUME Init PROVE UploadInv
  OBVIOUS
<1>1. /\ parts = [f \in Files |-> {}] /\ merged = [f \in Files |-> <<>>] /\ cleanup = {}
      /\ tasks = [f \in Files |-> NoRow] /\ files = {} /\ orphan = {} /\ reported = {}
      /\ job = [h \in Handlers |-> Idle]
  BY DEF Init, EngineInit
<1>2. TypeOK
  <2>1. EngineTypeOK(Instances)
    BY <1>1 DEF EngineTypeOK
  <2>2. tasks \in [Files -> Rows] /\ job \in [Handlers -> Jobs]
    BY <1>1, NoRowType, IdleType
  <2>3. quota \in [Users -> Int] /\ calls \in Nat /\ faults \in Nat
    BY QuotaAssumption DEF Init
  <2>4. mu \in [Instances -> Handlers \cup {"free"}] /\ engine \in Engines /\ instanceOf \in Placements
    BY DEF Init
  <2> QED BY <1>1, <2>1, <2>2, <2>3, <2>4 DEF TypeOK, Jobs, Steps
<1>3. \A h \in Handlers : /\ job[h].at = "idle" /\ Once(job[h].row.done)
                         /\ job[h].at \notin FullSteps /\ job[h].at \notin LocalSteps
                         /\ job[h].at \notin MergedSteps
  BY <1>1, IdleType, NoRowType DEF FullSteps, LocalSteps, MergedSteps, DoneSteps
<1>4. NoRepeats
  BY <1>1, <1>3, NoRowType DEF NoRepeats
<1> QED BY <1>1, <1>2, <1>3, <1>4 DEF UploadInv, FullRows, MergedWhole, PartMutex, LocalOnly,
        FreshRows, Accounted, At

LEMMA UploadInvStep == UploadInv /\ [Next]_vars => UploadInv'
<1> SUFFICES ASSUME UploadInv, [Next]_vars PROVE UploadInv'
  OBVIOUS
<1>1. ASSUME NEW h \in Handlers, Advance(h) PROVE UploadInv'
  BY <1>1, LooksKeep, InitCreateKeeps, InitStoreKeeps, InitDeleteKeeps, PartStoreKeeps,
     PartFetchKeeps, PartSaveKeeps, PartEndKeeps, DoneGetKeeps, DoneStoreKeeps, LocalKeeps,
     ChargeKeeps, DoneSaveKeeps DEF Advance
<1>2. ASSUME NEW h \in Handlers, Request(h) \/ PartLock(h) \/ QueryFails(h) \/ PartSaveFails(h)
      PROVE  UploadInv'
  BY <1>2, RequestKeeps, PartLockKeeps, LooksKeep, PartEndKeeps
<1>3. CASE UNCHANGED vars
  <2>1. UNCHANGED <<parts, cleanup, calls, faults, dbVars, mu, job, restVars, merged>>
    BY <1>3 DEF vars, engineVars
  <2>2. TypeOK'
    BY <2>1 DEF UploadInv, TypeOK, EngineTypeOK, dbVars, restVars
  <2> QED BY <2>1, <2>2, SameKeeps
<1> QED BY <1>1, <1>2, <1>3, CrashKeeps, CleanupKeeps DEF Next

LEMMA UploadInvAlways == Spec => []UploadInv
<1> QED BY UploadInvInit, UploadInvStep, PTL DEF Spec

\* Every variable stays in its domain.
THEOREM UploadTypeAlways == Spec => []TypeOK
<1>1. UploadInv => TypeOK
  BY DEF UploadInv
<1> QED BY <1>1, UploadInvAlways, PTL

\* In one storage process a chunk of the file answered 200 is missing from its
\* task only if it went into the zero row or a number above Total was counted in
\* its place: partMu orders the saves of UploadPart, and a completion writes back
\* the first Total numbers of the list.
THEOREM ReportedAlways == Spec => []ReportedIsAccountedFor
<1>1. UploadInv => ReportedIsAccountedFor
  BY DEF UploadInv, ReportedIsAccountedFor, Alone, OneProcess, Accounted, Accounts
<1> QED BY <1>1, UploadInvAlways, PTL

\* However many processes race, what CompleteUpload records as stored in MinIO
\* is merged from Total parts, none twice, and lacks a chunk only if it has a
\* number above Total.
THEOREM MergedOnceAlways == Spec => []MergedOnce
<1>1. ASSUME UploadInv, engine = "minio", NEW f \in files
      PROVE  /\ Len(merged[f]) = Total /\ Once(merged[f])
             /\ \A p \in Chunks :
                   \E i \in DOMAIN merged[f] : merged[f][i] \in {p} \cup (Numbers \ Chunks)
  <2>1. Whole(f) /\ merged[f] \in Seq(Numbers) /\ DOMAIN merged[f] = Chunks
    BY <1>1, ChunksType DEF UploadInv, TypeOK, EngineTypeOK, MergedWhole, Whole, Chunks
  <2>2. \A i \in DOMAIN merged[f] : merged[f][i] \in Numbers
    BY <2>1
  <2>3. CASE \A i \in Chunks : merged[f][i] \in Chunks
    <3>1. {merged[f][i] : i \in DOMAIN merged[f]} = Chunks
      BY <2>1, <2>3, Pigeonhole DEF Whole
    <3> QED BY <2>1, <3>1 DEF Whole
  <2>4. CASE \E i \in Chunks : merged[f][i] \notin Chunks
    BY <2>1, <2>2, <2>4 DEF Whole
  <2> QED BY <2>3, <2>4
<1>2. UploadInv => MergedOnce
  BY <1>1 DEF MergedOnce, Once
<1> QED BY <1>2, UploadInvAlways, PTL

\* So with MinIO it is the whole file if no client sends a number above Total.
THEOREM WholeAlways ==
    ASSUME Numbers = Chunks
    PROVE  Spec => [](engine = "minio" => FileIsWhole)
<1>1. ASSUME UploadInv, engine = "minio", NEW f \in files
      PROVE  Len(merged[f]) = Total /\ {merged[f][i] : i \in DOMAIN merged[f]} = Chunks
  <2>1. Whole(f) /\ merged[f] \in Seq(Numbers) /\ DOMAIN merged[f] = Chunks
    BY <1>1, ChunksType DEF UploadInv, TypeOK, EngineTypeOK, MergedWhole, Whole, Chunks
  <2>2. \A i \in Chunks : merged[f][i] \in Chunks
    BY <2>1
  <2> QED BY <2>1, <2>2, Pigeonhole DEF Whole
<1>2. UploadInv => (engine = "minio" => FileIsWhole)
  BY <1>1 DEF FileIsWhole
<1> QED BY <1>2, UploadInvAlways, PTL

-----------------------------------------------------------------------------
(* The mutex is not left locked. *)

InSection(h) == job[h].at \in {"part.fetch", "part.save"}

\* A step of handler h that leaves the mutexes alone, when h is in the section
\* before and after, or before is not.
LEMMA OutsideHolds ==
    ASSUME TypeOK, LockIsHeld, NEW h \in Handlers, UNCHANGED <<mu, instanceOf>>,
           \A g \in Handlers : g # h => job'[g] = job[g],
           InSection(h) => InSection(h)'
    PROVE  LockIsHeld'
<1>1. ASSUME NEW i \in Instances, mu[i] # "free"
      PROVE  instanceOf[mu[i]] = i /\ job'[mu[i]].at \in {"part.fetch", "part.save"}
  <2>1. mu[i] \in Handlers /\ instanceOf[mu[i]] = i /\ InSection(mu[i])
    BY <1>1 DEF TypeOK, LockIsHeld, InSection
  <2> QED BY <2>1 DEF InSection
<1> QED BY <1>1 DEF LockIsHeld

\* The end of a save, successful or not, gives the mutex back.
LEMMA UnlockHolds ==
    ASSUME TypeOK, LockIsHeld, NEW h \in Handlers, Unlock(h), Return(h), UNCHANGED instanceOf
    PROVE  LockIsHeld'
<1>1. \A g \in Handlers : g # h => job'[g] = job[g]
  BY ReturnJob
<1>2. ASSUME NEW i \in Instances, mu'[i] # "free"
      PROVE  instanceOf[mu'[i]] = i /\ job'[mu'[i]].at \in {"part.fetch", "part.save"}
  <2>1. mu'[i] = mu[i] /\ (i = instanceOf[h] => mu[i] # h)
    BY <1>2 DEF Unlock, TypeOK
  <2>2. mu[i] \in Handlers /\ instanceOf[mu[i]] = i /\ InSection(mu[i])
    BY <1>2, <2>1 DEF TypeOK, LockIsHeld, InSection
  <2>3. mu[i] # h
    BY <2>1, <2>2
  <2> QED BY <1>1, <2>1, <2>2, <2>3 DEF InSection
<1> QED BY <1>2 DEF LockIsHeld

\* Steps of the calls that neither lock nor unlock.
LEMMA CallHolds ==
    ASSUME TypeOK, LockIsHeld, NEW h \in Handlers,
           \/ Request(h) \/ QueryFails(h) \/ InitUser(h) \/ InitFile(h) \/ InitTask(h)
           \/ InitCreate(h) \/ InitStore(h) \/ InitDelete(h) \/ PartGet(h) \/ PartStore(h)
           \/ DoneGet(h) \/ DoneStore(h) \/ DoneCreate(h) \/ DoneCopy(h) \/ DoneRemove(h)
           \/ DoneUser(h) \/ DoneCharge(h) \/ DoneFile(h) \/ DoneSave(h)
    PROVE  LockIsHeld'
<1>1. ~InSection(h) /\ UNCHANGED <<mu, instanceOf>>
  BY DEF InSection, Request, InitUpload, UploadPart, CompleteUpload, Begin, QueryFails, InitUser,
         InitFile, InitTask, InitCreate, InitStore, InitDelete, PartGet, PartStore, DoneGet, DoneStore,
         DoneCreate, DoneCopy, DoneRemove, DoneUser, DoneCharge, DoneFile, DoneSave, At, Quiet, restVars
<1>2. \E j : job' = [job EXCEPT ![h] = j]
  BY DEF Request, InitUpload, UploadPart, CompleteUpload, Begin, QueryFails, InitUser,
         InitFile, InitTask, InitCreate, InitStore, InitDelete, PartGet, PartStore, DoneGet, DoneStore,
         DoneCreate, DoneCopy, DoneRemove, DoneUser, DoneCharge, DoneFile, DoneSave, Goto, Return
<1>3. \A g \in Handlers : g # h => job'[g] = job[g]
  BY <1>2, JobAt
<1> QED BY <1>1, <1>3, OutsideHolds

\* LockIsHeld: every way out of UploadPart's critical section, error paths and
\* the end of the process included, gives partMu back.
THEOREM LockAlwaysHeld == Spec => []LockIsHeld
<1>1. Init => LockIsHeld
  BY DEF Init, LockIsHeld
<1>2. ASSUME TypeOK, LockIsHeld, [Next]_vars PROVE LockIsHeld'
  <2> USE <1>2
  <2>1. ASSUME NEW h \in Handlers, PartLock(h) PROVE LockIsHeld'
    <3>1. /\ instanceOf[h] \in Instances /\ mu' = [mu EXCEPT ![instanceOf[h]] = h]
          /\ ~InSection(h) /\ UNCHANGED instanceOf
      BY <2>1, InstanceAt DEF PartLock, At, InSection, Quiet, restVars
    <3>2. job'[h].at = "part.fetch" /\ \A g \in Handlers : g # h => job'[g] = job[g]
      BY <2>1, GotoJob DEF PartLock, Steps, PartSteps
    <3>3. ASSUME NEW i \in Instances, mu'[i] # "free"
          PROVE  instanceOf[mu'[i]] = i /\ job'[mu'[i]].at \in {"part.fetch", "part.save"}
      <4>1. CASE i = instanceOf[h]
        BY <3>1, <3>2, <4>1 DEF TypeOK
      <4>2. CASE i # instanceOf[h]
        <5>1. mu'[i] = mu[i] /\ mu[i] \in Handlers /\ instanceOf[mu[i]] = i /\ InSection(mu[i])
          BY <3>1, <3>3, <4>2 DEF TypeOK, LockIsHeld, InSection
        <5> QED BY <3>1, <3>2, <5>1 DEF InSection
      <4> QED BY <4>1, <4>2
    <3> QED BY <3>1, <3>3 DEF LockIsHeld
  <2>2. ASSUME NEW h \in Handlers, PartFetch(h) PROVE LockIsHeld'
    <3>1. PICK t : job' = [job EXCEPT ![h].at = "part.save", ![h].row = t]
      BY <2>2 DEF PartFetch
    <3>2. job[h] \in Jobs /\ job \in [Handlers -> Jobs]
      BY JobAt
    <3>3. job'[h].at = "part.save" /\ \A g \in Handlers : g # h => job'[g] = job[g]
      BY <3>1, <3>2 DEF Jobs
    <3> QED BY <2>2, <3>3, OutsideHolds DEF PartFetch, restVars, InSection
  <2>3. ASSUME NEW h \in Handlers, PartSave(h) \/ PartSaveZero(h) \/ PartSaveFails(h) PROVE LockIsHeld'
    BY <2>3, UnlockHolds DEF PartSave, PartSaveZero, PartSaveFails, restVars
  <2>4. ASSUME NEW i \in Instances, Crash(i) PROVE LockIsHeld'
    <3>1. mu' = [mu EXCEPT ![i] = "free"] /\ UNCHANGED instanceOf
          /\ \A h \in Handlers : instanceOf[h] # i => job'[h] = job[h]
      BY <2>4 DEF Crash, restVars
    <3>2. ASSUME NEW k \in Instances, mu'[k] # "free"
          PROVE  instanceOf[mu'[k]] = k /\ job'[mu'[k]].at \in {"part.fetch", "part.save"}
      <4>1. k # i /\ mu'[k] = mu[k]
        BY <3>1, <3>2 DEF TypeOK
      <4>2. mu[k] \in Handlers /\ instanceOf[mu[k]] = k /\ InSection(mu[k])
        BY <3>2, <4>1 DEF TypeOK, LockIsHeld, InSection
      <4> QED BY <3>1, <4>1, <4>2 DEF InSection
    <3> QED BY <3>1, <3>2 DEF LockIsHeld
  <2>5. ASSUME UNCHANGED <<mu, instanceOf, job>> PROVE LockIsHeld'
    BY <2>5 DEF LockIsHeld
  <2>6. CASE UNCHANGED vars
    BY <2>5, <2>6 DEF vars, restVars
  <2>7. ASSUME NEW i \in Instances, NEW f \in Files, NEW p \in Numbers, Cleanup(i, f, p)
        PROVE  LockIsHeld'
    BY <2>5, <2>7 DEF Cleanup, restVars
  <2> QED BY <2>1, <2>2, <2>3, <2>4, <2>6, <2>7, CallHolds DEF Next, Advance
<1> QED BY <1>1, <1>2, UploadTypeAlways, PTL DEF Spec

=============================================================================
