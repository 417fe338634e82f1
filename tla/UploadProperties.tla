-------------------------- MODULE UploadProperties --------------------------
(***************************************************************************)
(* Properties of the chunked upload modelled in FileService.               *)
(***************************************************************************)
EXTENDS FileService

\* Every variable stays in its domain.
TypeOK ==
    /\ EngineTypeOK(Instances)
    /\ tasks \in [Files -> Rows]
    /\ files \subseteq Files
    /\ quota \in [Users -> Int]
    /\ orphan \subseteq Files \X Numbers
    /\ mu \in [Instances -> Handlers \cup {"free"}]
    /\ job \in [Handlers ->
                  [at : {"idle", "init.user", "init.file", "init.task", "init.create",
                         "init.store", "init.delete"} \cup PartSteps \cup DoneSteps,
                   file : Files, user : Users, part : Numbers,
                   row : Rows, balance : Int, copied : Nat]]
    /\ calls \in Nat /\ faults \in Nat
    /\ reported \subseteq Files \X Numbers
    /\ engine \in Engines
    /\ instanceOf \in Placements

-----------------------------------------------------------------------------
(* Chunks *)

\* A chunk whose upload was answered with 200 is recorded in the task from then
\* on: no whole-row Save of another handler takes it out again.
\* file_service.go:199 promises this of concurrent uploads.
NoLostUpdate ==
    \A fp \in reported : Visible(tasks[fp[1]]) /\ fp[2] \in Recorded(tasks[fp[1]])

OneProcess == \A g, h \in Handlers : instanceOf[g] = instanceOf[h]

\* Among the first Total numbers of the list, those that make it long enough to
\* be completed, is one that is no chunk of the file.
StrayCounted(t) == Total <= Len(t.done) /\ \E i \in Chunks : t.done[i] \notin Chunks

\* Where partMu orders all saves, because the handlers run in one process, and
\* with MinIO, a chunk of the file that was answered with 200 is missing from
\* the task in two cases only.  It went into the row with the empty upload id,
\* because the error of the second read is dropped (file_service.go:204); or the
\* file is completed without it, because a number above Total is accepted
\* (upload.go:91) and counted (file_service.go:235), and the completion saves its
\* own copy of the list without partMu (file_service.go:269).  Concurrent saves,
\* late chunks, second completions, errors and crashes lose no other.
ReportedIsAccountedFor ==
    engine = "minio" /\ OneProcess =>
        \A f \in Files, p \in Chunks : <<f, p>> \in reported =>
            \/ <<f, p>> \in orphan
            \/ Visible(tasks[f]) /\ (p \in Recorded(tasks[f]) \/ StrayCounted(tasks[f]))

\* With MinIO, while a file is neither stored nor being completed, every chunk
\* recorded for it has its part in the bucket, so that an upload resumed from
\* the recorded list can be completed.  (The local engine removes parts before
\* it knows that all of them can be read.)
RecordedIsStored ==
    engine = "minio" => \A f \in Files :
        \/ f \in files
        \/ \E h \in Handlers : Completing(h) /\ File(h) = f
        \/ Recorded(tasks[f]) \subseteq parts[f]

\* A stored file consists of all its chunks, each once.
FileIsWhole ==
    \A f \in files :
        /\ Len(merged[f]) = Total
        /\ {merged[f][i] : i \in DOMAIN merged[f]} = Chunks

\* With MinIO a stored file is merged from Total parts, none of them twice, and
\* a chunk it lacks has a number above Total in its place: CompleteUpload compares
\* lengths (file_service.go:235), and UploadPart accepts every positive number
\* (upload.go:91).
MergedOnce ==
    engine = "minio" => \A f \in files :
        /\ Len(merged[f]) = Total
        /\ \A i, j \in DOMAIN merged[f] : merged[f][i] = merged[f][j] => i = j
        /\ \A p \in Chunks : \E i \in DOMAIN merged[f] : merged[f][i] \in {p} \cup (Numbers \ Chunks)

\* A stored file has its chunks in order.
MergedInOrder ==
    \A f \in files : \A i \in DOMAIN merged[f] : merged[f][i] = i

-----------------------------------------------------------------------------
(* The ledger *)

\* A user has paid when the file he completes is stored; until then the
\* deduction is on its way.
Pending(u) == Cardinality({h \in Handlers : At(h, "done.file") /\ User(h) = u})

Ledger == INSTANCE UploadLedger WITH
    state <- [f \in Files |-> IF f \in files THEN "stored"
                              ELSE CASE tasks[f].status = "none" -> "absent"
                                     [] tasks[f].status = "deleted" -> "dropped"
                                     [] OTHER -> "open"],
    acked <- [f \in Files |-> Recorded(tasks[f])],
    spent <- [u \in Users |-> Quota - quota[u] - Total * Pending(u)]

\* With one storage process, orderly clients that send numbers up to Total and
\* failures only of the storage engine, the service implements the ledger.
LedgerSpec == Ledger!Spec

-----------------------------------------------------------------------------
(* The mutex *)

\* partMu is held only by a handler of its own process that is between fetch
\* and save, two steps from the unlock: no error path leaves it locked, no call
\* waits for MySQL of another process, and whoever waits waits for a handler
\* that runs.  That no two handlers hold one mutex is in mu's type.
LockIsHeld ==
    \A i \in Instances : mu[i] # "free" =>
        /\ instanceOf[mu[i]] = i
        /\ job[mu[i]].at \in {"part.fetch", "part.save"}

-----------------------------------------------------------------------------
(* Liveness *)

\* Every call returns: none waits for ever for partMu.
CallReturns == \A h \in Handlers : ~At(h, "idle") ~> At(h, "idle")
=============================================================================
