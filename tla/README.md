# Go-Cloud-System: formal models

TLA+ models of the services of this repository, the TLC runs that check them on small
instances, and TLAPS proofs of the results that matter most. Paths below are relative to
`src/`.

Contents: [the system](#the-system) · [modules](#modules) · [runs](#runs) ·
[fairness](#fairness) · [proofs](#proofs) · [findings](#findings) ·
[not modelled](#not-modelled) · [plan](#plan)

## The system

Four Go services behind an API gateway, with MySQL, Redis, RabbitMQ and MinIO. There are no
tests in the repository.

| component | state | operations | interacts with |
|---|---|---|---|
| **seckill** (`interaction/internal/service/lottery_service.go`, `internal/api/lottery_handler.go`) | Redis: stock counter, winner set; requests in flight | `DoSeckill`: Lua script, `GetChannel`, publish | Redis (atomic script), RabbitMQ (publish without confirms) |
| **AMQP connection and topology** (`interaction/internal/mq/rabbitmq.go`) | one global `Conn`, main queue + DLQ dead-lettering into each other | `InitRabbitMQ`, `GetChannel`, `Close` | closed by the shutdown hook, never dialled again |
| **DLQ monitor** (`interaction/internal/mq/dlq_monitor.go`) | deliveries held by retry goroutines, `x-retry-count` | consume, back off, republish, Ack; give up after 3 | same connection as the seckill |
| **quota consumer** (`storage/internal/mq/consumer.go`) | MySQL: `lottery_event_records`, `users.total_quota`; the delivery in hand | one transaction per event, Ack / Nack | main queue; its Nack feeds the DLQ |
| **graceful shutdown** (`pkg/graceful/graceful.go`) | hooks, HTTP server, done channel | run hooks, then `server.Shutdown`, then `close(done)` | seckill, DLQ monitor, gateway, web |
| **chunked upload** (`storage/internal/service/file_service.go`, `repository/`, `handler/upload.go`) | MySQL: `upload_tasks`, `files`, `users.quota`; the mutex `partMu` of each process | `UploadFile`, `InitUpload`, `UploadPart`, `CompleteUpload` | repositories (whole-row `Save`), storage engine |
| **storage engines** (`storage/internal/storage/local.go`, `minio.go`) | part files / objects, merged files | `Put`, `InitUpload`, `UploadPart`, `CompleteUpload`, `AbortUpload` | called by the upload service |
| **compute server** (`compute/internal/server`, `cmd/server`) | agents and job records in MySQL, `JobQueue` map | HTTP task submission → publish; gRPC `Register`, `Heartbeat`, `ReportJobStatus` | RabbitMQ, agents |
| **compute agent** (`compute/cmd/agent/main.go`) | delivery in hand, wait group, gRPC stream | consume and run commands, heartbeat loop, reconnect, drain on a signal | server, RabbitMQ |
| **gateway rate limiter** (`gateway/internal/middleware/ratelimit.go`) | map from addresses to limiters with last-seen times | `getLimiter` (read lock, then write lock), `Allow`, `cleanupVisitors` | every request |
| **gateway routing** (`gateway/cmd/gateway`, `internal/middleware/jwt.go`, `internal/proxy`, `pkg/middleware/auth.go`) | – | token check, `X-User-Id`, reverse proxy, `RequireUser` behind it | every service |
| **user API** (`interaction/internal/api/user_api.go`) | `users` rows | register (count, then insert), login, info | MySQL, the gateway's token check |
| **Redis rate limiter** (`interaction/internal/api/middleware.go`) | one counter per user and window | one atomic Lua script | not mounted by `main` |

### What is hard in it, and what makes it correct

* **Reward pipeline.** Stock is taken in Redis, the award is booked in MySQL, and between the
  two lie a publish without confirms, two queues that dead-letter into each other, manual
  acknowledgements, redelivery after every lost connection, and two processes that can stop at
  any point. Correct means: never oversold, one win per user, credited at most once whatever is
  redelivered, and no accepted award lost without a trace.
* **Chunked upload.** Three handlers read an upload task, act, and write the *whole row* back;
  a mutex covers part of one of them in one process, and the deployment runs three. Correct
  means: a chunk reported as done stays done, a completed upload stays completed, the stored
  file consists of all its chunks in order, and quota pays for exactly the files that exist.
* **Compute.** A task must be executed before it is acknowledged, survive an agent's death, and
  be reported.
* **Gateway.** The limiter looks an entry up under one lock, makes it under another, writes
  `lastSeen` under the *read* lock and lets a goroutine throw entries out. Correct means: an
  address is served as if it had one bucket for ever, and entries do not pile up.
* **Users.** Registration counts, then inserts, and an error says nothing about the row; a login
  that finds no row compares with a zero value; a service trusts a header. Correct means: a name
  belongs to one registration, and a service acts only for the user whose token was shown.

## Modules

Four subsystems, each a set of component modules, one module that composes them and states the
properties, and an MC module with the small sets TLC needs.

```
RewardBroker ── SeckillService ─┐
             ├─ DlqMonitor ─────┼─ RewardPipeline ── MCRewardPipeline
             └─ QuotaConsumer ──┘        │  └─ RewardPipelineProofs ── RewardCopiesProofs
                                         └ implements RewardLedger

StorageEngine ── FileService ── UploadProperties ── MCUpload
                                         │  └─ UploadProofs ── StoredPartsProofs
                                         │                          └─ UploadLedgerProofs
                                         └ implements UploadLedger

ComputeServer ── ComputeAgent ── TaskDispatch ── MCTaskDispatch
                                         │  └─ TaskDispatchProofs ── TaskLedgerProofs
                                         └ implements TaskLedger

IPRateLimiter ─┐
UserApi ───────┴─ GatewayPath ── RateWindow ── MCGatewayPath
                     │               └─ GatewayPathProofs
                     └ limiter implements TokenBucket
```

Each step of a handler, goroutine or loop that touches something another one can see is one
action: a Lua script, a SQL statement that takes a lock, a read of a row, a `Save`, a publish, an
acknowledgement, a call of the storage engine. What happens between two such steps belongs to the
first. Every failure the code has a branch for is a disjunct of the action it can strike, and
costs one of `MaxFaults`. Definitions marked *Mutant* change one definition the way a plausible
bug would; they are there to show that a property notices, and no specification uses them.

### Reward pipeline

| module | state | stands for |
|---|---|---|
| `RewardBroker` | `mainQ`, `dlq`, `wire`, `dropped`, `conn`, `faults` | the two queues of `rabbitmq.go` and interaction's one AMQP connection |
| `SeckillService` | `stock`, `winners`, `rpc`, `proc` | `DoSeckill`, its Lua script and its handler; the shutdown order of `graceful.go` |
| `DlqMonitor` | `backoff`, `sent`, `routed`, `monitor`, `logged` | one goroutine for each dead letter, as bags of messages in the same step |
| `QuotaConsumer` | `pc`, `msg`, `link`, `records`, `quota`, `nacks`, `swallowed` | the handler of `storage/internal/mq/consumer.go` in each storage process |
| `RewardPipeline` | – | connection loss, crash and restart of interaction, which concern two parts at once; properties |

A message is an event and its `x-retry-count`; queues are bags of messages, since with redelivery
and several consumers their order promises nothing. Expiring delays are "later". A publish puts a
frame on `wire`, and the broker reads it in a later step: there are no confirms, so a connection
lost in between loses the frame (`dropped`), while `Close` flushes what was written before it.
A lost connection returns what its channels have not acknowledged. An INSERT that meets another
open transaction on the same event waits, as InnoDB's unique index makes it, and is refused if
that one commits.

`RewardLedger` is the promise: stock becomes winners, a winner is credited at most once. The
mapping is the identity on `stock` and `winners`, and `balance` is `total_quota`.

Taken from outside `src/`, or from how `src/` uses it: RabbitMQ's redelivery and dead-lettering,
InnoDB's unique index, the persistence of Redis. Assumed about the deployment: the consumer is
attached to the main queue as interaction declares it. (As the repository stands,
`storage/cmd/server/main.go` never calls `StartQuotaConsumer`, its `QueueDeclare` with nil
arguments conflicts with `rabbitmq.go:68-74`, and `lottery_event_records` and
`users.total_quota` are in no migration.) Malformed payloads are left out: the only producer
marshals them from a struct. Branches on `ctx.Done()` of a background context are dead and left
out. The prefetch of the monitor is unlimited, so a message is with its goroutine as soon as it
is delivered. `Rows` are the users who have a row when the UPDATE comes.

AMQP orders frames within a channel only, and `processRetry` publishes on one channel and
acknowledges on another (`dlq_monitor.go:112`, `:149`). That the broker reads the publish first is
an assumption about its handling of one connection (`AckRetry`); `NothingVanishes` rests on it.
After a lost connection the monitor's loop does not end: `dlq_monitor.go:60` does not look whether
its channel is closed and spins on zero deliveries, whose body does not parse and whose Nack goes
nowhere. In the model this is a monitor to which nothing is delivered any more.

### Chunked upload

| module | state | stands for |
|---|---|---|
| `StorageEngine` | `parts`, `merged`, `cleanup` | the part and merged objects of `minio.go` and `local.go`; MinIO's clean-up goroutine |
| `FileService` | `tasks`, `files`, `quota`, `orphan`, `mu`, `job` | `InitUpload`, `UploadPart` and `CompleteUpload`, one step per access to MySQL, to the engine or to `partMu` |
| `UploadProperties` | – | properties, and the mapping to the ledger |

`job[h]` is the call a handler goroutine is in: its step, its arguments and *the rows it has
read*. `Save` writes `job[h].row` back whole, which is where everything interesting comes from.
A file is `Total` chunks of one unit, so that quota counts in chunks. Clients send the part numbers
`Numbers`, which include the file's own, `1 .. Total`, and may go beyond them: `upload.go:91` asks
for a positive number and nothing else. `instanceOf` puts handlers
into storage processes, in one of the ways `Placements` allows, and `engine` is the engine
configured, one of `Engines`; both are chosen at the start. `mu` is one mutex for each
process, and the entries of `cleanup` name the process whose goroutine has to remove a part: a
crash ends them with the calls. A soft-deleted task is hidden from reads and still holds the unique
index. `cleanup` is a set: two goroutines of one process that are to remove the same part are one,
since removing it again changes nothing until it is uploaded again.

`UploadLedger` is the promise: opened, acknowledged chunk by chunk, stored once with all of them
acknowledged and for good, paid for by one user once. The code deducts before it stores, so the
mapping adds back the deduction of a completion that is about to insert the file row (`Pending`).

The ledger holds for **orderly** clients (`MayStart`): nothing else runs on a file while it is
being completed, and a user completes one file at a time; and they send no number above `Total`.
The single-user web client behaves so; the server does not enforce it. What it does otherwise is
examined with `Orderly = FALSE` and a number more in `Numbers`. What then holds is weaker:

* `ReportedIsAccountedFor`, with MinIO and one process: a chunk answered with 200 is missing from
  the task in two cases only. Either the error of the second read was dropped and the chunk went
  into a row with an empty upload id (`orphan`); or a number above `Total` filled the list up, and
  the completion, which takes no mutex, wrote its own copy of the list over the chunk
  (`StrayCounted`). Both are losses in the code, and the property says that there is no third.
  Without either disjunct TLC finds the loss in `upload_races`.
* `MergedOnce`, with MinIO: what is stored was merged from `Total` different parts, and a chunk it
  lacks was displaced by a number above `Total`.

### Compute

| module | state | stands for |
|---|---|---|
| `ComputeServer` | `answer`, `queue`, `wire`, `dropped`, `amqp`, `server`, `stream` | `handleTask`, `mq.Publish`, the Heartbeat streams, the two-stage shutdown of `cmd/server/main.go` |
| `ComputeAgent` | `main`, `ctx`, `link`, `unacked`, `inbox`, `hand`, `jobs`, `runs` | consumer loop, task goroutines, `wg`, connection loop and drain of `cmd/agent/main.go` |
| `TaskDispatch` | – | composition, fairness, properties, and the mapping to the ledger |

`TaskLedger` is the promise of a queue with acknowledgements: a task is taken in once, may be
started several times while it is kept, and is forgotten when a start has come to its end
(settled) or with the server's connection (lost, never started). A late agent may start a task
again that has been settled, but only one that was started before. `kept` is what is on the
wire, queued or unacknowledged; `starts` is `runs`, `lost` is `dropped`.

`inbox`, `hand` and `jobs` are the three places of a delivery in an agent: not yet taken by the
loop, past the check of `ctx` but before `go`, and in a goroutine. `unacked` is the broker's
side of it. `JobQueue` is left out because nothing stores into it any more (`http.go:81`), and
with it the gRPC jobs the agent could be sent.

### Gateway and users

| module | state | stands for |
|---|---|---|
| `IPRateLimiter` | `ips`, `tokens`, `slept`, `job` | the map, the limiters, the clean-up goroutine and the requests in `getLimiter` and `Allow` |
| `UserApi` | `users`, `call`, `faults`, `accepted`, `issued` | `RegisterHandler` and `LoginHandler`, one step for each SQL statement |
| `GatewayPath` | `load`, `acted` | the middlewares and routes of `cmd/gateway/main.go`: limiter, token check, proxy, `RequireUser`; properties |

`getLimiter` is two critical sections. `Look` takes the read lock and `Stamp` writes `lastSeen`
and gives it back; several requests may be between the two, and the last to write wins, with the
time it read *when it took the lock* (`stamp`). `Add` is the section under the write lock, with
its second look; it and `Sweep` need that nobody reads (`NoReader`). A `Limiters` identity is
taken again when neither the map nor a request refers to it, as the garbage collector does.

Time is discrete and kept as ages, so that neither the clock nor the number of requests is
bounded: `idle` since `lastSeen`, `slept` since the last clean-up, `waited` in the limiter.
`MaxDelay` is the real-time assumption the code rests on without saying so: a request is not
held up between lookup and `Allow` for longer, and the clean-up is not later. What it must
satisfy is in `LimiterAssumption`: an entry must not be thrown out while a request that saw it
may still ask its limiter, and it must have had the time to fill up. With the code's 2 tokens a
second, burst 5 and 180 seconds of idle time any delay up to 88 seconds will do.

`TokenBucket` is the promise: one bucket for each address, never forgotten. An address without
an entry maps to a full bucket.

`RateWindow` says what that is worth to a client. Beside the gateway's steps, which it leaves as
they are, it counts the requests of each address that pass and the ticks that go by in a window,
which may be opened again at any step: however the limiter forgets and makes anew,
`passed[a] <= Burst + Rate * elapsed`. `Measured` and `MaxWindow` bound the windows for TLC.

A `token` is the id it was issued to and `NoUser` is none, or one that is malformed or has
expired. `Workloads` bounds what the clients of one behaviour do: addresses of the requests,
names and passwords. `golang.org/x/time/rate` is outside `src/`: `Allow` is atomic under the
limiter's own mutex.

## Runs

`CHECK_DEADLOCK FALSE` except in `gateway_path`: elsewhere requests, calls and faults are
bounded, and a system that has served them all stops. The bounds are `MaxFaults` (failures and environment events of a
behaviour), `MaxRetries` (the code's constant, 3), `MaxCalls` (calls of upload handlers) and the
sizes of the sets. `FaultKinds` says which failures a run allows.

| run | instance | checks |
|---|---|---|
| `reward_faults` | three requests of two users (two of one user), one award, two workers, 1 retry, 4 faults of all ten kinds, one user without a row | `TypeOK`, `WinsMatchStock`, `CreditMatchesRecords`, `OnlyAcceptedTravels`, `CreditsWithinStock`, `OneTransactionPerEvent`, `NothingVanishes`, `GivenUpAfterAllRetries`, and that the pipeline implements `RewardLedger` |
| `reward_retries` | one request, two workers, 3 retries, 3 faults of MySQL (INSERT included), storage processes, channels and consumer links | `OneCopy`; `AcceptedIsCredited` under fairness |
| `upload_ledger` | three handlers of one process, two users, one file of two chunks, both engines, orderly clients that send the numbers 1 and 2, 2 failures of the engine, 6 calls | `RecordedIsStored`; the service implements `UploadLedger` |
| `upload_races` | two handlers, in one process or in one each, MinIO, disorderly clients that send the numbers 1 to 3 for two chunks, 1 fault of engine, MySQL (answered or ignored) or process, 5 calls | `TypeOK`, `ReportedIsAccountedFor`, `MergedOnce`, `LockIsHeld`; `CallReturns` under fairness |
| `compute_dispatch` | two tasks, two agents, 2 faults of all seven kinds | `TypeOK`, `AcceptedIsKept`, `RerunsHaveCause`, `OnePlace`, `NoStuckDelivery`, `ForgetsOnlyRun`; server, queue and agents implement `TaskLedger`; `AcceptedIsRun` under fairness |
| `gateway_path` | two requests at a time out of any number, two addresses, four limiters, burst 2, 1 token a tick, 3 ticks of idle time, a clean-up each tick, 1 tick of delay, 1 fault; four workloads: one address or two and no accounts, one name with two passwords, two names; windows of up to 8 ticks in the first | `TypeOK`, `OneLimiterPerAddress`, `IdleForgotten`, `WithinRate`, `RegisteredOnce`, `TokensAreOwned`; the limiter implements `TokenBucket` |
| `reward_shutdown`, `upload_two_processes`, `upload_order`, `upload_stuck`, `compute_server_stop`, `compute_leaves` | the smallest instance that shows it | one property each, which the code violates: see [findings](#findings) |

Why these bounds are enough to be interesting:

* `reward_faults`. Duplicates need one lost connection, an unknown outcome of a commit one
  `db`, a retry one `storage`, `db` or `link`, and a duplicate of a duplicate two of them: four
  faults leave room for two independent mishaps on one event and one on another. One award for
  two users makes the stock run out; two requests of one user make the idempotent branch of the
  script race with the first win. One retry makes exhaustion reachable within the faults; the
  real number is in `reward_retries`, where three failures in a row use up all retries and the
  fourth attempt succeeds. A failing INSERT is not retried but acknowledged
  (`consumer.go:104`), so `AcceptedIsCredited` excepts it.
* Uploads. Two chunks are the least that can be lost, swapped or merged in part. Six calls are an
  `InitUpload`, two chunks, a repeated chunk or a second `InitUpload`, and two completions; five are
  enough for `upload_races` to fill a list with a number above `Total` and lose a late chunk to the
  completion. With
  three handlers of two users a chunk, a resume and a completion of the other user overlap. In
  `upload_races` two calls overlap in every way, late chunks and second completions among them,
  and one fault strikes any of their steps.
* Compute. Two agents are the least for a task to move from one to the other; two faults give a
  crash or lost link of each, or one that strikes a task that was already redelivered.
* Gateway. Two requests from one address are the least that can both miss the entry, or write
  `lastSeen` out of order; two addresses show that limiters are not shared. Two limiters are in
  the map at most and two in the hands of requests, so four identities suffice. The numbers
  are the smallest that satisfy `LimiterAssumption` with a delay and a burst of more than one; the
  bucket of an entry that is thrown out has had no tick more than it needs to fill. Eight ticks
  are time for an address to empty its bucket, be forgotten, come back and empty a new one, all in
  one window.

Each property of a passing run also has a mutant in `PROJECT.json`, a definition of the model
changed as a plausible bug would change the code, under which TLC reports the property violated.

## Fairness

Stated in `Fairness` of each composing module, and used only for the liveness properties.

* Weak fairness of goroutines that can go on: handlers, the monitor's goroutines, the agent's
  loops. In `TaskDispatch` each agent's consumer, task goroutines and `main` have a condition of
  their own, because they are goroutines of their own.
* Weak fairness of the broker's reading of frames; **strong** fairness of delivery, since a
  consumer that is busy disables it again and again and RabbitMQ serves consumers in turn.
* Strong fairness of `PartLock`: `sync.Mutex` hands over to a goroutine that has waited a
  millisecond.
* Weak fairness of restarting a *storage* process that has ended: `k8s/deployment.yaml` runs storage
  as a Deployment of three replicas. No other process is restarted under a fairness condition.
  `k8s/` has no interaction service, the one container of `docker-compose.prod.yml` is not
  restarted while any of its services lives, and no file of the repository runs the compute
  server or its agents. They *may* be restarted, at any time; no property counts on it.
* Nothing restarts a process that lives on without its AMQP connection, so no fairness brings that
  connection back, and `AcceptedIsCredited` excepts the case that every consumer has lost its own.
* No fairness of the end of a command (`Ran`): `exec.CommandContext` kills `sh` after ten seconds, and
  `CombinedOutput` then waits for every child that still holds the pipe, so a command may hold the
  agent's one prefetch slot for ever. `AcceptedIsRun` is therefore conditional: as long as time and
  again some agent is `Ready` (alive, attached, in no command), accepted tasks are run, whatever
  the others do.
* No fairness of requests, signals and failures. Failures are bounded by `MaxFaults`, which is
  the assumption that they do not go on for ever.

`gateway_path` checks safety only and needs no fairness: that the clean-up comes in time is in
the guard of `Tick`, not in a fairness condition.

`CallReturns` assumes that MySQL and MinIO answer in the end; the code sets no timeouts.

## Proofs

Checked by TLAPS for every value of the constants, under the named assumptions of the modules
(counts are naturals, `NoMsg` is no message, `NoTask` is no task, every request has a user,
`LimiterAssumption`), and further premises where a theorem states them.

**`RewardPipelineProofs`** – nine theorems.

1. `Typing`: `TypeOK`. Stock stays a natural number because the script tests it; a header stays
   within `MaxRetries` because only messages below the limit are republished.
2. `NeverOversold`: `WinsMatchStock`, inductive by itself given `TypeOK`. The step that matters is
   the script of a user who has already won: it answers without taking stock.
3. `Travels`: `OnlyAcceptedTravels`. No step moves an answer away from `accepted`
   (`AcceptedStays`), and `TravelStep` goes through the places a copy can move between.
4. `Transactions`: `OneTransactionPerEvent`, needed because copies of one event may be with
   several workers: only the unique index keeps their transactions apart.
5. `CreditedOnce`: `CreditMatchesRecords`. A commit adds one award to a user none of whose events
   is recorded. That needs all of the above: the event was accepted (3), so its request took
   stock and no other request of this user did (2), and the event itself is not recorded (4).
6. `Refinement`: `Spec => LedgerSpec`. A winning script is `Win`, a commit for a user with a row
   is `Credit` (its guard `balance[u] = 0` by 5, `u \in winners` by 2 and 3), the rest stutters.
7. `NothingVanishesAlways`: `NothingVanishes`. The property itself is not inductive, since
   `AckRetry` removes a copy from `routed`. `Accounted` does not count those originals: their
   republished copies are placed before they are acknowledged. Then every step that takes a copy
   out of one place puts it into another, or is one of the three known ends.
8. `NeverGivenUpEarly`: `GivenUpAfterAllRetries`. `HeadersTrue` relates each copy to the failures
   of its event: a header in the main queue or with a worker is at most the Nacks of the event,
   and one less in a dead letter that is not yet republished.
9. `NeverOvercredited`: `CreditsWithinStock`, a consequence of 2, 3 and 5. A user with a quota has
   a recorded event; only accepted events are recorded, and an accepted request has taken stock.

**`RewardCopiesProofs`** – `OneCopyWhileConnected`: `OneCopy`, if `FaultKinds` has none of
"conn", "shutdown" and "crash", the three ways interaction's connection ends. The premise is
part of the property: a connection lost between republish and Ack does leave two copies, which is
why crediting has to be idempotent (5 above). Republishing is the step that could make a copy, as
the original stays with its goroutine until the broker has read the frame: `Queued` counts a
goroutine only before its republish is routed, so `RouteRetry` moves the copy. `DownIsIdle` adds
that a storage process that is down has nothing in hand.

**`TaskDispatchProofs`** – three theorems.

1. `Typing`: `TypeOK`.
2. `NoTaskLost`: `AcceptedIsKept`. It is not inductive: an `Ack` takes a task away from the
   broker, and nothing in the property says that its command has run. `IInv` adds what prefetch 1
   gives: while an agent's link is up, its inbox, its hand and its active goroutine hold the one
   unacknowledged delivery between them, in one of these places (`OwnsAll`), and a goroutine past
   "start" has started its command (`Started`). Goroutines left over from a lost link may hold
   tasks the broker has already given to others; they are why both conjuncts mention the link.

3. `RerunsAlwaysHaveCause`: `RerunsHaveCause`, by a budget. For each task, the runs done, the
   copies on the wire and in the queue, the agents where a run is still to come and the agents
   that have been told to stop and are still there (their exit may give back what is running)
   are together at most the faults, and one more once the task has been answered with 201.
   `OneAtATime` adds that an agent has one delivery at a time still to be run.

**`TaskLedgerProofs`** – four theorems. `BrokersView` sorts the steps of an agent by what the
broker sees of them (a delivery, something given back, an acknowledgement, a start, or nothing),
and the proofs go by these five.

1. `OneCopyOfATask`: `OnePlace`, together with `Fresh`: a task that has not been answered, is on
   the wire or is lost has not been touched by any agent. A publish therefore adds a task that is
   nowhere yet, and a connection lost under it loses one that nobody has started.
2. `NoDeliveryStuck`: `NoStuckDelivery`, the converse of `OwnsAll`: what the broker waits for is
   somewhere before an `Ack`, which says nothing of how long its command takes. The links matter: a goroutine whose link is lost acknowledges
   nothing, but then the broker has taken the delivery back.
3. `OnlyRunForgotten`: `ForgetsOnlyRun`, an action property. Refusals, exits, crashes and lost
   links give back what they take (`GivenBack`); an `Ack` over an open link is of a command that
   has ended.
4. `QueueImplementsLedger`: `Spec => LedgerSpec`. An `Ack` settles one task and no other (by 1); a
   start is of a task that is kept or was started before (by `AcceptedIsKept`: a goroutine left
   over from a lost link may start a task another agent has settled since); a lost wire takes
   tasks out that nobody has started (by `Fresh`).

**`UploadProofs`** – five theorems for all clients, part numbers, processes and failures.

1. `UploadTypeAlways`: `TypeOK`.
2. `ReportedAlways`: `ReportedIsAccountedFor`. `PartMutex` says that whoever is between fetch and
   save holds `partMu` of its process; with one process (`Alone`) the row about to be saved
   therefore lacks nothing that is recorded (`FreshRows`), and a Save loses nothing. For a
   completion, which takes no mutex, the argument is another one: chunks are only appended, so what
   it saves is a beginning of the recorded list (`Begins`), `Total` numbers without repetition. Either
   all of them are chunks of the file, and then it has them all (`Pigeonhole`), or one is above
   `Total`, which is the second exception.
3. `MergedOnceAlways`: `MergedOnce`, since what is composed is such a list.
4. `WholeAlways`: a stored file has every chunk once (`FileIsWhole`, with MinIO), *if* `Numbers` is
   `1 .. Total`. That is a premise about clients, which the code does not enforce.
5. `LockAlwaysHeld`: `LockIsHeld`, in any number of processes and with any failures. Each way out
   of the section between `Lock` and `Unlock` gives the mutex back (`UnlockHolds`), a call outside
   it touches no mutex (`OutsideHolds`), and a crash ends the calls and the mutex of its process
   only.

**`StoredPartsProofs`** – `StoredAlways`: `RecordedIsStored`, for any clients and any number of
processes, if neither a process crashes nor a statement of MySQL fails with an answered error.
`StoredInv` calls a file settled when it has its row or a completion past composing is about to
insert it: parts are removed for settled files only, and for the others the lists about to be
saved, as well as the saved one, are in the bucket. Both premises are needed: `upload_stuck`
shows the crash, and a refused `INSERT` of the file row ends a completion at the same place.

**`UploadLedgerProofs`** – `LedgerImplemented`: `Spec => LedgerSpec` for both engines, with one
storage process, orderly clients, part numbers up to `Total` (`OwnChunksOnly`) and failures of the
storage engine only. `Exclusive` says that
the orderliness of clients at the start of a call lasts as long as the calls; with it what a call
has read stays true until it is used (`UpToDate`): the row of a completion equals the one in
MySQL, the balance read is the balance, the list of an upload is the recorded one. Inserting the
file row is `Store`, a chunk's Save is `Acknowledge`, and the deduction before the row is hidden
by `Pending`.

**`GatewayPathProofs`** – seven theorems.

1. `OneLimiterAlways`, `IdleForgottenAlways`: from `LimiterInv`. The heart is `SeenLately`: the
   entry of a request with a limiter in hand is no older than the request has waited plus one
   delay, for whoever overwrote its `lastSeen` read the clock at most `MaxDelay` earlier; so it is younger than `IdleTime`, and the clean-up leaves it.
2. `BucketsImplemented`: `Spec => BucketSpec`. A clean-up must remove full buckets only, which
   `GrowsUnseen` gives: since nothing was taken for as long as the entry is old, less two delays,
   the bucket has had the time to fill. The arithmetic (`GrownFull`) is where
   `LimiterAssumption` is used.
3. `NoAddressAboveRate`: `WindowSpec => []WithinRate`, from the buckets of 2. What passed in the
   window and what is left in the bucket are together at most `Burst + Rate * elapsed`
   (`Measures`): a request that passes moves a token from one to the other (`PassesTake`), a tick
   adds `Rate` (`TickAdds`), and making or forgetting an entry changes neither.
4. `RegisteredOnceAlways`, `TokensOwnedAlways`, `TypeAlways`: from `UserInv`. The unique index is
   what keeps two registrations that both counted none apart; the header a service reads was
   written from the token, and rows never change.

Every invariant, action property and refinement that a passing run checks is thus proved.
Only model-checked: the liveness properties `AcceptedIsCredited`, `CallReturns` and
`AcceptedIsRun`, whose fairness conditions and `ENABLED` are out of reach of TLAPS.

## Findings

Runs that end in a counterexample, against what the repository says of itself.

| run | what happens | against |
|---|---|---|
| `reward_shutdown` | the hook closes the AMQP connection before the HTTP server drains; a request between the script and the publish has taken stock and is answered with an error | `README.md:10` |
| `upload_two_processes` | two processes fetch the same row and save it; one reported chunk is gone, since `partMu` orders one process only and `k8s/deployment.yaml` runs three | the comment at `file_service.go:199` (`NoLostUpdate`) |
| `upload_order` | parts are merged in the order of arrival | `web/index.html:271`, `model/task.go:14` |
| `upload_stuck` | MinIO's parts are removed before the file row exists; after a crash in between, the task lists chunks that are gone and can be neither resumed nor completed | `file_service.go:138` |
| `compute_server_stop` | `GracefulStop` waits for Heartbeat streams that only end with their agents, outside the ten-second context | `compute/cmd/server/main.go:134` |
| `compute_leaves` | `wg.Add` comes after the check of `ctx`; `wg.Wait` may return in between, and the agent exits under a running command | `compute/README.md:40` |

Seen while modelling, with the steps in the models and without a run:

* `file_service.go:204` drops the error of the second read; the zero row is then inserted as a
  row of its own and the chunk reported (`PartSaveZero`).
* `upload.go:91` accepts part numbers above `total_chunks` and `file_service.go:235` compares lengths
  only: with the numbers 1 and 3 a file of two chunks is completed and stored without chunk 2; and
  a chunk 2 reported while that completion runs is taken out of the list by its Save (`:270`).
* `consumer.go:104` takes every INSERT error for a duplicate and acknowledges: one deadlock or lock
  timeout loses an award (`InsertFails`).
* A command whose child keeps the pipe open outlives the ten seconds of `RunLocalCommand`
  (`agent/main.go:26`) and blocks its agent; with it, a drained agent never leaves.
* `upload_task_repo.go:36` writes back the status read earlier, so a late chunk turns a completed
  task into an unfinished one.
* `local.go:69` drops the error of `io.Copy` and removes the part all the same: the stored file
  lacks a chunk and nobody is told. `MergedOnce` therefore speaks of MinIO only.
* `local.go:57` truncates the merged file before it knows that the parts are there; a second
  completion of the same file destroys the first.
* `file_service.go:125` checks the quota at the start and `:254` deducts at the end: several
  uploads together overdraw it, two completions of one file that pass the status check together
  both deduct, and two completions of one user may lose a deduction.
* `file_service.go:143` resumes a task whoever its owner is.
* A task soft-deleted after a failed `InitUpload` refuses its hash for ever.
* `ReportedIsAccountedFor` speaks of MinIO: with the local engine a concurrent `InitUpload` that
  fails to make its directory soft-deletes the task together with chunks recorded meanwhile.
* The results of tasks taken from RabbitMQ are reported to nobody, and a failed command is
  acknowledged like a successful one.

## Not modelled

* `UploadFile`: its route is outside the group with the JWT middleware, so the user id is 0 and
  the call ends with "user not found". `AbortUpload` is called by nobody; `GetUploadStatus` only
  reads.
* `Register` and `ReportJobStatus` of the compute server: they write rows nothing reads.
* In the gateway: trace ids, `/healthz`, `/debug/token` (it signs with a
  secret of its own, so the services' token check refuses what it issues), start and stop.
  Buckets are per process, and `k8s/` runs two gateways: an address has a bucket in each.
* `GetUserInfo` only reads, and the gateway has no route to it. Token expiry is "no token".
* The Redis rate limiter of `interaction/internal/api/middleware.go`: one atomic script, and
  `main` does not mount it.
* A torn read of `lastSeen` (a data race on a `time.Time`): the model writes one of the racing
  values, not a mixture of their words.
* Configuration, start-up, metrics, the web page.
* Numbers and names: sizes and times, the width of
  `upload_id` (`char(32)`), payload formats.
* The manager of `graceful.go` as a component of its own. Its timeout is in the model: an exit
  with handlers still under way is `ProcessCrash` while draining.

## Plan

In order of importance:

1. `QueueSetup`: who declares which queue with which arguments, and in which order the services
   start.
2. Quotas under several uploads of one user: how far `InitUpload`'s check and
   `CompleteUpload`'s deduction can overdraw an account, and what the docs promise about it.
3. The ledger of the upload under several processes, as far as it holds: files stored once, with
   all their chunks, though the task list may lose some.
