--------------------------- MODULE RewardPipeline ---------------------------
(***************************************************************************)
(* The reward pipeline end to end: the seckill service and the dead-letter *)
(* monitor, two parts of one process with one AMQP connection, the broker, *)
(* and the storage service's quota consumers.                              *)
(***************************************************************************)
EXTENDS SeckillService, DlqMonitor, QuotaConsumer

vars == <<brokerVars, seckillVars, monitorVars, consumerVars>>

-----------------------------------------------------------------------------
(* Events of the interaction process that concern both of its parts. *)

ConnectionLost ==
    /\ conn = "open" /\ Fault("conn")
    /\ conn' = "closed"
    /\ LoseWire
    /\ RequeueUnacked
    /\ UNCHANGED <<stock, winners, rpc, proc, monitor, logged, mainQ, consumerVars>>

\* SIGTERM: WaitForShutdown runs its hook, which closes the connection.  The
\* close follows the frames written before it, so the broker has read them.
ShutdownHook ==
    /\ proc = "up" /\ Fault("shutdown")
    /\ wire = {} /\ sent = NoCopies
    /\ proc' = "closing"
    /\ conn' = "closed"
    /\ RequeueUnacked
    /\ UNCHANGED <<stock, winners, rpc, wire, dropped, monitor, logged, mainQ, consumerVars>>

ProcessCrash ==
    /\ proc # "down" /\ Fault("crash")
    /\ proc' = "down"
    /\ conn' = "closed"
    /\ Kill
    /\ LoseWire
    /\ RequeueUnacked
    /\ UNCHANGED <<stock, winners, monitor, logged, mainQ, consumerVars>>

\* main: InitRabbitMQ dials, StartDLQMonitor returns early if it cannot attach.
ProcessRestart ==
    /\ proc = "down"
    /\ proc' = "up"
    /\ conn' = "open"
    /\ \/ monitor' = TRUE /\ NoFault
       \/ monitor' = FALSE /\ Fault("monitor")
    /\ UNCHANGED <<stock, winners, rpc, wire, dropped, backoff, sent, routed, logged,
                   mainQ, dlq, consumerVars>>

-----------------------------------------------------------------------------
Init == BrokerInit /\ SeckillInit /\ MonitorInit /\ ConsumerInit

Next ==
    \/ SeckillNext /\ UNCHANGED <<monitorVars, consumerVars>>
    \/ MonitorNext /\ UNCHANGED <<seckillVars, consumerVars>>
    \/ ConsumerNext /\ UNCHANGED <<seckillVars, monitorVars>>
    \/ ConnectionLost
    \/ ShutdownHook
    \/ ProcessCrash
    \/ ProcessRestart

Spec == Init /\ [][Next]_vars

(***************************************************************************)
(* Fairness: a goroutine that can run eventually does, the broker routes   *)
(* and delivers what it holds (to each worker, its round robin), and a     *)
(* dead storage process is restarted, storage being a Deployment of three  *)
(* replicas (k8s/deployment.yaml).  Nothing restarts interaction, which    *)
(* no manifest runs alone, or a process that lives on without its          *)
(* connection.                                                             *)
(***************************************************************************)
Fairness ==
    /\ \A r \in Reqs :
          /\ WF_vars((GetChannel(r) \/ GetChannelFails(r) \/ Publish(r) \/ PublishFails(r))
                     /\ UNCHANGED <<monitorVars, consumerVars>>)
          /\ WF_vars(Route(r) /\ UNCHANGED <<monitorVars, consumerVars>>)
    /\ \A m \in Messages :
          /\ WF_vars((DeadLetter(m) \/ GiveUp(m)) /\ UNCHANGED <<seckillVars, consumerVars>>)
          /\ WF_vars(Republish(m) /\ UNCHANGED <<seckillVars, consumerVars>>)
          /\ WF_vars(RouteRetry(m) /\ UNCHANGED <<seckillVars, consumerVars>>)
          /\ WF_vars(AckRetry(m) /\ UNCHANGED <<seckillVars, consumerVars>>)
          /\ SF_vars((\E w \in Workers : Deliver(w, m)) /\ UNCHANGED <<seckillVars, monitorVars>>)
    /\ \A w \in Workers :
          /\ WF_vars(Work(w) /\ UNCHANGED <<seckillVars, monitorVars>>)
          /\ WF_vars(WorkerRestart(w) /\ UNCHANGED <<seckillVars, monitorVars>>)
    /\ WF_vars((StopAccepting \/ Exit) /\ UNCHANGED <<monitorVars, consumerVars>>)

FairSpec == Spec /\ Fairness

-----------------------------------------------------------------------------
\* Every variable stays in its domain; in particular stock is never negative,
\* no header exceeds MaxRetries, and an exhausted message is never retried.
TypeOK == BrokerTypeOK /\ SeckillTypeOK /\ MonitorTypeOK /\ ConsumerTypeOK

\* Some copy of event e is in bag q.
Holds(q, e) == \E m \in Messages : q[m] > 0 /\ Event(m) = e

\* The broker owes somebody a delivery of e: a copy is on the wire, queued, or
\* delivered and not acknowledged (a worker whose link is lost owns nothing).
Owed(e) ==
    \/ e \in wire
    \/ Holds(mainQ, e) \/ Holds(dlq, e)
    \/ Holds(backoff, e) \/ Holds(sent, e) \/ Holds(routed, e)
    \/ \E w \in Workers : pc[w] # "idle" /\ link[w] = "up" /\ EventAt(w) = e

\* Never oversold, and one win per user: the stock gone, the winner set and the
\* requests whose script took stock agree (seckillLuaScript's idempotency),
\* whatever replies are lost and however requests interleave.
WinsMatchStock ==
    /\ stock + Cardinality(winners) = InitialStock
    /\ winners = {UserOf[r] : r \in {x \in Reqs : rpc[x] \in Winning}}
    /\ \A r, s \in Reqs :
          rpc[r] \in Winning /\ rpc[s] \in Winning /\ UserOf[r] = UserOf[s] => r = s

\* Credited once: total_quota of a user with a row is one award if an event of
\* his is recorded and nothing otherwise, under redelivery, retries, several
\* workers on copies of one event, and commits whose outcome is unknown.
CreditMatchesRecords ==
    \A u \in Users :
        quota[u] = IF u \in Rows /\ \E r \in records : UserOf[r] = u THEN 1 ELSE 0

\* Only an event whose publish was accepted travels: whatever is on the wire, in
\* a queue, with a goroutine or worker, or recorded stems from a 202 answer.  A
\* request that failed after taking stock never credits anybody.
Within(q) == \A m \in Messages : q[m] > 0 => rpc[Event(m)] = "accepted"
OnlyAcceptedTravels ==
    /\ \A e \in wire \cup records : rpc[e] = "accepted"
    /\ Within(mainQ) /\ Within(dlq)
    /\ Within(backoff) /\ Within(sent) /\ Within(routed)
    /\ \A w \in Workers : pc[w] # "idle" => rpc[EventAt(w)] = "accepted"

\* Never oversold from end to end: the users with a quota in MySQL and the stock
\* left in Redis, two stores that no transaction spans, never add up to more
\* than the initial stock.
CreditsWithinStock ==
    stock + Cardinality({u \in Users : quota[u] > 0}) <= InitialStock

\* Copies of one event never race past each other: at most one open transaction
\* holds an event, and none holds one that is recorded; what a worker is about
\* to Ack is recorded, or its INSERT error was swallowed.
OneTransactionPerEvent ==
    /\ \A w \in Workers : InTx(w) => EventAt(w) \notin records
    /\ \A v, w \in Workers : InTx(v) /\ InTx(w) /\ EventAt(v) = EventAt(w) => v = w
    /\ \A w \in Workers : pc[w] = "ack" => EventAt(w) \in records \cup swallowed

\* No event disappears silently: one whose publish was accepted is owed, or
\* credited, or left the system by one of the three ways the code has to lose
\* it (frame lost without confirms, INSERT error taken for a duplicate, retries
\* exhausted).  The requeues of both consumers and Ack-after-republish are right.
NothingVanishes ==
    \A e \in Reqs : rpc[e] = "accepted" =>
        Owed(e) \/ e \in records \/ e \in dropped \/ e \in swallowed \/ e \in logged

\* The monitor gives up on an event only after MaxRetries + 1 failed attempts,
\* though copies multiply when a connection drops between republish and Ack: a
\* copy's header never counts more failures than its event had.
GivenUpAfterAllRetries ==
    \A e \in logged : nacks[e] > MaxRetries

\* Copies of m that will be delivered: in a queue, or with a goroutine that has
\* not republished it.  The original of a routed republish only waits for its Ack.
Queued(m) == mainQ[m] + dlq[m] + backoff[m] + sent[m]

\* The worker has a delivery that the broker waits for.
Owns(w) == pc[w] # "idle" /\ link[w] = "up"

\* As long as no connection of interaction is lost, dead-lettering, republishing
\* and storage's crashes and lost links move the one copy of an event, with
\* whatever header, and never make a second.
OneCopy ==
    /\ \A m \in Messages : Queued(m) <= 1
    /\ \A m, n \in Messages : Queued(m) > 0 /\ Queued(n) > 0 /\ Event(m) = Event(n) => m = n
    /\ \A m \in Messages : Queued(m) > 0 => Event(m) \notin wire
    /\ \A w \in Workers : Owns(w) =>
          /\ EventAt(w) \notin wire
          /\ \A m \in Messages : Queued(m) > 0 => Event(m) # EventAt(w)
          /\ \A v \in Workers : Owns(v) /\ EventAt(v) = EventAt(w) => v = w

\* The pipeline does what the ledger promises: stock becomes winners, and a
\* winner is credited at most once.
Ledger == INSTANCE RewardLedger WITH balance <- quota
LedgerSpec == Ledger!Spec

\* An accepted request is credited in the end, when at most MaxRetries times
\* BEGIN, UPDATE or COMMIT fails, republishes fail and storage processes crash and
\* restart at any point, as long as interaction keeps its connection and one
\* worker is attached to the queue.  No retry follows an INSERT that fails for
\* another reason than a duplicate: consumer.go:104 acknowledges the event, and
\* the award is lost unless the event is recorded all the same.
AcceptedIsCredited ==
    \A r \in Reqs :
        rpc[r] = "accepted" ~>
            \/ r \in records
            \/ r \in swallowed
            \/ \A w \in Workers : link[w] = "lost"

-----------------------------------------------------------------------------
(* What comments and docs say, and the code does not do. *)

\* README.md:10 "eventual consistency" of the decoupled chain: stock taken in
\* Redis is in the end a quota in MySQL.
WinIsCredited == \A r \in Reqs : rpc[r] = "won" ~> r \in records
=============================================================================
