---------------------------- MODULE RewardBroker ----------------------------
(***************************************************************************)
(* What the interaction and the storage service share: the RabbitMQ        *)
(* topology declared in interaction/internal/mq/rabbitmq.go (a main queue  *)
(* and its dead-letter queue), the interaction service's one AMQP          *)
(* connection, and the QuotaUpgradeEvent carried by a message.             *)
(*                                                                         *)
(* A queue is a function from messages to the number of copies it holds.   *)
(* Several consumers, requeueing and dead-lettering reorder deliveries, so *)
(* no property depends on the order of two users' messages.                *)
(***************************************************************************)
EXTENDS Naturals, FiniteSets

CONSTANTS
    Users,       \* user ids
    Reqs,        \* seckill requests; a request is also the EventID it mints
    UserOf,      \* the user that sends a request
    MaxRetries,  \* the monitor gives up on a message retried this often (3)
    FaultKinds,  \* the kinds of environment event allowed to happen
    MaxFaults    \* bound: how many of them happen in a behaviour

ASSUME UsersAssumption   == IsFiniteSet(Users)
ASSUME UserOfAssumption  == UserOf \in [Reqs -> Users]
ASSUME RetriesAssumption == MaxRetries \in Nat
ASSUME FaultsAssumption  == MaxFaults \in Nat

VARIABLES
    mainQ,   \* storage.quota.queue: copies of each message ready for delivery
    dlq,     \* storage.quota.queue.dlq: likewise
    conn,    \* mq.Conn of the interaction service: "open" or "closed"
    faults   \* environment events so far

brokerVars == <<mainQ, dlq, conn, faults>>

(***************************************************************************)
(* A message is the event of a request and its x-retry-count header.       *)
(***************************************************************************)
Messages == Reqs \X (0 .. MaxRetries)
Event(m) == m[1]
\* getRetryCount: an absent header counts as 0, which is how DoSeckill publishes.
RetryCount(m) == m[2]

NoCopies     == [m \in Messages |-> 0]
Put(q, m)    == [q EXCEPT ![m] = @ + 1]
Take(q, m)   == [q EXCEPT ![m] = @ - 1]
Merge(p, q)  == [m \in Messages |-> p[m] + q[m]]

\* An environment event of kind k happens in this step.
Fault(k) == k \in FaultKinds /\ faults < MaxFaults /\ faults' = faults + 1
NoFault  == UNCHANGED faults

BrokerInit ==
    /\ mainQ = NoCopies
    /\ dlq = NoCopies
    /\ conn = "open"
    /\ faults = 0

BrokerTypeOK ==
    /\ mainQ \in [Messages -> Nat]
    /\ dlq \in [Messages -> Nat]
    /\ conn \in {"open", "closed"}
    /\ faults \in 0 .. MaxFaults
=============================================================================
