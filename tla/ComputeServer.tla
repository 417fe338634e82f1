---------------------------- MODULE ComputeServer ---------------------------
(***************************************************************************)
(* The compute server: POST /task publishes a task to the RabbitMQ queue,  *)
(* agents hold a gRPC Heartbeat stream, and a signal stops HTTP first, gRPC*)
(* second.  JobQueue is left out: nothing stores into it any more.         *)
(***************************************************************************)
EXTENDS Naturals, FiniteSets

CONSTANTS
    Tasks,
    Agents,
    FaultKinds,   \* kinds of environment events allowed
    MaxFaults     \* bound on their number

ASSUME FaultsAssumption == MaxFaults \in Nat

VARIABLES
    queue,     \* tasks ready in the durable queue
    faults,    \* environment events so far
    answer,    \* per task: "none", "running", "201" or "failed"
    wire,      \* publishes written and not yet routed
    dropped,   \* history: tasks lost with the server's AMQP connection
    amqp,      \* that connection: TRUE while it is open
    server,    \* "serving", "http" (stopping HTTP), "grpc" (stopping gRPC), "exited"
    stream     \* per agent: its Heartbeat stream is open

brokerVars == <<queue, faults>>
serverVars == <<answer, wire, dropped, amqp, server, stream>>

Fault(k) == k \in FaultKinds /\ faults < MaxFaults /\ faults' = faults + 1

\* A request for task t reaches handleTask.
HandleTask(t) ==
    /\ server = "serving" /\ answer[t] = "none"
    /\ answer' = [answer EXCEPT ![t] = "running"]
    /\ UNCHANGED <<wire, dropped, amqp, server, stream, brokerVars>>

\* Mutant: the handler publishes again when it has not seen its frame confirmed.
PublishRetried(t) ==
    /\ server # "exited" /\ answer[t] = "running"
    /\ IF amqp
       THEN wire' = wire \cup {t} /\ answer' \in {answer, [answer EXCEPT ![t] = "201"]}
       ELSE answer' = [answer EXCEPT ![t] = "failed"] /\ UNCHANGED wire
    /\ UNCHANGED <<dropped, amqp, server, stream, brokerVars>>

\* mq.Publish: no confirms, so the answer only says that the frame was written.
Publish(t) ==
    /\ server # "exited" /\ answer[t] = "running"
    /\ IF amqp
       THEN wire' = wire \cup {t} /\ answer' = [answer EXCEPT ![t] = "201"]
       ELSE answer' = [answer EXCEPT ![t] = "failed"] /\ UNCHANGED wire
    /\ UNCHANGED <<dropped, amqp, server, stream, brokerVars>>

\* The broker routes a persistent message to the durable queue.
Route(t) ==
    /\ t \in wire
    /\ wire' = wire \ {t}
    /\ queue' = queue \cup {t}
    /\ UNCHANGED <<answer, dropped, amqp, server, stream, faults>>

\* The connection is lost and never dialled again by this process.
AmqpLost ==
    /\ amqp /\ Fault("amqp")
    /\ amqp' = FALSE
    /\ dropped' = dropped \cup wire
    /\ wire' = {}
    /\ UNCHANGED <<answer, server, stream, queue>>

\* A signal: main starts to stop HTTP.
Signal ==
    /\ server = "serving" /\ Fault("stop")
    /\ server' = "http"
    /\ UNCHANGED <<answer, wire, dropped, amqp, stream, queue>>

\* httpServer.Shutdown: the handlers have returned, or ten seconds are over.
HttpStopped ==
    /\ server = "http"
    /\ server' = "grpc"
    /\ UNCHANGED <<answer, wire, dropped, amqp, stream, brokerVars>>

\* The process ends: its handlers end with it, what is on the wire is routed.
End ==
    /\ server' = "exited"
    /\ answer' = [t \in Tasks |-> IF answer[t] = "running" THEN "failed" ELSE answer[t]]
    /\ stream' = [a \in Agents |-> FALSE]

\* GracefulStop waits for every RPC, Heartbeat streams included.
GrpcStopped ==
    /\ server = "grpc" /\ \A a \in Agents : ~stream[a]
    /\ End
    /\ UNCHANGED <<wire, dropped, amqp, brokerVars>>

Kill ==
    /\ server # "exited" /\ Fault("kill")
    /\ End
    /\ UNCHANGED <<wire, dropped, amqp, queue>>

Restart ==
    /\ server = "exited"
    /\ server' = "serving"
    /\ amqp' = TRUE
    /\ UNCHANGED <<answer, wire, dropped, stream, brokerVars>>

ServerInit ==
    /\ queue = {}
    /\ faults = 0
    /\ answer = [t \in Tasks |-> "none"]
    /\ wire = {}
    /\ dropped = {}
    /\ amqp = TRUE
    /\ server = "serving"
    /\ stream = [a \in Agents |-> FALSE]

ServerNext ==
    \/ \E t \in Tasks : HandleTask(t) \/ Publish(t) \/ Route(t)
    \/ AmqpLost \/ Signal \/ HttpStopped \/ GrpcStopped \/ Kill \/ Restart

ServerTypeOK ==
    /\ queue \subseteq Tasks
    /\ faults \in 0 .. MaxFaults
    /\ answer \in [Tasks -> {"none", "running", "201", "failed"}]
    /\ wire \subseteq Tasks
    /\ dropped \subseteq Tasks
    /\ amqp \in BOOLEAN
    /\ server \in {"serving", "http", "grpc", "exited"}
    /\ stream \in [Agents -> BOOLEAN]
=============================================================================
