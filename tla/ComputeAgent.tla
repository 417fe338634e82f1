---------------------------- MODULE ComputeAgent ----------------------------
(***************************************************************************)
(* The compute agent (compute/cmd/agent/main.go): a consumer loop with     *)
(* prefetch 1 that starts a goroutine per task, the loop that keeps a      *)
(* Heartbeat stream to the server, and a signal after which main waits for *)
(* the goroutines counted in wg.                                           *)
(***************************************************************************)
EXTENDS ComputeServer

CONSTANT NoTask
ASSUME NoTaskAssumption == NoTask \notin Tasks

VARIABLES
    main,       \* "connect", "serve", "wait" (wg.Wait), "leave", "exited"
    ctx,        \* TRUE until the context is cancelled
    link,       \* the agent's AMQP connection is open
    unacked,    \* the broker's view: the task delivered and not acknowledged
    inbox,      \* a delivery not yet taken by the consumer loop
    hand,       \* a delivery past the check of ctx, its goroutine not started
    jobs,       \* the goroutines counted in wg: task and step
    runs        \* history: how often each task's command was started

agentVars == <<main, ctx, link, unacked, inbox, hand, jobs, runs>>

Alive(a) == main[a] # "exited"
Steps == {"start", "running", "ran", "acked"}

\* The task the broker would deliver again if the agent's channel closed.
Owned(a) == {unacked[a]} \ {NoTask}

-----------------------------------------------------------------------------
(* The consumer. *)

\* Mutant: Consume with autoAck.
DeliverAutoAck(a, t) ==
    /\ Alive(a) /\ link[a] /\ inbox[a] = NoTask /\ t \in queue
    /\ queue' = queue \ {t}
    /\ inbox' = [inbox EXCEPT ![a] = t]
    /\ UNCHANGED <<main, ctx, link, unacked, hand, jobs, runs, faults, serverVars>>

\* Prefetch 1: nothing is delivered while a delivery is not acknowledged.
Deliver(a, t) ==
    /\ Alive(a) /\ link[a] /\ unacked[a] = NoTask /\ t \in queue
    /\ queue' = queue \ {t}
    /\ unacked' = [unacked EXCEPT ![a] = t]
    /\ inbox' = [inbox EXCEPT ![a] = t]
    /\ UNCHANGED <<main, ctx, link, hand, jobs, runs, faults, serverVars>>

\* Mutant: the delivery is acknowledged when it is received.
AcceptAcked(a) ==
    /\ Alive(a) /\ inbox[a] # NoTask /\ hand[a] = NoTask /\ ctx[a]
    /\ hand' = [hand EXCEPT ![a] = inbox[a]]
    /\ inbox' = [inbox EXCEPT ![a] = NoTask]
    /\ unacked' = [unacked EXCEPT ![a] = NoTask]
    /\ UNCHANGED <<main, ctx, link, jobs, runs, brokerVars, serverVars>>

\* The context is not cancelled: the delivery will be run.
Accept(a) ==
    /\ Alive(a) /\ inbox[a] # NoTask /\ hand[a] = NoTask /\ ctx[a]
    /\ hand' = [hand EXCEPT ![a] = inbox[a]]
    /\ inbox' = [inbox EXCEPT ![a] = NoTask]
    /\ UNCHANGED <<main, ctx, link, unacked, jobs, runs, brokerVars, serverVars>>

\* Mutant: d.Nack(false, false), which drops the task.
RefuseDropped(a) ==
    /\ Alive(a) /\ inbox[a] # NoTask /\ hand[a] = NoTask /\ ~ctx[a]
    /\ inbox' = [inbox EXCEPT ![a] = NoTask]
    /\ unacked' = [unacked EXCEPT ![a] = NoTask]
    /\ UNCHANGED <<main, ctx, link, hand, jobs, runs, brokerVars, serverVars>>

\* It is: d.Nack(false, true) gives the delivery back.
Refuse(a) ==
    /\ Alive(a) /\ inbox[a] # NoTask /\ hand[a] = NoTask /\ ~ctx[a]
    /\ inbox' = [inbox EXCEPT ![a] = NoTask]
    /\ unacked' = [unacked EXCEPT ![a] = NoTask]
    /\ queue' = queue \cup Owned(a)
    /\ UNCHANGED <<main, ctx, link, hand, jobs, runs, faults, serverVars>>

\* Mutant: a goroutine for the zero delivery of a closed channel.
SpawnZero(a) ==
    /\ Alive(a)
    /\ jobs' = [jobs EXCEPT ![a] = @ \cup {[task |-> hand[a], step |-> "start"]}]
    /\ hand' = [hand EXCEPT ![a] = NoTask]
    /\ UNCHANGED <<main, ctx, link, unacked, inbox, runs, brokerVars, serverVars>>

\* wg.Add and go.
Spawn(a) ==
    /\ Alive(a) /\ hand[a] # NoTask
    /\ jobs' = [jobs EXCEPT ![a] = @ \cup {[task |-> hand[a], step |-> "start"]}]
    /\ hand' = [hand EXCEPT ![a] = NoTask]
    /\ UNCHANGED <<main, ctx, link, unacked, inbox, runs, brokerVars, serverVars>>

-----------------------------------------------------------------------------
(* The goroutine of a task. *)

MoveJob(a, j, s) == jobs' = [jobs EXCEPT ![a] = (@ \ {j}) \cup {[j EXCEPT !.step = s]}]

\* Mutant: d.Ack before RunLocalCommand.
RunAcked(a, j) ==
    /\ Alive(a) /\ j.step = "start"
    /\ MoveJob(a, j, "running")
    /\ runs' = [runs EXCEPT ![j.task] = @ + 1]
    /\ unacked' = [unacked EXCEPT ![a] = IF link[a] THEN NoTask ELSE @]
    /\ UNCHANGED <<main, ctx, link, inbox, hand, brokerVars, serverVars>>

\* RunLocalCommand starts ...
Run(a, j) ==
    /\ Alive(a) /\ j.step = "start"
    /\ MoveJob(a, j, "running")
    /\ runs' = [runs EXCEPT ![j.task] = @ + 1]
    /\ UNCHANGED <<main, ctx, link, unacked, inbox, hand, brokerVars, serverVars>>

\* ... and returns, with or without success.  It may never do so: after ten seconds
\* the context kills sh alone, and CombinedOutput waits for whatever sh has started
\* and still holds the pipe.
Ran(a, j) ==
    /\ Alive(a) /\ j.step = "running"
    /\ MoveJob(a, j, "ran")
    /\ UNCHANGED <<main, ctx, link, unacked, inbox, hand, runs, brokerVars, serverVars>>

\* Mutant: the delivery is returned to the queue instead of acknowledged.
AckRequeued(a, j) ==
    /\ Alive(a) /\ j.step = "ran"
    /\ MoveJob(a, j, "acked")
    /\ unacked' = [unacked EXCEPT ![a] = NoTask]
    /\ queue' = queue \cup Owned(a)
    /\ UNCHANGED <<main, ctx, link, inbox, hand, runs, faults, serverVars>>

\* Mutant: a command that fails is not acknowledged.
AckOnSuccess(a, j) ==
    /\ Alive(a) /\ j.step = "ran"
    /\ MoveJob(a, j, "acked")
    /\ \E failed \in BOOLEAN :
          unacked' = [unacked EXCEPT ![a] = IF link[a] /\ ~failed THEN NoTask ELSE @]
    /\ UNCHANGED <<main, ctx, link, inbox, hand, runs, brokerVars, serverVars>>

\* Ack in both cases; on a lost connection it fails and is only logged.
Ack(a, j) ==
    /\ Alive(a) /\ j.step = "ran"
    /\ MoveJob(a, j, "acked")
    /\ unacked' = [unacked EXCEPT ![a] = IF link[a] THEN NoTask ELSE @]
    /\ UNCHANGED <<main, ctx, link, inbox, hand, runs, brokerVars, serverVars>>

\* The deferred wg.Done.
Done(a, j) ==
    /\ Alive(a) /\ j.step = "acked"
    /\ jobs' = [jobs EXCEPT ![a] = @ \ {j}]
    /\ UNCHANGED <<main, ctx, link, unacked, inbox, hand, runs, brokerVars, serverVars>>

-----------------------------------------------------------------------------
(* main *)

\* Register and Heartbeat succeed: the gRPC server is there.
Connect(a) ==
    /\ main[a] = "connect" /\ server \in {"serving", "http"}
    /\ main' = [main EXCEPT ![a] = "serve"]
    /\ stream' = [stream EXCEPT ![a] = TRUE]
    /\ UNCHANGED <<ctx, link, unacked, inbox, hand, jobs, runs,
                   answer, wire, dropped, amqp, server, brokerVars>>

\* Send fails on a broken stream: main dials again.
Reconnect(a) ==
    /\ main[a] = "serve" /\ ~stream[a]
    /\ main' = [main EXCEPT ![a] = "connect"]
    /\ UNCHANGED <<ctx, link, unacked, inbox, hand, jobs, runs, brokerVars, serverVars>>

StreamBroken(a) ==
    /\ stream[a] /\ Fault("network")
    /\ stream' = [stream EXCEPT ![a] = FALSE]
    /\ UNCHANGED <<agentVars, answer, wire, dropped, amqp, server, queue>>

AgentSignal(a) ==
    /\ Alive(a) /\ ctx[a] /\ Fault("drain")
    /\ ctx' = [ctx EXCEPT ![a] = FALSE]
    /\ UNCHANGED <<main, link, unacked, inbox, hand, jobs, runs, queue, serverVars>>

\* The loop ends and closes its gRPC connection; main goes on to wg.Wait.
Drain(a) ==
    /\ main[a] \in {"connect", "serve"} /\ ~ctx[a]
    /\ main' = [main EXCEPT ![a] = "wait"]
    /\ stream' = [stream EXCEPT ![a] = FALSE]
    /\ UNCHANGED <<ctx, link, unacked, inbox, hand, jobs, runs,
                   answer, wire, dropped, amqp, server, brokerVars>>

\* wg.Wait returns.
Waited(a) ==
    /\ main[a] = "wait" /\ jobs[a] = {}
    /\ main' = [main EXCEPT ![a] = "leave"]
    /\ UNCHANGED <<ctx, link, unacked, inbox, hand, jobs, runs, brokerVars, serverVars>>

\* The process is gone: the broker takes back what was not acknowledged.
Gone(a) ==
    /\ main' = [main EXCEPT ![a] = "exited"]
    /\ link' = [link EXCEPT ![a] = FALSE]
    /\ queue' = queue \cup Owned(a)
    /\ unacked' = [unacked EXCEPT ![a] = NoTask]
    /\ inbox' = [inbox EXCEPT ![a] = NoTask]
    /\ hand' = [hand EXCEPT ![a] = NoTask]
    /\ jobs' = [jobs EXCEPT ![a] = {}]
    /\ stream' = [stream EXCEPT ![a] = FALSE]
    /\ UNCHANGED <<ctx, runs, answer, wire, dropped, amqp, server>>

AgentExit(a) == main[a] = "leave" /\ Gone(a) /\ UNCHANGED faults

AgentCrash(a) == Alive(a) /\ Fault("crash") /\ Gone(a)

AgentRestart(a) ==
    /\ main[a] = "exited"
    /\ main' = [main EXCEPT ![a] = "connect"]
    /\ ctx' = [ctx EXCEPT ![a] = TRUE]
    /\ link' = [link EXCEPT ![a] = TRUE]
    /\ UNCHANGED <<unacked, inbox, hand, jobs, runs, brokerVars, serverVars>>

\* The agent's AMQP connection is lost: the deliveries channel is closed, the
\* consumer loop ends once it has started what it has in hand, and nothing
\* dials again.
LinkLost(a) ==
    /\ Alive(a) /\ link[a] /\ Fault("link")
    /\ link' = [link EXCEPT ![a] = FALSE]
    /\ queue' = queue \cup Owned(a)
    /\ unacked' = [unacked EXCEPT ![a] = NoTask]
    /\ inbox' = [inbox EXCEPT ![a] = NoTask]
    /\ UNCHANGED <<main, ctx, hand, jobs, runs, serverVars>>

-----------------------------------------------------------------------------
Consume(a) == Accept(a) \/ Refuse(a) \/ Spawn(a)

Work(a) == \E j \in jobs[a] : Run(a, j) \/ Ran(a, j) \/ Ack(a, j) \/ Done(a, j)

Keep(a) == Connect(a) \/ Reconnect(a) \/ Drain(a) \/ Waited(a) \/ AgentExit(a)

AgentNext(a) ==
    \/ \E t \in Tasks : Deliver(a, t)
    \/ Consume(a)
    \/ Work(a)
    \/ Keep(a)
    \/ StreamBroken(a) \/ AgentSignal(a) \/ AgentCrash(a) \/ AgentRestart(a) \/ LinkLost(a)

AgentInit ==
    /\ main = [a \in Agents |-> "connect"]
    /\ ctx = [a \in Agents |-> TRUE]
    /\ link = [a \in Agents |-> TRUE]
    /\ unacked = [a \in Agents |-> NoTask]
    /\ inbox = [a \in Agents |-> NoTask]
    /\ hand = [a \in Agents |-> NoTask]
    /\ jobs = [a \in Agents |-> {}]
    /\ runs = [t \in Tasks |-> 0]

AgentTypeOK ==
    /\ main \in [Agents -> {"connect", "serve", "wait", "leave", "exited"}]
    /\ ctx \in [Agents -> BOOLEAN]
    /\ link \in [Agents -> BOOLEAN]
    /\ unacked \in [Agents -> Tasks \cup {NoTask}]
    /\ inbox \in [Agents -> Tasks \cup {NoTask}]
    /\ hand \in [Agents -> Tasks \cup {NoTask}]
    /\ jobs \in [Agents -> SUBSET [task : Tasks, step : Steps]]
    /\ runs \in [Tasks -> Nat]
=============================================================================
