---------------------------- MODULE TaskDispatch ----------------------------
(***************************************************************************)
(* Task dispatch end to end: the compute server, the queue and the agents. *)
(***************************************************************************)
EXTENDS ComputeAgent

vars == <<brokerVars, serverVars, agentVars>>

Init == ServerInit /\ AgentInit

Next ==
    \/ ServerNext /\ UNCHANGED agentVars
    \/ \E a \in Agents : AgentNext(a)

Spec == Init /\ [][Next]_vars

\* Goroutines that can run do, and the broker delivers to every consumer in turn.
\* Nothing makes a command end (Ran), and no manifest of the repository runs the
\* compute server or its agents, so nothing restarts them either.
Fairness ==
    /\ \A t \in Tasks :
          /\ WF_vars(Publish(t) /\ UNCHANGED agentVars)
          /\ WF_vars(Route(t) /\ UNCHANGED agentVars)
          /\ SF_vars(\E a \in Agents : Deliver(a, t))
    /\ WF_vars((HttpStopped \/ GrpcStopped) /\ UNCHANGED agentVars)
    /\ \A a \in Agents :
          /\ WF_vars(Consume(a))
          /\ WF_vars(\E j \in jobs[a] : Run(a, j) \/ Ack(a, j) \/ Done(a, j))
          /\ WF_vars(Keep(a))

FairSpec == Spec /\ Fairness

-----------------------------------------------------------------------------
\* Every variable stays in its domain.
TypeOK == ServerTypeOK /\ AgentTypeOK

\* The broker has the task, or is about to.
Owed(t) == t \in wire \/ t \in queue \/ \E a \in Agents : unacked[a] = t

\* A task answered with 201 is not lost by agents that die, lose their
\* connection or shut down at any point: until its command has been started
\* the broker has it.  Only a connection lost under the publish loses it.
AcceptedIsKept ==
    \A t \in Tasks : answer[t] = "201" => Owed(t) \/ runs[t] > 0 \/ t \in dropped

\* A command is run again only because of a crash, a lost connection or a
\* shutdown, one more time for each.
RerunsHaveCause == \A t \in Tasks : runs[t] <= 1 + faults

\* A task is in one place: on the wire, in the queue or with one agent.  A link
\* lost, a refused delivery or an exit gives a delivery back without keeping it.
OnePlace ==
    /\ wire \cap queue = {}
    /\ \A a \in Agents : Owned(a) \cap (wire \cup queue) = {}
    /\ \A a, b \in Agents : Owned(a) \cap Owned(b) # {} => a = b

\* With prefetch 1 a delivery nobody holds blocks its agent for good: while the
\* broker waits for an acknowledgement the connection is there to bring it, and
\* the delivery is in the inbox, in hand or with a goroutine that has yet to
\* acknowledge it.  (A command that never ends blocks its agent all the same.)
NoStuckDelivery ==
    \A a \in Agents : unacked[a] # NoTask =>
        /\ link[a]
        /\ \/ inbox[a] = unacked[a]
           \/ hand[a] = unacked[a]
           \/ \E j \in jobs[a] : j.task = unacked[a] /\ j.step # "acked"

\* The broker forgets a task only when its agent, with the command at its end,
\* acknowledges it, or when its frame is lost: an agent that dies or drains in
\* the middle of a command makes it forget nothing.
ForgetsOnlyRun ==
    [][\A t \in Tasks : Owed(t) /\ ~Owed(t)' =>
          \/ t \in dropped'
          \/ \E a \in Agents : \E j \in jobs[a] :
                link[a] /\ j.task = t /\ j.step = "ran"]_vars

\* The queue implements the ledger: a task settled or lost never comes back, a
\* late agent starts only what has been started before, and what the server's
\* connection loses nobody has started.
Ledger == INSTANCE TaskLedger WITH
              kept <- {t \in Tasks : Owed(t)}, starts <- runs, lost <- dropped
LedgerSpec == Ledger!Spec

\* The agent is there, attached to the queue and not in the middle of a command.
Ready(a) == Alive(a) /\ link[a] /\ \A j \in jobs[a] : j.step # "running"

\* As long as time and again some agent is ready, a task answered with 201 is run
\* in the end, unless it was lost with the server's connection: other agents may
\* crash, lose their link, hang in a command for ever, or give the task back while
\* they drain, and the server may stop.
AcceptedIsRun ==
    []<>(\E a \in Agents : Ready(a)) =>
        \A t \in Tasks : answer[t] = "201" ~> (runs[t] > 0 \/ t \in dropped)

-----------------------------------------------------------------------------
(* What comments and docs say, and the code does not do. *)

\* compute/cmd/server/main.go:134 "ten seconds to tidy up, killed after that":
\* a server told to stop stops, though agents go on.
ServerStops == server = "http" ~> server = "exited"

\* compute/README.md:40 "waits for the tasks under way to be finished before it
\* exits": when wg.Wait has returned no command is running any more.
LeavesIdle ==
    \A a \in Agents : main[a] = "leave" => \A j \in jobs[a] : j.step # "running"
=============================================================================
