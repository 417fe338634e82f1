--------------------------- MODULE TaskLedgerProofs --------------------------
(***************************************************************************)
(* Where a task is, what the broker waits for, when a task is forgotten,   *)
(* and that the queue with its agents implements TaskLedger, for every set *)
(* of tasks and agents and every number and kind of faults.                *)
(***************************************************************************)
EXTENDS TaskDispatchProofs

USE NoTaskAssumption

-----------------------------------------------------------------------------
(* What the broker sees of a step of an agent. *)

\* It delivers a task, takes one back, gets an acknowledgement of a command that
\* has come to an end, or sees nothing.
Delivered(a) ==
    \E t \in queue : /\ unacked[a] = NoTask
                     /\ queue' = queue \ {t}
                     /\ unacked' = [unacked EXCEPT ![a] = t]
                     /\ UNCHANGED runs

GivenBack(a) ==
    /\ queue' = queue \cup Owned(a)
    /\ unacked' = [unacked EXCEPT ![a] = NoTask]
    /\ UNCHANGED runs

Acked(a) ==
    \E j \in jobs[a] : /\ link[a] /\ j.step = "ran" /\ unacked[a] = j.task /\ runs[j.task] > 0
                       /\ unacked' = [unacked EXCEPT ![a] = NoTask]
                       /\ UNCHANGED <<queue, runs>>

RunStarted(a) ==
    \E j \in jobs[a] : /\ j.step = "start"
                       /\ runs' = [runs EXCEPT ![j.task] = @ + 1]
                       /\ UNCHANGED <<queue, unacked>>

Unseen == UNCHANGED <<queue, unacked, runs>>

LEMMA BrokersView ==
    ASSUME IInv, NEW a \in Agents, AgentNext(a)
    PROVE  /\ UNCHANGED <<wire, dropped, answer>>
           /\ Delivered(a) \/ GivenBack(a) \/ Acked(a) \/ RunStarted(a) \/ Unseen
<1> USE DEF IInv, TypeOK, AgentTypeOK, serverVars, brokerVars
<1>1. UNCHANGED <<wire, dropped, answer>>
  BY DEF AgentNext, Deliver, Consume, Accept, Refuse, Spawn, Work, Run, Ran, Ack, Done, Keep, Connect,
         Reconnect, Drain, Waited, AgentExit, Gone, StreamBroken, AgentSignal, AgentCrash, AgentRestart, LinkLost
<1>2. ASSUME NEW t \in Tasks, Deliver(a, t) PROVE Delivered(a)
  BY <1>2 DEF Deliver, Delivered
<1>3. CASE Refuse(a) \/ AgentExit(a) \/ AgentCrash(a) \/ LinkLost(a)
  BY <1>3 DEF Refuse, AgentExit, AgentCrash, Gone, LinkLost, GivenBack
<1>4. ASSUME NEW j \in jobs[a], Ack(a, j) PROVE Acked(a) \/ Unseen
  <2>1. j.task \in Tasks /\ runs[j.task] > 0 /\ (link[a] => unacked[a] = j.task)
    BY <1>4 DEF Ack, OwnsAll, Started, Active
  <2> QED BY <1>4, <2>1 DEF Ack, Acked, Unseen
<1>5. ASSUME NEW j \in jobs[a], Run(a, j) PROVE RunStarted(a)
  BY <1>5 DEF Run, RunStarted
<1>6. ASSUME NEW j \in jobs[a], Ran(a, j) \/ Done(a, j) PROVE Unseen
  BY <1>6 DEF Ran, Done, Unseen
<1>7. CASE Accept(a) \/ Spawn(a) \/ Connect(a) \/ Reconnect(a) \/ Drain(a) \/ Waited(a)
  BY <1>7 DEF Accept, Spawn, Connect, Reconnect, Drain, Waited, Unseen
<1>8. CASE StreamBroken(a) \/ AgentSignal(a) \/ AgentRestart(a)
  BY <1>8 DEF StreamBroken, AgentSignal, AgentRestart, agentVars, Unseen
<1> QED BY <1>1, <1>2, <1>3, <1>4, <1>5, <1>6, <1>7, <1>8 DEF AgentNext, Consume, Work, Keep

-----------------------------------------------------------------------------
(* A task is in one place, and untouched before it is one. *)

\* The agent has never had the task; none of them has.
NotTouchedBy(a, t) ==
    /\ unacked[a] # t /\ inbox[a] # t /\ hand[a] # t
    /\ \A j \in jobs[a] : j.task # t

Untouched(t) == runs[t] = 0 /\ \A a \in Agents : NotTouchedBy(a, t)

\* Before it is answered, on the wire and when it is lost, a task is untouched;
\* what is with the broker or lost has been answered, and is not both.
Fresh(t) ==
    /\ answer[t] # "201" \/ t \in wire \/ t \in dropped => Untouched(t)
    /\ answer[t] # "201" => t \notin wire \cup queue \cup dropped
    /\ t \in dropped => t \notin wire \cup queue

\* An agent touches only what is in the queue.
LEMMA TouchesQueued ==
    ASSUME IInv, NEW a \in Agents, AgentNext(a), NEW t \in Tasks, Untouched(t), t \notin queue
    PROVE  Untouched(t)'
<1> USE DEF IInv, TypeOK, AgentTypeOK
<1>1. NotTouchedBy(a, t) /\ runs[t] = 0
  BY DEF Untouched
<1>2. t # NoTask
  OBVIOUS
<1>3. ASSUME NEW j \in jobs[a], NEW s \in Steps, MoveJob(a, j, s)
      PROVE  \A i \in jobs'[a] : i.task # t
  <2> DEFINE k == [j EXCEPT !.step = s]
  <2>1. jobs'[a] = (jobs[a] \ {j}) \cup {k} /\ k.task = j.task
    BY <1>3 DEF MoveJob
  <2> HIDE DEF k
  <2> QED BY <1>1, <2>1 DEF NotTouchedBy
<1>4. NotTouchedBy(a, t)' /\ runs'[t] = 0
  <2> USE <1>1, <1>2 DEF NotTouchedBy
  <2>1. ASSUME NEW u \in Tasks, Deliver(a, u) PROVE NotTouchedBy(a, t)' /\ runs'[t] = 0
    BY <2>1 DEF Deliver
  <2>2. CASE Consume(a)
    BY <2>2 DEF Consume, Accept, Refuse, Spawn
  <2>3. ASSUME NEW j \in jobs[a], Run(a, j) PROVE NotTouchedBy(a, t)' /\ runs'[t] = 0
    BY <1>3, <2>3 DEF Run, Steps
  <2>4. ASSUME NEW j \in jobs[a], Ran(a, j) \/ Ack(a, j) PROVE NotTouchedBy(a, t)' /\ runs'[t] = 0
    BY <1>3, <2>4 DEF Ran, Ack, Steps
  <2>5. ASSUME NEW j \in jobs[a], Done(a, j) PROVE NotTouchedBy(a, t)' /\ runs'[t] = 0
    BY <2>5 DEF Done
  <2>6. CASE Keep(a)
    BY <2>6 DEF Keep, Connect, Reconnect, Drain, Waited, AgentExit, Gone
  <2>7. CASE StreamBroken(a) \/ AgentSignal(a) \/ AgentCrash(a) \/ AgentRestart(a) \/ LinkLost(a)
    BY <2>7 DEF StreamBroken, agentVars, AgentSignal, AgentCrash, Gone, AgentRestart, LinkLost
  <2> QED BY <2>1, <2>2, <2>3, <2>4, <2>5, <2>6, <2>7 DEF AgentNext, Work
<1>5. ASSUME NEW b \in Agents, b # a PROVE NotTouchedBy(b, t)'
  BY <1>5, OtherStep DEF Untouched, NotTouchedBy
<1> QED BY <1>4, <1>5 DEF Untouched

\* Steps of the server keep both: a task is published once, while its request is
\* running.
LEMMA ServerPlaces ==
    ASSUME TypeOK, OnePlace, \A t \in Tasks : Fresh(t), ServerNext, UNCHANGED agentVars
    PROVE  OnePlace' /\ \A t \in Tasks : Fresh(t)'
<1> USE DEF TypeOK, ServerTypeOK, AgentTypeOK, agentVars, brokerVars, OnePlace, Owned
<1>1. \A t \in Tasks : Untouched(t) => Untouched(t)'
  BY DEF Untouched, NotTouchedBy
<1>2. ASSUME NEW u \in Tasks, HandleTask(u) PROVE OnePlace' /\ \A t \in Tasks : Fresh(t)'
  BY <1>1, <1>2 DEF HandleTask, Fresh
<1>3. ASSUME NEW u \in Tasks, Publish(u) PROVE OnePlace' /\ \A t \in Tasks : Fresh(t)'
  <2>1. OnePlace'
    BY <1>3 DEF Publish, Fresh, Untouched, NotTouchedBy
  <2>2. \A t \in Tasks : Fresh(t)'
    BY <1>1, <1>3 DEF Publish, Fresh
  <2> QED BY <2>1, <2>2
<1>4. ASSUME NEW u \in Tasks, Route(u) PROVE OnePlace' /\ \A t \in Tasks : Fresh(t)'
  <2>1. OnePlace'
    BY <1>4 DEF Route, Fresh, Untouched, NotTouchedBy
  <2>2. \A t \in Tasks : Fresh(t)'
    BY <1>1, <1>4 DEF Route, Fresh
  <2> QED BY <2>1, <2>2
<1>5. CASE AmqpLost
  BY <1>1, <1>5 DEF AmqpLost, Fresh
<1>6. CASE Signal \/ HttpStopped \/ Restart
  BY <1>1, <1>6 DEF Signal, HttpStopped, Restart, Fresh
<1>7. CASE GrpcStopped \/ Kill
  BY <1>1, <1>7 DEF GrpcStopped, Kill, End, Fresh
<1> QED BY <1>2, <1>3, <1>4, <1>5, <1>6, <1>7 DEF ServerNext

\* So do the agents': what is given back was with that agent only.
LEMMA AgentPlaces ==
    ASSUME IInv, OnePlace, \A t \in Tasks : Fresh(t), NEW a \in Agents, AgentNext(a)
    PROVE  OnePlace' /\ \A t \in Tasks : Fresh(t)'
<1> USE DEF Owned
<1>1. UNCHANGED <<wire, dropped, answer>>
  BY BrokersView
<1>2. queue \subseteq Tasks /\ unacked \in [Agents -> Tasks \cup {NoTask}]
  BY DEF IInv, TypeOK, ServerTypeOK, AgentTypeOK
<1>3. OnePlace'
  <2>1. CASE Delivered(a)
    BY <1>1, <1>2, <2>1 DEF OnePlace, Delivered
  <2>2. CASE GivenBack(a)
    BY <1>1, <1>2, <2>2 DEF OnePlace, GivenBack
  <2>3. CASE Acked(a)
    BY <1>1, <1>2, <2>3 DEF OnePlace, Acked
  <2>4. CASE RunStarted(a) \/ Unseen
    BY <1>1, <2>4 DEF OnePlace, RunStarted, Unseen
  <2> QED BY <2>1, <2>2, <2>3, <2>4, BrokersView
<1>4. ASSUME NEW t \in Tasks PROVE Fresh(t)'
  <2>1. t \in queue' => t \in queue \/ t \in Owned(a)
    BY BrokersView DEF Delivered, GivenBack, Acked, RunStarted, Unseen
  <2>2. t \in Owned(a) => ~Untouched(t)
    BY DEF Untouched, NotTouchedBy
  <2>3. answer[t] # "201" \/ t \in wire \/ t \in dropped => Untouched(t) /\ t \notin queue
    BY DEF Fresh, OnePlace
  <2>4. answer[t] # "201" \/ t \in wire \/ t \in dropped => Untouched(t)'
    BY <2>3, TouchesQueued
  <2> QED BY <1>1, <2>1, <2>2, <2>3, <2>4 DEF Fresh
<1> QED BY <1>3, <1>4

Placed == OnePlace /\ \A t \in Tasks : Fresh(t)

LEMMA AlwaysPlaced == Spec => []Placed
<1>1. Init => Placed
  <2> SUFFICES ASSUME Init PROVE Placed
    OBVIOUS
  <2>1. OnePlace
    BY DEF Init, ServerInit, AgentInit, OnePlace, Owned
  <2>2. \A t \in Tasks : t # NoTask
    OBVIOUS
  <2>3. ASSUME NEW t \in Tasks PROVE Fresh(t)
    BY <2>2, <2>3 DEF Init, ServerInit, AgentInit, Fresh, Untouched, NotTouchedBy
  <2> QED BY <2>1, <2>3 DEF Placed
<1>2. ASSUME IInv, Placed, [Next]_vars PROVE Placed'
  <2>1. CASE ServerNext /\ UNCHANGED agentVars
    BY <1>2, <2>1, ServerPlaces DEF Placed, IInv
  <2>2. ASSUME NEW a \in Agents, AgentNext(a) PROVE Placed'
    BY <1>2, <2>2, AgentPlaces DEF Placed
  <2>3. CASE UNCHANGED vars
    BY <1>2, <2>3 DEF vars, brokerVars, serverVars, agentVars, Placed, OnePlace, Owned, Fresh, Untouched, NotTouchedBy
  <2> QED BY <1>2, <2>1, <2>2, <2>3 DEF Next
<1> QED BY <1>1, <1>2, Invariance, PTL DEF Spec

\* OnePlace: no interleaving of deliveries, refusals, exits and lost links ever
\* makes a second copy of a task, so the queue may be treated as a set.
THEOREM OneCopyOfATask == Spec => []OnePlace
BY AlwaysPlaced, PTL DEF Placed

-----------------------------------------------------------------------------
(* What is waited for. *)

\* Where the delivery that the broker waits for is, on its way to be settled.
Pending(a) ==
    unacked[a] # NoTask =>
        /\ link[a]
        /\ \/ inbox[a] = unacked[a]
           \/ hand[a] = unacked[a]
           \/ \E j \in jobs[a] : j.task = unacked[a] /\ j.step # "acked"

\* A goroutine that has not acknowledged yet goes on, still with its task.
LEMMA MovePending ==
    ASSUME IInv, NEW a \in Agents, Pending(a), NEW j \in jobs[a], NEW s \in {"running", "ran"},
           MoveJob(a, j, s), UNCHANGED <<link, unacked, inbox, hand>>
    PROVE  Pending(a)'
<1> DEFINE k == [j EXCEPT !.step = s]
<1>1. jobs'[a] = (jobs[a] \ {j}) \cup {k} /\ k.task = j.task /\ k.step = s
  BY DEF MoveJob, IInv, TypeOK, AgentTypeOK
<1> HIDE DEF k
<1> QED BY <1>1 DEF Pending

\* Each step of the agent moves the delivery one place on, or settles it.
LEMMA OwnPending ==
    ASSUME IInv, NEW a \in Agents, Pending(a), AgentNext(a)
    PROVE  Pending(a)'
<1> USE DEF IInv, TypeOK, AgentTypeOK
<1>1. ASSUME NEW t \in Tasks, Deliver(a, t) PROVE Pending(a)'
  BY <1>1 DEF Deliver, Pending
<1>2. CASE Accept(a)
  BY <1>2 DEF Accept, Pending
<1>3. CASE Refuse(a)
  BY <1>3 DEF Refuse, Pending
<1>4. CASE Spawn(a)
  <2> DEFINE new == [task |-> hand[a], step |-> "start"]
  <2>1. jobs'[a] = jobs[a] \cup {new} /\ new.task = hand[a] /\ new.step # "acked"
    BY <1>4 DEF Spawn
  <2> HIDE DEF new
  <2> QED BY <1>4, <2>1 DEF Spawn, Pending
<1>5. ASSUME NEW j \in jobs[a], Run(a, j) \/ Ran(a, j) PROVE Pending(a)'
  BY <1>5, MovePending DEF Run, Ran
<1>6. ASSUME NEW j \in jobs[a], Ack(a, j) PROVE Pending(a)'
  BY <1>6 DEF Ack, Pending
<1>7. ASSUME NEW j \in jobs[a], Done(a, j) PROVE Pending(a)'
  BY <1>7 DEF Done, Pending
<1>8. CASE Keep(a)
  BY <1>8 DEF Keep, Connect, Reconnect, Drain, Waited, AgentExit, Gone, Pending
<1>9. CASE StreamBroken(a) \/ AgentSignal(a) \/ AgentCrash(a) \/ AgentRestart(a) \/ LinkLost(a)
  BY <1>9 DEF StreamBroken, agentVars, AgentSignal, AgentCrash, Gone, AgentRestart, LinkLost, Pending
<1> QED BY <1>1, <1>2, <1>3, <1>4, <1>5, <1>6, <1>7, <1>8, <1>9 DEF AgentNext, Consume, Work

\* NoStuckDelivery: whatever links are lost, commands fail or agents drain, no
\* agent is blocked by a delivery that nobody will settle.
THEOREM NoDeliveryStuck == Spec => []NoStuckDelivery
<1>1. Init => NoStuckDelivery
  BY DEF Init, AgentInit, NoStuckDelivery
<1>2. ASSUME IInv, NoStuckDelivery, [Next]_vars PROVE NoStuckDelivery'
  <2>1. CASE UNCHANGED agentVars
    BY <1>2, <2>1 DEF agentVars, NoStuckDelivery
  <2>2. ASSUME NEW a \in Agents, AgentNext(a) PROVE NoStuckDelivery'
    <3>1. Pending(a)'
      BY <1>2, <2>2, OwnPending DEF NoStuckDelivery, Pending
    <3>2. ASSUME NEW b \in Agents, b # a PROVE Pending(b)'
      BY <1>2, <2>2, <3>2, OtherStep DEF IInv, NoStuckDelivery, Pending
    <3> QED BY <3>1, <3>2 DEF NoStuckDelivery, Pending
  <2> QED BY <1>2, <2>1, <2>2 DEF Next, vars
<1> QED BY <1>1, <1>2, Invariance, PTL DEF Spec

-----------------------------------------------------------------------------
(* What is forgotten. *)

\* ForgetsOnlyRun: of all the steps that take a task from the broker or from an
\* agent, only the acknowledgement after the command and the loss of the
\* server's connection do not put it back.
THEOREM OnlyRunForgotten == Spec => ForgetsOnlyRun
<1> DEFINE Forgotten(t) == \/ t \in dropped'
                           \/ \E a \in Agents : \E j \in jobs[a] :
                                 link[a] /\ j.task = t /\ j.step = "ran"
           Step == \A t \in Tasks : Owed(t) /\ ~Owed(t)' => Forgotten(t)
<1>1. ASSUME IInv, [Next]_vars PROVE [Step]_vars
  <2> SUFFICES ASSUME NEW t \in Tasks, Owed(t), ~Owed(t)' PROVE Forgotten(t)
    OBVIOUS
  <2>1. CASE ServerNext /\ UNCHANGED agentVars
    <3>1. t \in wire => t \in wire' \cup queue' \cup dropped'
      BY <2>1 DEF ServerNext, HandleTask, Publish, Route, AmqpLost, Signal, HttpStopped, GrpcStopped,
                  Kill, Restart, brokerVars
    <3>2. t \in queue => t \in queue'
      BY <2>1 DEF ServerNext, HandleTask, Publish, Route, AmqpLost, Signal, HttpStopped, GrpcStopped,
                  Kill, Restart, brokerVars
    <3> QED BY <2>1, <3>1, <3>2 DEF Owed, agentVars
  <2>2. ASSUME NEW a \in Agents, AgentNext(a) PROVE Forgotten(t)
    <3>1. UNCHANGED wire /\ t \notin wire
      BY <1>1, <2>2, BrokersView DEF Owed
    <3>2. unacked \in [Agents -> Tasks \cup {NoTask}]
      BY <1>1 DEF IInv, TypeOK, AgentTypeOK
    <3>3. ~Delivered(a)
      BY <3>1, <3>2 DEF Owed, Delivered
    <3>4. ~GivenBack(a)
      BY <3>1, <3>2 DEF Owed, GivenBack, Owned
    <3>5. ~RunStarted(a) /\ ~Unseen
      BY <3>1 DEF Owed, RunStarted, Unseen
    <3>6. CASE Acked(a)
      BY <3>1, <3>2, <3>6 DEF Acked, Owed
    <3> QED BY <1>1, <2>2, <3>3, <3>4, <3>5, <3>6, BrokersView
  <2>3. CASE UNCHANGED vars
    BY <2>3 DEF Owed, vars, brokerVars, serverVars, agentVars
  <2> QED BY <1>1, <2>1, <2>2, <2>3 DEF Next
<1>2. IInv /\ [Next]_vars => [Step]_vars
  BY <1>1
<1>3. ForgetsOnlyRun <=> [][Step]_vars
  BY DEF ForgetsOnlyRun
<1> QED BY <1>2, <1>3, Invariance, PTL DEF Spec

-----------------------------------------------------------------------------
(* The queue with its agents implements TaskLedger. *)

Kepts == {t \in Tasks : Owed(t)}

\* A server's step takes a task in, loses those on the wire, or stutters.
LEMMA ServerLedger ==
    ASSUME TypeOK, Placed, ServerNext, UNCHANGED agentVars
    PROVE  [Ledger!Next]_Ledger!vars
<1> USE DEF TypeOK, ServerTypeOK, AgentTypeOK, agentVars, brokerVars, Owned
<1>1. ASSUME NEW t \in Tasks, Publish(t) PROVE [Ledger!Next]_Ledger!vars
  <2>1. CASE amqp
    <3>1. ~Owed(t) /\ t \notin dropped /\ runs[t] = 0
      BY <1>1 DEF Publish, Placed, Fresh, Untouched, NotTouchedBy, Owed
    <3>2. Kepts' = Kepts \cup {t} /\ UNCHANGED <<runs, dropped>>
      BY <1>1, <2>1 DEF Publish, Kepts, Owed
    <3>3. Ledger!Take(t)
      BY <3>1, <3>2 DEF Ledger!Take, Kepts
    <3> QED BY <3>3 DEF Ledger!Next
  <2>2. CASE ~amqp
    BY <1>1, <2>2 DEF Publish, Owed, Ledger!vars
  <2> QED BY <2>1, <2>2
<1>2. ASSUME NEW t \in Tasks, Route(t) PROVE [Ledger!Next]_Ledger!vars
  BY <1>2 DEF Route, Owed, Ledger!vars
<1>3. CASE AmqpLost
  <2>1. wire \in SUBSET Kepts /\ \A t \in wire : runs[t] = 0
    BY DEF Placed, Fresh, Untouched, Kepts, Owed
  <2>2. \A t \in Tasks : Owed(t)' <=> Owed(t) /\ t \notin wire
    BY <1>3 DEF AmqpLost, Placed, OnePlace, Owed
  <2>3. Kepts' = Kepts \ wire /\ dropped' = dropped \cup wire /\ UNCHANGED runs
    BY <1>3, <2>2 DEF AmqpLost, Kepts
  <2>4. Ledger!Lose(wire)
    BY <2>1, <2>3 DEF Ledger!Lose, Kepts
  <2> QED BY <2>1, <2>4 DEF Ledger!Next, Kepts
<1>4. ASSUME NEW t \in Tasks, HandleTask(t) PROVE [Ledger!Next]_Ledger!vars
  BY <1>4 DEF HandleTask, Owed, Ledger!vars
<1>5. CASE Signal \/ HttpStopped \/ Restart \/ GrpcStopped \/ Kill
  BY <1>5 DEF Signal, HttpStopped, Restart, GrpcStopped, Kill, Owed, Ledger!vars
<1> QED BY <1>1, <1>2, <1>3, <1>4, <1>5 DEF ServerNext

\* An agent's step starts a task, settles one, or stutters.
LEMMA AgentLedger ==
    ASSUME IInv, Placed, AcceptedIsKept, NEW a \in Agents, AgentNext(a)
    PROVE  [Ledger!Next]_Ledger!vars
<1>1. /\ UNCHANGED <<wire, dropped>>
      /\ unacked \in [Agents -> Tasks \cup {NoTask}] /\ runs \in [Tasks -> Nat] /\ queue \subseteq Tasks
      /\ \A j \in jobs[a] : j.task \in Tasks
  BY BrokersView DEF IInv, TypeOK, ServerTypeOK, AgentTypeOK
<1>2. CASE Delivered(a)
  <2>1. \A t \in Tasks : Owed(t)' <=> Owed(t)
    BY <1>1, <1>2 DEF Delivered, Owed
  <2> QED BY <1>1, <1>2, <2>1 DEF Delivered, Ledger!vars
<1>3. CASE GivenBack(a)
  <2>1. \A t \in Tasks : Owed(t)' <=> Owed(t)
    BY <1>1, <1>3 DEF GivenBack, Owed, Owned
  <2> QED BY <1>1, <1>3, <2>1 DEF GivenBack, Ledger!vars
<1>4. CASE Acked(a)
  <2>1. PICK j \in jobs[a] : /\ unacked[a] = j.task /\ runs[j.task] > 0
                             /\ unacked' = [unacked EXCEPT ![a] = NoTask]
                             /\ UNCHANGED <<queue, runs>>
    BY <1>4 DEF Acked
  <2>2. j.task \in Tasks /\ Owed(j.task)
    BY <1>1, <2>1 DEF Owed
  <2>3. \A t \in Tasks : Owed(t)' <=> Owed(t) /\ t # j.task
    BY <1>1, <2>1, <2>2 DEF Owed, Placed, OnePlace, Owned
  <2>4. Kepts' = Kepts \ {j.task}
    BY <2>3 DEF Kepts
  <2>5. Ledger!Settle(j.task)
    BY <1>1, <2>1, <2>2, <2>4 DEF Ledger!Settle, Kepts
  <2> QED BY <2>2, <2>5 DEF Ledger!Next
<1>5. CASE RunStarted(a)
  <2>1. PICK j \in jobs[a] : runs' = [runs EXCEPT ![j.task] = @ + 1] /\ UNCHANGED <<queue, unacked>>
    BY <1>5 DEF RunStarted
  <2>2. ~Untouched(j.task)
    BY DEF Untouched, NotTouchedBy
  <2>3. answer[j.task] = "201" /\ j.task \notin dropped
    BY <1>1, <2>2 DEF Placed, Fresh
  <2>4. Owed(j.task) \/ runs[j.task] > 0
    BY <1>1, <2>3 DEF AcceptedIsKept
  <2>5. UNCHANGED Kepts
    BY <1>1, <2>1 DEF Kepts, Owed
  <2>6. Ledger!Start(j.task)
    BY <1>1, <2>1, <2>4, <2>5 DEF Ledger!Start, Kepts
  <2> QED BY <1>1, <2>6 DEF Ledger!Next
<1>6. CASE Unseen
  BY <1>1, <1>6 DEF Unseen, Owed, Ledger!vars
<1> QED BY <1>2, <1>3, <1>4, <1>5, <1>6, BrokersView

\* LedgerSpec: at-least-once delivery, with the promise that goes with it. What
\* is settled or lost never comes back, a first start is of a kept task, and
\* what is lost has not been started.
THEOREM QueueImplementsLedger == Spec => LedgerSpec
<1>1. Init => Ledger!Init
  BY DEF Init, ServerInit, AgentInit, Ledger!Init, Owed
<1>2. ASSUME IInv, Placed, AcceptedIsKept, [Next]_vars PROVE [Ledger!Next]_Ledger!vars
  <2>1. CASE ServerNext /\ UNCHANGED agentVars
    BY <1>2, <2>1, ServerLedger DEF IInv
  <2>2. ASSUME NEW a \in Agents, AgentNext(a) PROVE [Ledger!Next]_Ledger!vars
    BY <1>2, <2>2, AgentLedger
  <2>3. CASE UNCHANGED vars
    BY <2>3 DEF vars, brokerVars, serverVars, agentVars, Owed, Ledger!vars
  <2> QED BY <1>2, <2>1, <2>2, <2>3 DEF Next
<1> QED BY <1>1, <1>2, Invariance, AlwaysPlaced, NoTaskLost, PTL DEF Spec, LedgerSpec, Ledger!Spec
=============================================================================
