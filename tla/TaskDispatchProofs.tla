-------------------------- MODULE TaskDispatchProofs --------------------------
(***************************************************************************)
(* Theorems about TaskDispatch, for every set of tasks and agents, and     *)
(* every number and kind of faults.                                        *)
(***************************************************************************)
EXTENDS TaskDispatch, FiniteSetTheorems, TLAPS

USE FaultsAssumption, NoTaskAssumption

-----------------------------------------------------------------------------
(* Type correctness. *)

\* Steps of the server keep every variable in its domain.
LEMMA ServerTypeStep ==
    ASSUME TypeOK, ServerNext, UNCHANGED agentVars
    PROVE  TypeOK'
<1> USE DEF TypeOK, ServerTypeOK, AgentTypeOK, agentVars, brokerVars, Fault
<1>1. ASSUME NEW t \in Tasks, HandleTask(t) PROVE TypeOK'
  BY <1>1 DEF HandleTask
<1>2. ASSUME NEW t \in Tasks, Publish(t) PROVE TypeOK'
  BY <1>2 DEF Publish
<1>3. ASSUME NEW t \in Tasks, Route(t) PROVE TypeOK'
  BY <1>3 DEF Route
<1>4. ASSUME AmqpLost PROVE TypeOK'
  <2>1. wire' \subseteq Tasks /\ dropped' \subseteq Tasks /\ faults' \in 0 .. MaxFaults
    BY <1>4 DEF AmqpLost
  <2>2. /\ amqp' = FALSE
        /\ UNCHANGED <<answer, server, stream, queue>>
    BY <1>4 DEF AmqpLost
  <2> QED BY <2>1, <2>2
<1>5. ASSUME Signal PROVE TypeOK'
  BY <1>5 DEF Signal
<1>6. ASSUME HttpStopped PROVE TypeOK'
  BY <1>6 DEF HttpStopped
<1>7. ASSUME GrpcStopped PROVE TypeOK'
  BY <1>7 DEF GrpcStopped, End
<1>8. ASSUME Kill PROVE TypeOK'
  BY <1>8 DEF Kill, End
<1>9. ASSUME Restart PROVE TypeOK'
  BY <1>9 DEF Restart
<1> QED BY <1>1, <1>2, <1>3, <1>4, <1>5, <1>6, <1>7, <1>8, <1>9 DEF ServerNext

\* A goroutine that moves to another step is still the goroutine of its task.
LEMMA MoveJobType ==
    ASSUME NEW a \in Agents, NEW j \in jobs[a], NEW s \in Steps, AgentTypeOK, MoveJob(a, j, s)
    PROVE  jobs' \in [Agents -> SUBSET [task : Tasks, step : Steps]]
<1>1. [j EXCEPT !.step = s] \in [task : Tasks, step : Steps]
  BY DEF AgentTypeOK
<1> QED BY <1>1 DEF MoveJob, AgentTypeOK

\* So do steps of an agent.
LEMMA AgentTypeStep ==
    ASSUME TypeOK, NEW a \in Agents, AgentNext(a)
    PROVE  TypeOK'
<1> USE DEF TypeOK, ServerTypeOK, brokerVars, serverVars, Owned, Fault
<1>1. ASSUME NEW t \in Tasks, Deliver(a, t) PROVE TypeOK'
  BY <1>1 DEF Deliver, AgentTypeOK
<1>2. ASSUME Accept(a) PROVE TypeOK'
  BY <1>2 DEF Accept, AgentTypeOK
<1>3. ASSUME Refuse(a) PROVE TypeOK'
  BY <1>3 DEF Refuse, AgentTypeOK
<1>4. ASSUME Spawn(a) PROVE TypeOK'
  <2>1. [task |-> hand[a], step |-> "start"] \in [task : Tasks, step : Steps]
    BY <1>4 DEF Spawn, AgentTypeOK, Steps
  <2> QED BY <1>4, <2>1 DEF Spawn, AgentTypeOK
<1>5. ASSUME NEW j \in jobs[a], Run(a, j) PROVE TypeOK'
  <2>1. jobs' \in [Agents -> SUBSET [task : Tasks, step : Steps]]
    BY <1>5, MoveJobType DEF Run, Steps
  <2> QED BY <1>5, <2>1 DEF Run, AgentTypeOK
<1>6. ASSUME NEW j \in jobs[a], Ran(a, j) PROVE TypeOK'
  <2>1. jobs' \in [Agents -> SUBSET [task : Tasks, step : Steps]]
    BY <1>6, MoveJobType DEF Ran, Steps
  <2> QED BY <1>6, <2>1 DEF Ran, AgentTypeOK
<1>7. ASSUME NEW j \in jobs[a], Ack(a, j) PROVE TypeOK'
  <2>1. jobs' \in [Agents -> SUBSET [task : Tasks, step : Steps]]
    BY <1>7, MoveJobType DEF Ack, Steps
  <2> QED BY <1>7, <2>1 DEF Ack, AgentTypeOK
<1>8. ASSUME NEW j \in jobs[a], Done(a, j) PROVE TypeOK'
  BY <1>8 DEF Done, AgentTypeOK
<1>9. ASSUME Keep(a) PROVE TypeOK'
  <2> USE DEF AgentTypeOK
  <2>1. CASE Connect(a) BY <2>1 DEF Connect
  <2>2. CASE Reconnect(a) BY <2>2 DEF Reconnect
  <2>3. CASE Drain(a) BY <2>3 DEF Drain
  <2>4. CASE Waited(a) BY <2>4 DEF Waited
  <2>5. CASE AgentExit(a) BY <2>5 DEF AgentExit, Gone
  <2> QED BY <1>9, <2>1, <2>2, <2>3, <2>4, <2>5 DEF Keep
<1>10. ASSUME StreamBroken(a) PROVE TypeOK'
  BY <1>10 DEF StreamBroken, agentVars, AgentTypeOK
<1>11. ASSUME AgentSignal(a) PROVE TypeOK'
  BY <1>11 DEF AgentSignal, AgentTypeOK
<1>12. ASSUME AgentCrash(a) PROVE TypeOK'
  BY <1>12 DEF AgentCrash, Gone, AgentTypeOK
<1>13. ASSUME AgentRestart(a) PROVE TypeOK'
  BY <1>13 DEF AgentRestart, AgentTypeOK
<1>14. ASSUME LinkLost(a) PROVE TypeOK'
  BY <1>14 DEF LinkLost, AgentTypeOK
<1> QED
  BY <1>1, <1>2, <1>3, <1>4, <1>5, <1>6, <1>7, <1>8, <1>9, <1>10, <1>11, <1>12, <1>13, <1>14
     DEF AgentNext, Consume, Work

\* Initially every variable is in its domain, and a stuttering step keeps it there.
LEMMA InitTyped == Init => TypeOK
BY DEF Init, ServerInit, AgentInit, TypeOK, ServerTypeOK, AgentTypeOK

LEMMA StutterTyped ==
    ASSUME TypeOK, UNCHANGED vars
    PROVE  TypeOK'
BY DEF TypeOK, ServerTypeOK, AgentTypeOK, vars, brokerVars, serverVars, agentVars

\* TypeOK: what is queued, delivered and run are tasks, each goroutine belongs
\* to one task, and no more environment events happen than allowed.
THEOREM Typing == Spec => []TypeOK
<1>1. Init => TypeOK
  BY InitTyped
<1>2. TypeOK /\ [Next]_vars => TypeOK'
  BY ServerTypeStep, AgentTypeStep, StutterTyped DEF Next
<1> QED BY <1>1, <1>2, PTL DEF Spec

-----------------------------------------------------------------------------
(* What an agent owns. *)

Active(j) == j.step \in {"start", "running", "ran"}

\* While an agent's link is up, what it has in its inbox, in hand or in an
\* active goroutine is the one delivery it has not acknowledged, and it is in
\* one of these places only.
OwnsAll(a) ==
    /\ main[a] = "exited" => unacked[a] = NoTask /\ inbox[a] = NoTask /\ hand[a] = NoTask /\ jobs[a] = {}
    /\ inbox[a] # NoTask => /\ link[a] /\ unacked[a] = inbox[a] /\ hand[a] = NoTask
                            /\ \A j \in jobs[a] : ~Active(j)
    /\ link[a] /\ hand[a] # NoTask => /\ unacked[a] = hand[a]
                                      /\ \A j \in jobs[a] : ~Active(j)
    /\ link[a] => \A j \in jobs[a] : Active(j) => unacked[a] = j.task
    /\ link[a] => \A j, k \in jobs[a] : Active(j) /\ Active(k) => j = k

\* A goroutine past "start" has started its command.
Started(a) == \A j \in jobs[a] : j.step # "start" => runs[j.task] > 0

IInv == TypeOK /\ \A a \in Agents : OwnsAll(a) /\ Started(a)

\* What is not the agent's leaves it alone.
LEMMA OthersKeep ==
    ASSUME TypeOK, NEW b \in Agents, OwnsAll(b), Started(b),
           UNCHANGED <<main[b], link[b], unacked[b], inbox[b], hand[b], jobs[b]>>,
           \A t \in Tasks : runs'[t] >= runs[t], runs' \in [Tasks -> Nat]
    PROVE  OwnsAll(b)' /\ Started(b)'
<1>1. OwnsAll(b)'
  BY DEF OwnsAll, Active
<1>2. \A j \in jobs[b] : j.task \in Tasks
  BY DEF TypeOK, AgentTypeOK
<1>3. Started(b)'
  BY <1>2 DEF Started, TypeOK, AgentTypeOK
<1> QED BY <1>1, <1>3

\* A goroutine that goes on to the next active step.
LEMMA MoveActive ==
    ASSUME TypeOK, NEW a \in Agents, OwnsAll(a), Started(a), NEW j \in jobs[a], Active(j),
           NEW s \in {"running", "ran"}, MoveJob(a, j, s),
           UNCHANGED <<main, link, unacked, inbox, hand>>,
           Alive(a), runs' \in [Tasks -> Nat], \A t \in Tasks : runs'[t] >= runs[t], runs'[j.task] > 0
    PROVE  OwnsAll(a)' /\ Started(a)'
<1> DEFINE k == [j EXCEPT !.step = s]
<1>1. /\ jobs'[a] = (jobs[a] \ {j}) \cup {k}
      /\ k.task = j.task /\ k.step = s /\ Active(k)
      /\ \A i \in jobs[a] : i.task \in Tasks
  BY DEF MoveJob, TypeOK, AgentTypeOK, Active
<1> HIDE DEF k
<1>2. OwnsAll(a)'
  BY <1>1 DEF OwnsAll, Alive, Active
<1>3. Started(a)'
  BY <1>1 DEF Started, TypeOK, AgentTypeOK
<1> QED BY <1>2, <1>3

\* Every step of an agent keeps its own part of the invariant ...
LEMMA OwnStep ==
    ASSUME TypeOK, TypeOK', NEW a \in Agents, OwnsAll(a), Started(a), AgentNext(a)
    PROVE  OwnsAll(a)' /\ Started(a)'
<1> USE DEF TypeOK, AgentTypeOK
<1>1. ASSUME NEW t \in Tasks, Deliver(a, t) PROVE OwnsAll(a)' /\ Started(a)'
  BY <1>1 DEF Deliver, OwnsAll, Started, Active, Alive
<1>2. ASSUME Accept(a) PROVE OwnsAll(a)' /\ Started(a)'
  BY <1>2 DEF Accept, OwnsAll, Started, Active, Alive
<1>3. ASSUME Refuse(a) PROVE OwnsAll(a)' /\ Started(a)'
  BY <1>3 DEF Refuse, OwnsAll, Started, Active, Alive
<1>4. ASSUME Spawn(a) PROVE OwnsAll(a)' /\ Started(a)'
  BY <1>4 DEF Spawn, OwnsAll, Started, Active, Alive
<1>5. ASSUME NEW j \in jobs[a], Run(a, j) PROVE OwnsAll(a)' /\ Started(a)'
  BY <1>5, MoveActive DEF Run, Active
<1>6. ASSUME NEW j \in jobs[a], Ran(a, j) PROVE OwnsAll(a)' /\ Started(a)'
  BY <1>6, MoveActive DEF Ran, Active, Started
<1>7. ASSUME NEW j \in jobs[a], Ack(a, j) PROVE OwnsAll(a)' /\ Started(a)'
  <2> DEFINE k == [j EXCEPT !.step = "acked"]
  <2>1. /\ jobs'[a] = (jobs[a] \ {j}) \cup {k}
        /\ k.task = j.task /\ k.step = "acked" /\ ~Active(k) /\ Active(j)
        /\ \A i \in jobs[a] : i.task \in Tasks
    BY <1>7 DEF Ack, MoveJob, Active
  <2> HIDE DEF k
  <2>2. OwnsAll(a)'
    BY <1>7, <2>1 DEF Ack, OwnsAll, Alive, Active
  <2>3. Started(a)'
    BY <1>7, <2>1 DEF Ack, Started
  <2> QED BY <2>2, <2>3
<1>8. ASSUME NEW j \in jobs[a], Done(a, j) PROVE OwnsAll(a)' /\ Started(a)'
  BY <1>8 DEF Done, OwnsAll, Started, Active, Alive
<1>9. ASSUME Keep(a) PROVE OwnsAll(a)' /\ Started(a)'
  BY <1>9 DEF Keep, Connect, Reconnect, Drain, Waited, AgentExit, Gone, OwnsAll, Started, Active
<1>10. ASSUME StreamBroken(a) PROVE OwnsAll(a)' /\ Started(a)'
  BY <1>10 DEF StreamBroken, agentVars, OwnsAll, Started, Active
<1>11. ASSUME AgentSignal(a) PROVE OwnsAll(a)' /\ Started(a)'
  BY <1>11 DEF AgentSignal, OwnsAll, Started, Active
<1>12. ASSUME AgentCrash(a) PROVE OwnsAll(a)' /\ Started(a)'
  BY <1>12 DEF AgentCrash, Gone, OwnsAll, Started, Active
<1>13. ASSUME AgentRestart(a) PROVE OwnsAll(a)' /\ Started(a)'
  BY <1>13 DEF AgentRestart, OwnsAll, Started, Active
<1>14. ASSUME LinkLost(a) PROVE OwnsAll(a)' /\ Started(a)'
  BY <1>14 DEF LinkLost, OwnsAll, Started, Active, Alive
<1> QED
  BY <1>1, <1>2, <1>3, <1>4, <1>5, <1>6, <1>7, <1>8, <1>9, <1>10, <1>11, <1>12, <1>13, <1>14
     DEF AgentNext, Consume, Work

\* ... and leaves the other agents alone.
LEMMA OtherStep ==
    ASSUME TypeOK, NEW a \in Agents, NEW b \in Agents, b # a, AgentNext(a)
    PROVE  /\ UNCHANGED <<main[b], link[b], unacked[b], inbox[b], hand[b], jobs[b]>>
           /\ \A t \in Tasks : runs'[t] >= runs[t]
<1> USE DEF TypeOK, AgentTypeOK
<1>1. ASSUME NEW j \in jobs[a], Run(a, j) \/ Ran(a, j) \/ Ack(a, j) \/ Done(a, j)
      PROVE  /\ UNCHANGED <<main[b], link[b], unacked[b], inbox[b], hand[b], jobs[b]>>
             /\ \A t \in Tasks : runs'[t] >= runs[t]
  BY <1>1 DEF Run, Ran, Ack, Done, MoveJob
<1>2. CASE Consume(a) \/ \E t \in Tasks : Deliver(a, t)
  BY <1>2 DEF Consume, Accept, Refuse, Spawn, Deliver
<1>3. CASE Keep(a)
  BY <1>3 DEF Keep, Connect, Reconnect, Drain, Waited, AgentExit, Gone
<1>4. CASE StreamBroken(a) \/ AgentSignal(a) \/ AgentCrash(a) \/ AgentRestart(a) \/ LinkLost(a)
  BY <1>4 DEF StreamBroken, agentVars, AgentSignal, AgentCrash, Gone, AgentRestart, LinkLost
<1> QED BY <1>1, <1>2, <1>3, <1>4 DEF AgentNext, Work

\* The invariant is inductive.
LEMMA Invariance == Spec => []IInv
<1>1. Init => IInv
  BY InitTyped DEF Init, AgentInit, IInv, OwnsAll, Started
<1>2. ASSUME IInv, [Next]_vars PROVE IInv'
  <2>1. TypeOK'
    BY <1>2, ServerTypeStep, AgentTypeStep, StutterTyped DEF Next, IInv
  <2>2. CASE UNCHANGED agentVars
    <3>1. \A b \in Agents : OwnsAll(b)' /\ Started(b)'
      BY <1>2, <2>2 DEF agentVars, IInv, OwnsAll, Started, Active
    <3> QED BY <2>1, <3>1 DEF IInv
  <2>3. ASSUME NEW a \in Agents, AgentNext(a) PROVE IInv'
    <3>1. OwnsAll(a)' /\ Started(a)'
      BY <1>2, <2>1, <2>3, OwnStep DEF IInv
    <3>2. ASSUME NEW b \in Agents, b # a PROVE OwnsAll(b)' /\ Started(b)'
      <4>1. /\ UNCHANGED <<main[b], link[b], unacked[b], inbox[b], hand[b], jobs[b]>>
            /\ \A t \in Tasks : runs'[t] >= runs[t]
        BY <1>2, <2>3, <3>2, OtherStep DEF IInv
      <4> QED BY <1>2, <2>1, <4>1, OthersKeep DEF IInv, TypeOK, AgentTypeOK
    <3> QED BY <2>1, <3>1, <3>2 DEF IInv
  <2> QED BY <1>2, <2>2, <2>3 DEF Next, vars
<1> QED BY <1>1, <1>2, PTL DEF Spec

-----------------------------------------------------------------------------
(* No accepted task is lost. *)

Kept(t) == answer[t] = "201" => Owed(t) \/ runs[t] > 0 \/ t \in dropped

\* The server's steps keep accepted tasks.
LEMMA ServerKeeps ==
    ASSUME TypeOK, NEW t \in Tasks, Kept(t), ServerNext, UNCHANGED agentVars
    PROVE  Kept(t)'
<1> USE DEF Kept, Owed, TypeOK, ServerTypeOK, agentVars, brokerVars
<1>1. ASSUME NEW u \in Tasks, HandleTask(u) \/ Publish(u) \/ Route(u) PROVE Kept(t)'
  BY <1>1 DEF HandleTask, Publish, Route
<1>2. CASE AmqpLost \/ Signal \/ HttpStopped \/ Restart
  BY <1>2 DEF AmqpLost, Signal, HttpStopped, Restart
<1>3. CASE GrpcStopped \/ Kill
  BY <1>3 DEF GrpcStopped, Kill, End
<1> QED BY <1>1, <1>2, <1>3 DEF ServerNext

\* So do the agents': what stops being owned is back in the queue, or its
\* command has been started.
LEMMA AgentKeeps ==
    ASSUME TypeOK, NEW a \in Agents, OwnsAll(a), Started(a), NEW t \in Tasks, Kept(t), AgentNext(a)
    PROVE  Kept(t)'
<1> USE DEF Kept, Owed, Owned, TypeOK, AgentTypeOK, serverVars, brokerVars
<1>1. ASSUME NEW u \in Tasks, Deliver(a, u) PROVE Kept(t)'
  BY <1>1 DEF Deliver
<1>2. CASE Accept(a) \/ Spawn(a)
  BY <1>2 DEF Accept, Spawn
<1>3. CASE Refuse(a)
  BY <1>3 DEF Refuse
<1>4. ASSUME NEW j \in jobs[a], Run(a, j) \/ Ran(a, j) \/ Done(a, j) PROVE Kept(t)'
  BY <1>4 DEF Run, Ran, Done
<1>5. ASSUME NEW j \in jobs[a], Ack(a, j) PROVE Kept(t)'
  <2>1. j.task \in Tasks /\ runs[j.task] > 0 /\ (link[a] => unacked[a] = j.task)
    BY <1>5 DEF Ack, OwnsAll, Started, Active
  <2> QED BY <1>5, <2>1 DEF Ack
<1>6. CASE Keep(a)
  BY <1>6 DEF Keep, Connect, Reconnect, Drain, Waited, AgentExit, Gone
<1>7. CASE AgentCrash(a)
  BY <1>7 DEF AgentCrash, Gone
<1>8. CASE LinkLost(a)
  BY <1>8 DEF LinkLost
<1>9. CASE StreamBroken(a) \/ AgentSignal(a) \/ AgentRestart(a)
  BY <1>9 DEF StreamBroken, agentVars, AgentSignal, AgentRestart
<1> QED BY <1>1, <1>2, <1>3, <1>4, <1>5, <1>6, <1>7, <1>8, <1>9 DEF AgentNext, Consume, Work

\* AcceptedIsKept: however agents die, lose their connection or drain, a task
\* answered with 201 is with the broker until its command has been started; the
\* Ack after the command, the Nack with requeue and prefetch 1 see to it.
THEOREM NoTaskLost == Spec => []AcceptedIsKept
<1>1. Init => AcceptedIsKept
  BY DEF Init, ServerInit, AcceptedIsKept
<1>2. ASSUME AcceptedIsKept, IInv, [Next]_vars PROVE AcceptedIsKept'
  <2> SUFFICES ASSUME NEW t \in Tasks PROVE Kept(t)'
    BY DEF AcceptedIsKept, Kept
  <2>1. Kept(t)
    BY <1>2 DEF AcceptedIsKept, Kept
  <2>2. CASE ServerNext /\ UNCHANGED agentVars
    BY <1>2, <2>1, <2>2, ServerKeeps DEF IInv
  <2>3. ASSUME NEW a \in Agents, AgentNext(a) PROVE Kept(t)'
    BY <1>2, <2>1, <2>3, AgentKeeps DEF IInv
  <2>4. CASE UNCHANGED vars
    BY <2>1, <2>4 DEF Kept, Owed, vars, brokerVars, serverVars, agentVars
  <2> QED BY <1>2, <2>2, <2>3, <2>4 DEF Next
<1> QED BY <1>1, <1>2, Invariance, PTL DEF Spec

-----------------------------------------------------------------------------
(* Commands are run again only for a cause. *)

\* An agent has at most one delivery that will be, or is being, run, also after
\* its link is lost: nothing is delivered on a lost link.
OneAtATime(a) ==
    /\ hand[a] # NoTask => \A j \in jobs[a] : ~Active(j)
    /\ \A j, k \in jobs[a] : Active(j) /\ Active(k) => j = k
    /\ main[a] \in {"wait", "leave"} => ~ctx[a]

Bit(b) == IF b THEN 1 ELSE 0

\* The agents where a run of task t is still to be started, and those that have
\* been told to stop: their exit may give back a delivery that is being run.
Holders(t) == {a \in Agents : \/ inbox[a] = t \/ hand[a] = t
                              \/ \E j \in jobs[a] : j.task = t /\ j.step = "start"}
Leaving == {a \in Agents : ~ctx[a] /\ Alive(a)}

\* Runs done, runs still to come and exits still to come, against the one run a
\* task is published for and the faults.
Cost(t) == runs[t] + Bit(t \in wire) + Bit(t \in queue) + Cardinality(Holders(t)) + Cardinality(Leaving)
Budget(t) ==
    /\ IsFiniteSet(Holders(t)) /\ IsFiniteSet(Leaving)
    /\ Cost(t) <= faults + Bit(answer[t] = "201")

\* Cardinalities: of a subset,
LEMMA SmallerSet ==
    ASSUME NEW S, IsFiniteSet(S), NEW T, T \subseteq S
    PROVE  IsFiniteSet(T) /\ Cardinality(T) \in Nat /\ Cardinality(S) \in Nat
           /\ Cardinality(T) <= Cardinality(S)
BY FS_Subset, FS_CardinalityType

\* of a set with at most one element more,
LEMMA LargerSet ==
    ASSUME NEW S, IsFiniteSet(S), NEW x, NEW T, T \subseteq S \cup {x}
    PROVE  IsFiniteSet(T) /\ Cardinality(T) \in Nat /\ Cardinality(S) \in Nat
           /\ Cardinality(T) <= Cardinality(S) + 1
<1>1. IsFiniteSet(S \cup {x}) /\ Cardinality(S) \in Nat
      /\ Cardinality(S \cup {x}) <= Cardinality(S) + 1
    BY FS_AddElement, FS_CardinalityType
<1> QED BY <1>1, SmallerSet

\* and of one without one of its elements.
LEMMA SetWithout ==
    ASSUME NEW S, IsFiniteSet(S), NEW x \in S, NEW T, T \subseteq S \ {x}
    PROVE  IsFiniteSet(T) /\ Cardinality(T) \in Nat /\ Cardinality(S) \in Nat
           /\ Cardinality(T) + 1 <= Cardinality(S)
<1>1. IsFiniteSet(S \ {x}) /\ Cardinality(S) \in Nat /\ Cardinality(S \ {x}) = Cardinality(S) - 1
    BY FS_RemoveElement, FS_CardinalityType
<1> QED BY <1>1, SmallerSet

\* The steps of an agent keep OneAtATime, its own and the others'.
LEMMA OneStep ==
    ASSUME TypeOK, NEW a \in Agents, OwnsAll(a), OneAtATime(a), AgentNext(a)
    PROVE  OneAtATime(a)'
<1> USE DEF TypeOK, AgentTypeOK
<1>1. ASSUME NEW t \in Tasks, Deliver(a, t) PROVE OneAtATime(a)'
  BY <1>1 DEF Deliver, OneAtATime, Active
<1>2. CASE Accept(a)
  BY <1>2 DEF Accept, OneAtATime, OwnsAll, Active
<1>3. CASE Refuse(a)
  BY <1>3 DEF Refuse, OneAtATime, Active
<1>4. CASE Spawn(a)
  BY <1>4 DEF Spawn, OneAtATime, Active
<1>5. ASSUME NEW j \in jobs[a], NEW s \in Steps, Active(j), MoveJob(a, j, s),
             UNCHANGED <<hand, main, ctx>>
      PROVE  OneAtATime(a)'
  <2> DEFINE k == [j EXCEPT !.step = s]
  <2>1. jobs'[a] = (jobs[a] \ {j}) \cup {k}
    BY <1>5 DEF MoveJob
  <2>2. \A i \in jobs[a] \ {j} : ~Active(i)
    BY <1>5 DEF OneAtATime
  <2>3. hand[a] = NoTask
    BY <1>5 DEF OneAtATime
  <2> HIDE DEF k
  <2> QED BY <1>5, <2>1, <2>2, <2>3 DEF OneAtATime, Active
<1>6. ASSUME NEW j \in jobs[a], Run(a, j) \/ Ran(a, j) \/ Ack(a, j) PROVE OneAtATime(a)'
  <2>1. \E s \in Steps : MoveJob(a, j, s)
    BY <1>6 DEF Run, Ran, Ack, Steps
  <2>2. Active(j) /\ UNCHANGED <<hand, main, ctx>>
    BY <1>6 DEF Run, Ran, Ack, Active
  <2> QED BY <1>5, <2>1, <2>2
<1>7. ASSUME NEW j \in jobs[a], Done(a, j) PROVE OneAtATime(a)'
  BY <1>7 DEF Done, OneAtATime, Active
<1>8. CASE Keep(a)
  BY <1>8 DEF Keep, Connect, Reconnect, Drain, Waited, AgentExit, Gone, OneAtATime, Active
<1>9. CASE StreamBroken(a) \/ AgentSignal(a) \/ AgentCrash(a) \/ AgentRestart(a) \/ LinkLost(a)
  BY <1>9 DEF StreamBroken, agentVars, AgentSignal, AgentCrash, Gone, AgentRestart, LinkLost,
              OneAtATime, Active
<1> QED BY <1>1, <1>2, <1>3, <1>4, <1>6, <1>7, <1>8, <1>9 DEF AgentNext, Consume, Work

\* The server's steps: a publish answered 201 brings the one run into the
\* budget.
LEMMA ServerBudget ==
    ASSUME TypeOK, NEW t \in Tasks, Budget(t), ServerNext, UNCHANGED agentVars
    PROVE  Budget(t)'
<1> USE DEF TypeOK, ServerTypeOK, brokerVars, Fault, Bit
<1>1. UNCHANGED <<runs, Holders(t), Leaving>>
  BY DEF agentVars, Holders, Leaving, Alive
<1>2. /\ Cardinality(Holders(t)) \in Nat /\ Cardinality(Leaving) \in Nat /\ runs[t] \in Nat
      /\ IsFiniteSet(Holders(t)) /\ IsFiniteSet(Leaving) /\ faults \in Nat
      /\ runs[t] + Bit(t \in wire) + Bit(t \in queue) + Cardinality(Holders(t)) + Cardinality(Leaving)
           <= faults + Bit(answer[t] = "201")
  BY FS_CardinalityType DEF Budget, Cost, AgentTypeOK
<1>3. ASSUME runs[t] + Bit(t \in wire') + Bit(t \in queue') + Cardinality(Holders(t)) + Cardinality(Leaving)
               <= faults' + Bit(answer'[t] = "201")
      PROVE  Budget(t)'
  BY <1>1, <1>2, <1>3 DEF Budget, Cost
<1>4. ASSUME NEW u \in Tasks, HandleTask(u) PROVE Budget(t)'
  BY <1>2, <1>3, <1>4 DEF HandleTask
<1>5. ASSUME NEW u \in Tasks, Publish(u) PROVE Budget(t)'
  BY <1>2, <1>3, <1>5 DEF Publish
<1>6. ASSUME NEW u \in Tasks, Route(u) PROVE Budget(t)'
  BY <1>2, <1>3, <1>6 DEF Route
<1>7. CASE AmqpLost
  BY <1>2, <1>3, <1>7 DEF AmqpLost
<1>8. CASE Signal \/ HttpStopped \/ Restart
  BY <1>2, <1>3, <1>8 DEF Signal, HttpStopped, Restart
<1>9. CASE GrpcStopped \/ Kill
  BY <1>2, <1>3, <1>9 DEF GrpcStopped, Kill, End
<1> QED BY <1>4, <1>5, <1>6, <1>7, <1>8, <1>9 DEF ServerNext

\* An agent's steps: a delivery given back is one it did not start, or is paid
\* for by the fault, or by the exit it was told to make.
LEMMA AgentBudget ==
    ASSUME TypeOK, NEW a \in Agents, OwnsAll(a), OneAtATime(a),
           NEW t \in Tasks, Budget(t), AgentNext(a)
    PROVE  Budget(t)'
<1> USE DEF TypeOK, AgentTypeOK
<1> DEFINE H == Holders(t)
           L == Leaving
<1>1. /\ IsFiniteSet(H) /\ IsFiniteSet(L) /\ Cardinality(H) \in Nat /\ Cardinality(L) \in Nat
      /\ runs[t] \in Nat /\ faults \in Nat
  BY FS_CardinalityType DEF Budget, ServerTypeOK
<1>2. runs[t] + Bit(t \in wire) + Bit(t \in queue) + Cardinality(H) + Cardinality(L)
        <= faults + Bit(answer[t] = "201")
  BY DEF Budget, Cost
<1>3. H' \subseteq H => IsFiniteSet(H') /\ Cardinality(H') \in Nat /\ Cardinality(H') <= Cardinality(H)
  BY <1>1, SmallerSet
<1>4. H' \subseteq H \cup {a} => IsFiniteSet(H') /\ Cardinality(H') \in Nat /\ Cardinality(H') <= Cardinality(H) + 1
  BY <1>1, LargerSet
<1>5. a \in H /\ H' \subseteq H \ {a} => IsFiniteSet(H') /\ Cardinality(H') \in Nat /\ Cardinality(H') + 1 <= Cardinality(H)
  BY <1>1, SetWithout
<1>6. L' \subseteq L => IsFiniteSet(L') /\ Cardinality(L') \in Nat /\ Cardinality(L') <= Cardinality(L)
  BY <1>1, SmallerSet
<1>7. L' \subseteq L \cup {a} => IsFiniteSet(L') /\ Cardinality(L') \in Nat /\ Cardinality(L') <= Cardinality(L) + 1
  BY <1>1, LargerSet
<1>8. a \in L /\ L' \subseteq L \ {a} => IsFiniteSet(L') /\ Cardinality(L') \in Nat /\ Cardinality(L') + 1 <= Cardinality(L)
  BY <1>1, SetWithout
<1>9. ASSUME IsFiniteSet(H'), IsFiniteSet(L'),
             runs'[t] + Bit(t \in wire') + Bit(t \in queue') + Cardinality(H') + Cardinality(L')
               <= faults' + Bit(answer'[t] = "201")
      PROVE  Budget(t)'
  BY <1>9 DEF Budget, Cost
<1>10. UNCHANGED <<main, ctx>> => L' \subseteq L
  BY DEF Leaving, Alive
<1>11. UNCHANGED <<inbox, hand, jobs>> => H' \subseteq H
  BY DEF Holders
<1>12. inbox[a] # NoTask => unacked[a] = inbox[a] /\ hand[a] = NoTask /\ \A j \in jobs[a] : j.step # "start"
  BY DEF OwnsAll, Active
<1>13. ASSUME NEW u \in Tasks, Deliver(a, u) PROVE Budget(t)'
  <2>1. L' \subseteq L /\ UNCHANGED <<runs, wire, answer, faults>>
    BY <1>10, <1>13 DEF Deliver, serverVars
  <2>2. CASE u = t
    <3>1. H' \subseteq H \cup {a} /\ t \in queue /\ t \notin queue'
      BY <1>13, <2>2 DEF Deliver, Holders
    <3> QED BY <1>1, <1>2, <1>4, <1>6, <1>9, <2>1, <3>1 DEF Bit
  <2>3. CASE u # t
    <3>1. H' \subseteq H /\ (t \in queue' <=> t \in queue)
      BY <1>13, <2>3 DEF Deliver, Holders
    <3> QED BY <1>1, <1>2, <1>3, <1>6, <1>9, <2>1, <3>1 DEF Bit
  <2> QED BY <2>2, <2>3
<1>14. CASE Accept(a) \/ Spawn(a)
  <2>1. H' \subseteq H
    BY <1>14 DEF Accept, Spawn, Holders
  <2>2. L' \subseteq L /\ UNCHANGED <<runs, wire, queue, answer, faults>>
    BY <1>10, <1>14 DEF Accept, Spawn, serverVars, brokerVars
  <2> QED BY <1>1, <1>2, <1>3, <1>6, <1>9, <2>1, <2>2 DEF Bit
<1>15. CASE Refuse(a)
  <2>1. L' \subseteq L /\ UNCHANGED <<runs, wire, answer, faults>> /\ queue' = queue \cup {inbox[a]}
    BY <1>10, <1>12, <1>15 DEF Refuse, serverVars, Owned
  <2>2. CASE inbox[a] = t
    <3>1. a \in H /\ H' \subseteq H \ {a}
      BY <1>12, <1>15, <2>2 DEF Refuse, Holders
    <3> QED BY <1>1, <1>2, <1>5, <1>6, <1>9, <2>1, <3>1 DEF Bit
  <2>3. CASE inbox[a] # t
    <3>1. H' \subseteq H /\ (t \in queue' <=> t \in queue)
      BY <1>15, <2>1, <2>3 DEF Refuse, Holders
    <3> QED BY <1>1, <1>2, <1>3, <1>6, <1>9, <2>1, <3>1 DEF Bit
  <2> QED BY <2>2, <2>3
<1>16. ASSUME NEW j \in jobs[a], Run(a, j) PROVE Budget(t)'
  <2> DEFINE k == [j EXCEPT !.step = "running"]
  <2>1. L' \subseteq L /\ UNCHANGED <<wire, queue, answer, faults, inbox, hand>>
    BY <1>10, <1>16 DEF Run, serverVars, brokerVars
  <2>2. jobs' = [jobs EXCEPT ![a] = (@ \ {j}) \cup {k}] /\ k.step = "running" /\ j.step = "start"
    BY <1>16 DEF Run, MoveJob
  <2> HIDE DEF k
  <2>3. H' \subseteq H
    BY <2>1, <2>2 DEF Holders
  <2>4. CASE j.task = t
    <3>1. a \in H
      BY <2>2, <2>4 DEF Holders
    <3>2. inbox[a] = NoTask /\ hand[a] = NoTask /\ \A i \in jobs[a] \ {j} : i.step # "start"
      BY <1>12, <2>2 DEF OneAtATime, Active
    <3>3. a \notin H'
      BY <2>1, <2>2, <3>2 DEF Holders
    <3>4. runs'[t] = runs[t] + 1
      BY <1>16, <2>4 DEF Run
    <3> QED BY <1>1, <1>2, <1>5, <1>6, <1>9, <2>1, <2>3, <3>1, <3>3, <3>4 DEF Bit
  <2>5. CASE j.task # t
    <3>1. runs'[t] = runs[t]
      BY <1>16, <2>5 DEF Run
    <3> QED BY <1>1, <1>2, <1>3, <1>6, <1>9, <2>1, <2>3, <3>1 DEF Bit
  <2> QED BY <2>4, <2>5
<1>17. ASSUME NEW j \in jobs[a], Ran(a, j) \/ Ack(a, j) \/ Done(a, j) PROVE Budget(t)'
  <2>1. L' \subseteq L /\ UNCHANGED <<runs, wire, queue, answer, faults, inbox, hand>>
    BY <1>10, <1>17 DEF Ran, Ack, Done, serverVars, brokerVars
  <2>2. \A b \in Agents : \A i \in jobs'[b] : i.step = "start" => i \in jobs[b]
    BY <1>17 DEF Ran, Ack, Done, MoveJob
  <2>3. H' \subseteq H
    BY <2>1, <2>2 DEF Holders
  <2> QED BY <1>1, <1>2, <1>3, <1>6, <1>9, <2>1, <2>3 DEF Bit
<1>18. CASE Connect(a) \/ Reconnect(a) \/ Drain(a) \/ Waited(a) \/ AgentRestart(a)
  <2>1. UNCHANGED <<inbox, hand, jobs, runs, wire, queue, answer, faults>>
    BY <1>18 DEF Connect, Reconnect, Drain, Waited, AgentRestart, brokerVars, serverVars
  <2>2. L' \subseteq L
    BY <1>18 DEF Connect, Reconnect, Drain, Waited, AgentRestart, Leaving, Alive
  <2> QED BY <1>1, <1>2, <1>3, <1>6, <1>9, <1>11, <2>1, <2>2 DEF Bit
<1>19. ASSUME Gone(a) PROVE H' \subseteq H /\ L' \subseteq L \ {a} /\ UNCHANGED <<runs, wire, answer>>
  BY <1>19 DEF Gone, Holders, Leaving, Alive
<1>20. CASE AgentExit(a)
  <2>1. a \in L /\ UNCHANGED faults
    BY <1>20 DEF AgentExit, OneAtATime, Leaving, Alive
  <2>2. H' \subseteq H /\ L' \subseteq L \ {a} /\ UNCHANGED <<runs, wire, answer>>
    BY <1>19, <1>20 DEF AgentExit
  <2> QED BY <1>1, <1>2, <1>3, <1>8, <1>9, <2>1, <2>2 DEF Bit
<1>21. CASE AgentCrash(a)
  <2>1. faults' = faults + 1 /\ H' \subseteq H /\ L' \subseteq L /\ UNCHANGED <<runs, wire, answer>>
    BY <1>19, <1>21 DEF AgentCrash, Fault
  <2> QED BY <1>1, <1>2, <1>3, <1>6, <1>9, <2>1 DEF Bit
<1>22. CASE LinkLost(a)
  <2>1. H' \subseteq H
    BY <1>22 DEF LinkLost, Holders
  <2>2. faults' = faults + 1 /\ L' \subseteq L /\ UNCHANGED <<runs, wire, answer>>
    BY <1>10, <1>22 DEF LinkLost, Fault, serverVars
  <2> QED BY <1>1, <1>2, <1>3, <1>6, <1>9, <2>1, <2>2 DEF Bit
<1>23. CASE AgentSignal(a)
  <2>1. L' \subseteq L \cup {a}
    BY <1>23 DEF AgentSignal, Leaving, Alive
  <2>2. faults' = faults + 1 /\ H' \subseteq H /\ UNCHANGED <<runs, wire, queue, answer>>
    BY <1>11, <1>23 DEF AgentSignal, Fault, serverVars
  <2> QED BY <1>1, <1>2, <1>3, <1>7, <1>9, <2>1, <2>2 DEF Bit
<1>24. CASE StreamBroken(a)
  <2>1. faults' = faults + 1 /\ H' \subseteq H /\ L' \subseteq L /\ UNCHANGED <<runs, wire, queue, answer>>
    BY <1>10, <1>11, <1>24 DEF StreamBroken, Fault, agentVars
  <2> QED BY <1>1, <1>2, <1>3, <1>6, <1>9, <2>1 DEF Bit
<1> HIDE DEF H, L
<1> QED
  BY <1>13, <1>14, <1>15, <1>16, <1>17, <1>18, <1>20, <1>21, <1>22, <1>23, <1>24
     DEF AgentNext, Consume, Work, Keep

\* RerunsHaveCause: redelivery costs. However deliveries are requeued, by an
\* agent that drains, dies or loses its link with a command under way, each
\* fault or signal makes at most one more run of a task.
THEOREM RerunsAlwaysHaveCause == Spec => []RerunsHaveCause
<1> DEFINE Inv == (\A a \in Agents : OneAtATime(a)) /\ \A t \in Tasks : Budget(t)
<1>1. Init => Inv
  <2> SUFFICES ASSUME Init PROVE Inv
    OBVIOUS
  <2>1. \A a \in Agents : OneAtATime(a)
    BY DEF Init, AgentInit, OneAtATime
  <2>2. Leaving = {} /\ \A t \in Tasks : Holders(t) = {}
    BY DEF Init, AgentInit, Leaving, Holders
  <2>3. \A t \in Tasks : Budget(t)
    BY <2>2, FS_EmptySet DEF Init, ServerInit, AgentInit, Budget, Cost, Bit
  <2> QED BY <2>1, <2>3
<1>2. ASSUME IInv, Inv, [Next]_vars PROVE Inv'
  <2>1. CASE ServerNext /\ UNCHANGED agentVars
    <3>1. \A a \in Agents : OneAtATime(a)'
      BY <1>2, <2>1 DEF agentVars, OneAtATime, Active
    <3> QED BY <1>2, <2>1, <3>1, ServerBudget DEF IInv
  <2>2. ASSUME NEW a \in Agents, AgentNext(a) PROVE Inv'
    <3>1. OneAtATime(a)'
      BY <1>2, <2>2, OneStep DEF IInv
    <3>2. ASSUME NEW b \in Agents, b # a PROVE OneAtATime(b)'
      <4>1. UNCHANGED <<main[b], hand[b], jobs[b]>>
        BY <1>2, <2>2, <3>2, OtherStep DEF IInv
      <4>2. UNCHANGED ctx[b]
        BY <1>2, <2>2, <3>2
           DEF IInv, TypeOK, AgentTypeOK, AgentNext, Consume, Work, Keep, Deliver, Accept, Refuse,
               Spawn, Run, Ran, Ack, Done, Connect, Reconnect, Drain, Waited, AgentExit, Gone,
               StreamBroken, agentVars, AgentSignal, AgentCrash, AgentRestart, LinkLost
      <4> QED BY <1>2, <4>1, <4>2 DEF OneAtATime, Active
    <3>3. \A t \in Tasks : Budget(t)'
      BY <1>2, <2>2, AgentBudget DEF IInv
    <3> QED BY <3>1, <3>2, <3>3
  <2>3. CASE UNCHANGED vars
    <3>1. \A a \in Agents : OneAtATime(a)'
      BY <1>2, <2>3 DEF vars, agentVars, OneAtATime, Active
    <3>2. UNCHANGED Leaving /\ \A t \in Tasks : UNCHANGED Holders(t)
      BY <2>3 DEF vars, agentVars, Leaving, Alive, Holders
    <3>3. \A t \in Tasks : Budget(t)'
      BY <1>2, <2>3, <3>2 DEF vars, agentVars, brokerVars, serverVars, Budget, Cost
    <3> QED BY <3>1, <3>3
  <2> QED BY <1>2, <2>1, <2>2, <2>3 DEF Next
<1>3. IInv /\ Inv => RerunsHaveCause
  <2> SUFFICES ASSUME IInv, Inv, NEW t \in Tasks PROVE runs[t] <= 1 + faults
    BY DEF RerunsHaveCause
  <2>1. Cardinality(Holders(t)) \in Nat /\ Cardinality(Leaving) \in Nat
    BY FS_CardinalityType DEF Budget
  <2>2. runs[t] \in Nat /\ faults \in Nat
    BY DEF IInv, TypeOK, ServerTypeOK, AgentTypeOK
  <2> QED BY <2>1, <2>2 DEF Budget, Cost, Bit
<1> HIDE DEF Inv
<1> QED BY <1>1, <1>2, <1>3, Invariance, PTL DEF Spec
=============================================================================
