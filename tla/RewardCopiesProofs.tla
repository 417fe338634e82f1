-------------------------- MODULE RewardCopiesProofs -------------------------
(***************************************************************************)
(* How many copies of an event there are in RewardPipeline, for every      *)
(* number of users, requests, workers, retries and faults, as long as the  *)
(* interaction service keeps its connection.                               *)
(***************************************************************************)
EXTENDS RewardPipelineProofs

USE UserOfAssumption, RetriesAssumption, FaultsAssumption, StockAssumption,
    RowsAssumption, NoMsgAssumption

-----------------------------------------------------------------------------
\* A worker that is down has no delivery: when its process starts again, the
\* delivery it had before is with the broker only.
DownIsIdle == \A w \in Workers : link[w] = "down" => pc[w] = "idle"

\* Copies are counted with natural numbers.
LEMMA QueuedType ==
    ASSUME TypeOK
    PROVE  \A m \in Messages : Queued(m) \in Nat
BY DEF TypeOK, BrokerTypeOK, MonitorTypeOK, Queued

\* A step that adds no copy.
LEMMA NoneAdded ==
    ASSUME TypeOK, TypeOK', OneCopy,
           \A m \in Messages : Queued(m)' <= Queued(m),
           wire' \subseteq wire,
           \A w \in Workers : Owns(w)' => Owns(w) /\ hand'[w] = hand[w]
    PROVE  OneCopy'
<1>1. \A m \in Messages : Queued(m) \in Nat /\ Queued(m)' \in Nat
  BY DEF TypeOK, BrokerTypeOK, MonitorTypeOK, Queued
<1>2. \A w \in Workers : Owns(w)' => Owns(w) /\ EventAt(w)' = EventAt(w)
  BY DEF EventAt
<1>3. \A m \in Messages : Queued(m)' <= 1 /\ (Queued(m)' > 0 => Queued(m) > 0)
  BY <1>1 DEF OneCopy
<1> QED BY <1>2, <1>3 DEF OneCopy

\* A step after which n is the one copy of its event.
LEMMA Enqueued ==
    ASSUME TypeOK, TypeOK', OneCopy, NEW n \in Messages,
           Queued(n)' = 1,
           \A m \in Messages \ {n} : IF Event(m) = Event(n) THEN Queued(m)' = 0
                                                            ELSE Queued(m)' = Queued(m),
           wire' \subseteq wire \ {Event(n)},
           \A w \in Workers : Owns(w)' => /\ Owns(w) /\ hand'[w] = hand[w]
                                          /\ EventAt(w) # Event(n)
    PROVE  OneCopy'
<1>1. \A w \in Workers : Owns(w)' => Owns(w) /\ EventAt(w)' = EventAt(w) /\ EventAt(w) # Event(n)
  BY DEF EventAt
<1>2. \A m \in Messages : /\ Queued(m)' <= 1
                          /\ Queued(m)' > 0 => m = n \/ (Queued(m) > 0 /\ Event(m) # Event(n))
  BY DEF OneCopy
<1> QED BY <1>1, <1>2 DEF OneCopy

-----------------------------------------------------------------------------
(* The seckill service. *)

\* Its steps: a request is published once, and its frame becomes its message.
LEMMA SeckillCopies ==
    ASSUME TypeOK, TypeOK', OnlyAcceptedTravels, OneCopy,
           SeckillNext, UNCHANGED <<monitorVars, consumerVars>>
    PROVE  OneCopy'
<1>1. UNCHANGED <<backoff, sent, routed, pc, hand, link>>
  BY DEF monitorVars, consumerVars
<1>2. \A w \in Workers : (Owns(w)' <=> Owns(w)) /\ EventAt(w)' = EventAt(w)
  BY <1>1 DEF Owns, EventAt
<1>3. ASSUME UNCHANGED <<mainQ, dlq, wire>> PROVE OneCopy'
  <2>1. \A m \in Messages : Queued(m)' = Queued(m)
    BY <1>1, <1>3 DEF Queued
  <2> QED BY <1>2, <1>3, <2>1 DEF OneCopy
<1>4. ASSUME NEW r \in Reqs, Publish(r) PROVE OneCopy'
  <2>1. wire' = wire \cup {r} /\ rpc[r] = "channel" /\ UNCHANGED <<mainQ, dlq>>
    BY <1>4 DEF Publish, brokerVars
  <2>2. \A m \in Messages : Queued(m)' = Queued(m)
    BY <1>1, <2>1 DEF Queued
  <2>3. ASSUME NEW m \in Messages, Event(m) = r PROVE ~(Queued(m) > 0)
    <3>1. mainQ[m] = 0 /\ dlq[m] = 0 /\ backoff[m] = 0 /\ sent[m] = 0
      BY <2>1, <2>3 DEF OnlyAcceptedTravels, Within, TypeOK, BrokerTypeOK, MonitorTypeOK
    <3> QED BY <3>1 DEF Queued
  <2>4. \A w \in Workers : Owns(w) => EventAt(w) # r
    BY <2>1 DEF OnlyAcceptedTravels, Owns
  <2> QED BY <1>2, <2>1, <2>2, <2>3, <2>4 DEF OneCopy
<1>5. ASSUME NEW r \in Reqs, Route(r) PROVE OneCopy'
  <2> DEFINE n == <<r, 0>>
  <2>1. n \in Messages /\ Event(n) = r
    BY FirstMessage
  <2>2. r \in wire /\ wire' = wire \ {r} /\ mainQ' = Put(mainQ, n) /\ UNCHANGED dlq
    BY <1>5 DEF Route
  <2> HIDE DEF n
  <2>3. \A m \in Messages : mainQ'[m] = IF m = n THEN mainQ[m] + 1 ELSE mainQ[m]
    BY <2>1, <2>2, PutType DEF TypeOK, BrokerTypeOK
  <2>4. \A m \in Messages : Queued(m)' = IF m = n THEN Queued(m) + 1 ELSE Queued(m)
    BY <1>1, <2>2, <2>3 DEF Queued, TypeOK, BrokerTypeOK, MonitorTypeOK
  <2>5. \A m \in Messages : Event(m) = r => Queued(m) = 0
    BY <2>2, QueuedType DEF OneCopy
  <2>6. \A w \in Workers : Owns(w) => EventAt(w) # r
    BY <2>2 DEF OneCopy
  <2> QED BY <1>1, <1>2, <2>1, <2>2, <2>4, <2>5, <2>6, Enqueued
<1>6. ASSUME NEW r \in Reqs,
             Seckill(r) \/ EvalFails(r) \/ GetChannel(r) \/ GetChannelFails(r) \/ PublishFails(r)
      PROVE  OneCopy'
  BY <1>3, <1>6 DEF Seckill, EvalFails, GetChannel, GetChannelFails, PublishFails, brokerVars
<1>7. CASE StopAccepting \/ Exit
  BY <1>3, <1>7 DEF StopAccepting, Exit, brokerVars
<1> QED BY <1>4, <1>5, <1>6, <1>7 DEF SeckillNext

-----------------------------------------------------------------------------
(* The monitor. *)

\* Its steps: a dead letter waits, is republished with a higher header, or is
\* given up; the original of a routed republish is no copy.
LEMMA MonitorCopies ==
    ASSUME TypeOK, TypeOK', OneCopy, MonitorNext, UNCHANGED <<seckillVars, consumerVars>>
    PROVE  OneCopy'
<1>1. UNCHANGED <<wire, pc, hand, link>>
  BY DEF seckillVars, consumerVars
<1>2. \A w \in Workers : (Owns(w)' <=> Owns(w)) /\ EventAt(w)' = EventAt(w)
  BY <1>1 DEF Owns, EventAt
<1>3. ASSUME \A m \in Messages : Queued(m)' <= Queued(m) PROVE OneCopy'
  BY <1>1, <1>2, <1>3, NoneAdded
<1>4. PICK m \in Messages :
        \/ DeadLetter(m) \/ GiveUp(m) \/ Republish(m)
        \/ RepublishFails(m) \/ RouteRetry(m) \/ AckRetry(m)
  BY DEF MonitorNext
<1> USE DEF TypeOK, BrokerTypeOK, MonitorTypeOK
<1>5. CASE DeadLetter(m)
  <2>1. \A n \in Messages : Queued(n)' = Queued(n)
    BY <1>5 DEF DeadLetter, Queued, Put, Take
  <2> QED BY <1>3, <2>1, QueuedType
<1>6. CASE GiveUp(m)
  <2>1. \A n \in Messages : Queued(n)' <= Queued(n)
    BY <1>6 DEF GiveUp, Queued, Take
  <2> QED BY <1>3, <2>1
<1>7. CASE Republish(m)
  <2>1. \A n \in Messages : Queued(n)' = Queued(n)
    BY <1>7 DEF Republish, brokerVars, Queued, Put, Take
  <2> QED BY <1>3, <2>1, QueuedType
<1>8. CASE RepublishFails(m)
  <2>1. \A n \in Messages : Queued(n)' = Queued(n)
    BY <1>8 DEF RepublishFails, Queued, Put, Take
  <2> QED BY <1>3, <2>1, QueuedType
<1>9. CASE RouteRetry(m)
  <2> DEFINE n == <<Event(m), RetryCount(m) + 1>>
  <2>1. RetryCount(m) < MaxRetries
    <3>1. RetryCount(m) # MaxRetries /\ RetryCount(m) \in 0 .. MaxRetries
      BY <1>9, MessageType DEF RouteRetry
    <3> QED BY <3>1
  <2>2. n \in Messages /\ Event(n) = Event(m) /\ n # m
    <3>1. RetryCount(m) \in Nat
      BY HeaderType
    <3>2. RetryCount(n) = RetryCount(m) + 1
      BY DEF RetryCount
    <3>3. n # m
      BY <3>1, <3>2
    <3> QED BY <2>1, <3>3, MessageType
  <2>3. mainQ' = Put(mainQ, n) /\ sent' = Take(sent, m) /\ sent[m] > 0 /\ UNCHANGED <<dlq, backoff>>
    BY <1>9 DEF RouteRetry
  <2> HIDE DEF n
  <2>4. /\ Queued(n)' = Queued(n) + 1 /\ Queued(m)' = Queued(m) - 1 /\ Queued(m) > 0
        /\ \A k \in Messages \ {m, n} : Queued(k)' = Queued(k)
    BY <2>2, <2>3 DEF Queued, Put, Take
  <2>5. Queued(m) = 1 /\ \A k \in Messages \ {m} : Event(k) = Event(m) => Queued(k) = 0
    BY <2>4, QueuedType DEF OneCopy
  <2>6. Event(m) \notin wire /\ \A w \in Workers : Owns(w) => EventAt(w) # Event(m)
    BY <2>4 DEF OneCopy
  <2>7. Queued(n)' = 1 /\ \A k \in Messages \ {n} :
           IF Event(k) = Event(n) THEN Queued(k)' = 0 ELSE Queued(k)' = Queued(k)
    BY <2>2, <2>4, <2>5
  <2> QED BY <1>1, <1>2, <2>2, <2>6, <2>7, Enqueued
<1>10. CASE AckRetry(m)
  <2>1. \A n \in Messages : Queued(n)' = Queued(n)
    BY <1>10 DEF AckRetry, brokerVars, Queued
  <2> QED BY <1>3, <2>1, QueuedType
<1> QED BY <1>4, <1>5, <1>6, <1>7, <1>8, <1>9, <1>10

-----------------------------------------------------------------------------
(* The consumers. *)

\* What worker w gives back is queued, and w does not own it any more.
LEMMA WorkerReturns ==
    ASSUME TypeOK, TypeOK', OneCopy, NEW w \in Workers, Owns(w), ~Owns(w)',
           \A m \in Messages : Queued(m)' = IF m = hand[w] THEN Queued(m) + 1 ELSE Queued(m),
           UNCHANGED wire,
           \A v \in Workers \ {w} : Owns(v)' => Owns(v) /\ hand'[v] = hand[v]
    PROVE  OneCopy'
<1>1. hand[w] \in Messages
  BY DEF Owns, TypeOK, ConsumerTypeOK
<1>2. \A m \in Messages : Event(m) = Event(hand[w]) => Queued(m) = 0
  BY <1>1, QueuedType DEF OneCopy, EventAt
<1>3. Event(hand[w]) \notin wire /\ \A v \in Workers \ {w} : Owns(v) => EventAt(v) # Event(hand[w])
  BY DEF OneCopy, EventAt
<1> QED BY <1>1, <1>2, <1>3, Enqueued

\* Steps of the storage service: a delivery moves to a worker, and from a worker
\* that does not acknowledge it back to a queue.
LEMMA ConsumerCopies ==
    ASSUME TypeOK, TypeOK', OneCopy, DownIsIdle,
           ConsumerNext, UNCHANGED <<seckillVars, monitorVars>>
    PROVE  OneCopy' /\ DownIsIdle'
<1>1. UNCHANGED <<wire, backoff, sent>>
  BY DEF seckillVars, monitorVars
<1>2. PICK w \in Workers :
        \/ \E m \in Messages : Deliver(w, m)
        \/ Work(w)
        \/ BeginFails(w) \/ InsertFails(w) \/ UpdateFails(w) \/ CommitFails(w)
        \/ LinkLost(w) \/ WorkerCrash(w) \/ WorkerRestart(w)
  BY DEF ConsumerNext
<1> USE DEF TypeOK, ConsumerTypeOK
<1>3. ASSUME UNCHANGED <<mainQ, dlq>> PROVE \A m \in Messages : Queued(m)' = Queued(m)
  BY <1>1, <1>3 DEF Queued
<1>4. ASSUME NEW m \in Messages, Deliver(w, m) PROVE OneCopy' /\ DownIsIdle'
  <2>1. /\ mainQ[m] > 0 /\ mainQ' = Take(mainQ, m) /\ UNCHANGED dlq
        /\ pc' = [pc EXCEPT ![w] = "received"] /\ hand' = [hand EXCEPT ![w] = m]
        /\ pc[w] = "idle" /\ link[w] = "up" /\ UNCHANGED link
    BY <1>4 DEF Deliver, Step
  <2>2. Queued(m) > 0 /\ \A n \in Messages : Queued(n)' = IF n = m THEN Queued(n) - 1 ELSE Queued(n)
    BY <1>1, <2>1 DEF Queued, Take, BrokerTypeOK, MonitorTypeOK
  <2>3. Queued(m)' = 0 /\ \A n \in Messages \ {m} : Event(n) = Event(m) => ~(Queued(n) > 0)
    BY <2>2, QueuedType DEF OneCopy
  <2>4. Event(m) \notin wire /\ \A v \in Workers : Owns(v) => EventAt(v) # Event(m)
    BY <2>2 DEF OneCopy
  <2>5. Owns(w)' /\ EventAt(w)' = Event(m) /\ ~Owns(w)
    BY <2>1 DEF Owns, EventAt
  <2>6. \A v \in Workers \ {w} : (Owns(v)' <=> Owns(v)) /\ EventAt(v)' = EventAt(v)
    BY <2>1 DEF Owns, EventAt
  <2>7. \A n \in Messages : /\ Queued(n)' > 0 => Queued(n) > 0 /\ Event(n) # Event(m)
                            /\ Queued(n)' <= 1
    BY <2>2, <2>3, QueuedType DEF OneCopy
  <2>8. OneCopy'
    BY <1>1, <2>4, <2>5, <2>6, <2>7 DEF OneCopy
  <2> QED BY <2>1, <2>8 DEF DownIsIdle
<1>5. CASE Insert(w) \/ InsertDuplicate(w) \/ Update(w) \/ Commit(w)
           \/ BeginFails(w) \/ InsertFails(w) \/ UpdateFails(w) \/ CommitFails(w)
  <2>1. /\ UNCHANGED <<mainQ, dlq, hand, link>> /\ pc[w] # "idle"
        /\ \A v \in Workers \ {w} : pc'[v] = pc[v]
    BY <1>5 DEF Insert, InsertDuplicate, Update, Commit, BeginFails, InsertFails, UpdateFails,
                CommitFails, Step, brokerVars
  <2>2. \A v \in Workers : Owns(v)' => Owns(v) /\ hand'[v] = hand[v]
    BY <2>1 DEF Owns
  <2>3. OneCopy'
    BY <1>1, <1>3, <2>1, <2>2, QueuedType, NoneAdded
  <2> QED BY <2>1, <2>3 DEF DownIsIdle
<1>6. CASE Ack(w)
  <2>1. /\ UNCHANGED <<mainQ, dlq, link>> /\ pc' = [pc EXCEPT ![w] = "idle"]
        /\ hand' = [hand EXCEPT ![w] = NoMsg]
    BY <1>6 DEF Ack, Step, brokerVars
  <2>2. \A v \in Workers : Owns(v)' => Owns(v) /\ hand'[v] = hand[v]
    BY <2>1 DEF Owns
  <2>3. OneCopy'
    BY <1>1, <1>3, <2>1, <2>2, QueuedType, NoneAdded
  <2> QED BY <2>1, <2>3 DEF DownIsIdle
<1>7. CASE Nack(w)
  <2>1. /\ UNCHANGED <<mainQ, link>> /\ pc[w] = "nack" /\ pc' = [pc EXCEPT ![w] = "idle"]
        /\ hand' = [hand EXCEPT ![w] = NoMsg]
        /\ IF link[w] = "up" THEN dlq' = Put(dlq, hand[w]) ELSE UNCHANGED dlq
    BY <1>7 DEF Nack, Step
  <2>2. ~Owns(w)' /\ \A v \in Workers : Owns(v)' => Owns(v) /\ hand'[v] = hand[v]
    BY <2>1 DEF Owns
  <2>3. CASE link[w] = "up"
    <3>1. Owns(w) /\ hand[w] \in Messages
      BY <2>1, <2>3 DEF Owns
    <3>2. \A m \in Messages : Queued(m)' = IF m = hand[w] THEN Queued(m) + 1 ELSE Queued(m)
      BY <1>1, <2>1, <2>3, <3>1 DEF Queued, Put, BrokerTypeOK, MonitorTypeOK
    <3> QED BY <1>1, <2>1, <2>2, <3>1, <3>2, WorkerReturns DEF DownIsIdle
  <2>4. CASE link[w] # "up"
    <3>1. OneCopy'
      BY <1>1, <1>3, <2>1, <2>2, <2>4, QueuedType, NoneAdded
    <3> QED BY <2>1, <3>1 DEF DownIsIdle
  <2> QED BY <2>3, <2>4
<1>8. CASE LinkLost(w) \/ WorkerCrash(w)
  <2>1. /\ RequeueHand(w) /\ UNCHANGED dlq
        /\ link' \in {[link EXCEPT ![w] = "lost"], [link EXCEPT ![w] = "down"]}
        /\ \A v \in Workers \ {w} : pc'[v] = pc[v] /\ hand'[v] = hand[v]
        /\ link'[w] = "down" => pc'[w] = "idle"
    BY <1>8 DEF LinkLost, WorkerCrash
  <2>2. ~Owns(w)' /\ \A v \in Workers : Owns(v)' => Owns(v) /\ hand'[v] = hand[v]
    BY <2>1 DEF Owns
  <2>3. DownIsIdle'
    BY <2>1 DEF DownIsIdle
  <2>4. CASE Owns(w)
    <3>1. hand[w] \in Messages /\ mainQ' = Put(mainQ, hand[w])
      BY <2>1, <2>4 DEF Owns, RequeueHand
    <3>2. \A m \in Messages : Queued(m)' = IF m = hand[w] THEN Queued(m) + 1 ELSE Queued(m)
      BY <1>1, <2>1, <3>1 DEF Queued, Put, BrokerTypeOK, MonitorTypeOK
    <3> QED BY <1>1, <2>2, <2>3, <2>4, <3>2, WorkerReturns
  <2>5. CASE ~Owns(w)
    <3>1. UNCHANGED mainQ
      BY <2>1, <2>5 DEF Owns, RequeueHand
    <3> QED BY <1>1, <1>3, <2>1, <2>2, <2>3, <3>1, QueuedType, NoneAdded
  <2> QED BY <2>4, <2>5
<1>9. CASE WorkerRestart(w)
  <2>1. /\ UNCHANGED <<mainQ, dlq, pc, hand>> /\ link[w] = "down" /\ pc[w] = "idle"
        /\ link' = [link EXCEPT ![w] = "up"]
    BY <1>9 DEF WorkerRestart, brokerVars, DownIsIdle
  <2>2. \A v \in Workers : Owns(v)' => Owns(v) /\ hand'[v] = hand[v]
    BY <2>1 DEF Owns
  <2>3. OneCopy'
    BY <1>1, <1>3, <2>1, <2>2, QueuedType, NoneAdded
  <2> QED BY <2>1, <2>3 DEF DownIsIdle
<1> QED BY <1>2, <1>4, <1>5, <1>6, <1>7, <1>8, <1>9 DEF Work

-----------------------------------------------------------------------------
\* OneCopy: with failures of MySQL, republishes, storage processes and their
\* links of any number and order, an event has one copy.  What makes a second is
\* the end of the interaction service's connection between the routing of a
\* republish and the Ack of its original, so its causes are excluded.
THEOREM OneCopyWhileConnected ==
    ASSUME {"conn", "shutdown", "crash"} \cap FaultKinds = {}
    PROVE  Spec => []OneCopy
<1> DEFINE Inv == OneCopy /\ DownIsIdle
<1>1. Init => Inv
  <2> SUFFICES ASSUME Init PROVE Inv
    OBVIOUS
  <2>1. \A m \in Messages : Queued(m) = 0
    BY NoCopiesType DEF Init, BrokerInit, MonitorInit, Queued
  <2>2. \A w \in Workers : ~Owns(w)
    BY DEF Init, ConsumerInit, Owns
  <2>3. DownIsIdle
    BY DEF Init, ConsumerInit, DownIsIdle
  <2> QED BY <2>1, <2>2, <2>3 DEF OneCopy
<1>2. ASSUME TypeOK, TypeOK', OnlyAcceptedTravels, Inv, [Next]_vars PROVE Inv'
  <2>1. ASSUME UNCHANGED <<mainQ, dlq, backoff, sent, wire, pc, hand, link>> PROVE Inv'
    <3>1. \A m \in Messages : Queued(m)' = Queued(m)
      BY <2>1 DEF Queued
    <3>2. \A w \in Workers : (Owns(w)' <=> Owns(w)) /\ EventAt(w)' = EventAt(w)
      BY <2>1 DEF Owns, EventAt
    <3> QED BY <1>2, <2>1, <3>1, <3>2 DEF OneCopy, DownIsIdle
  <2>2. CASE SeckillNext /\ UNCHANGED <<monitorVars, consumerVars>>
    BY <1>2, <2>2, SeckillCopies DEF DownIsIdle, consumerVars
  <2>3. CASE MonitorNext /\ UNCHANGED <<seckillVars, consumerVars>>
    BY <1>2, <2>3, MonitorCopies DEF DownIsIdle, consumerVars
  <2>4. CASE ConsumerNext /\ UNCHANGED <<seckillVars, monitorVars>>
    BY <1>2, <2>4, ConsumerCopies
  <2>5. CASE ConnectionLost \/ ShutdownHook \/ ProcessCrash
    BY <2>5 DEF ConnectionLost, ShutdownHook, ProcessCrash, Fault
  <2>6. CASE ProcessRestart
    BY <2>1, <2>6 DEF ProcessRestart, consumerVars
  <2>7. CASE UNCHANGED vars
    BY <2>1, <2>7 DEF vars, brokerVars, seckillVars, monitorVars, consumerVars
  <2> QED BY <1>2, <2>2, <2>3, <2>4, <2>5, <2>6, <2>7 DEF Next
<1>3. Inv => OneCopy
  OBVIOUS
<1> HIDE DEF Inv
<1> QED BY <1>1, <1>2, <1>3, Typing, Travels, PTL DEF Spec
=============================================================================
