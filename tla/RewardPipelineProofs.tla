------------------------ MODULE RewardPipelineProofs ------------------------
(***************************************************************************)
(* Theorems about RewardPipeline, for every number of users, requests,     *)
(* workers, retries and faults, and every subset of fault kinds.           *)
(***************************************************************************)
EXTENDS RewardPipeline, FiniteSetTheorems, TLAPS

USE UserOfAssumption, RetriesAssumption, FaultsAssumption, StockAssumption,
    RowsAssumption, NoMsgAssumption

-----------------------------------------------------------------------------
(* Bags. *)

\* Adding a copy of a message to a bag gives a bag.
LEMMA PutType ==
    ASSUME NEW q \in [Messages -> Nat], NEW m \in Messages
    PROVE  /\ Put(q, m) \in [Messages -> Nat]
           /\ \A n \in Messages : Put(q, m)[n] = IF n = m THEN q[n] + 1 ELSE q[n]
BY DEF Put

\* So does removing one that is there.
LEMMA TakeType ==
    ASSUME NEW q \in [Messages -> Nat], NEW m \in Messages, q[m] > 0
    PROVE  /\ Take(q, m) \in [Messages -> Nat]
           /\ \A n \in Messages : Take(q, m)[n] = IF n = m THEN q[n] - 1 ELSE q[n]
BY DEF Take

\* The copies in two bags together.
LEMMA MergeType ==
    ASSUME NEW p \in [Messages -> Nat], NEW q \in [Messages -> Nat]
    PROVE  /\ Merge(p, q) \in [Messages -> Nat]
           /\ \A n \in Messages : Merge(p, q)[n] = p[n] + q[n]
BY DEF Merge

\* The empty bag.
LEMMA NoCopiesType ==
    /\ NoCopies \in [Messages -> Nat]
    /\ \A n \in Messages : NoCopies[n] = 0
BY DEF NoCopies

\* The parts of a message, and the header a republished copy gets.
LEMMA MessageType ==
    ASSUME NEW m \in Messages
    PROVE  /\ Event(m) \in Reqs /\ RetryCount(m) \in 0 .. MaxRetries
           /\ RetryCount(m) < MaxRetries =>
                /\ <<Event(m), RetryCount(m) + 1>> \in Messages
                /\ Event(<<Event(m), RetryCount(m) + 1>>) = Event(m)
BY DEF Messages, Event, RetryCount

\* A request's first message.
LEMMA FirstMessage ==
    ASSUME NEW r \in Reqs
    PROVE  <<r, 0>> \in Messages /\ Event(<<r, 0>>) = r
BY DEF Messages, Event

-----------------------------------------------------------------------------
(* Type correctness. *)

\* Every step of the seckill service keeps every variable in its domain: stock
\* in particular is only decremented when the script found it positive.
LEMMA SeckillTyping ==
    ASSUME TypeOK, SeckillNext, UNCHANGED <<monitorVars, consumerVars>>
    PROVE  TypeOK'
<1> USE DEF TypeOK, BrokerTypeOK, SeckillTypeOK, brokerVars, NoFault, Fault, Answers, Winning, Answer
<1>0. MonitorTypeOK' /\ ConsumerTypeOK'
    BY DEF MonitorTypeOK, ConsumerTypeOK, monitorVars, consumerVars, InTx, EventAt
<1>1. ASSUME NEW r \in Reqs, Seckill(r) PROVE BrokerTypeOK' /\ SeckillTypeOK'
    BY <1>1 DEF Seckill, ScriptEffect, ScriptResult
<1>2. ASSUME NEW r \in Reqs, EvalFails(r) PROVE BrokerTypeOK' /\ SeckillTypeOK'
    BY <1>2 DEF EvalFails, ScriptEffect, ScriptResult
<1>3. ASSUME NEW r \in Reqs, GetChannel(r) PROVE BrokerTypeOK' /\ SeckillTypeOK'
    BY <1>3 DEF GetChannel
<1>4. ASSUME NEW r \in Reqs, GetChannelFails(r) PROVE BrokerTypeOK' /\ SeckillTypeOK'
    BY <1>4 DEF GetChannelFails
<1>5. ASSUME NEW r \in Reqs, Publish(r) PROVE BrokerTypeOK' /\ SeckillTypeOK'
    BY <1>5 DEF Publish
<1>6. ASSUME NEW r \in Reqs, PublishFails(r) PROVE BrokerTypeOK' /\ SeckillTypeOK'
    BY <1>6 DEF PublishFails
<1>7. ASSUME NEW r \in Reqs, Route(r) PROVE BrokerTypeOK' /\ SeckillTypeOK'
    BY <1>7, FirstMessage, PutType DEF Route
<1>8. CASE StopAccepting
    BY <1>0, <1>8 DEF StopAccepting
<1>9. CASE Exit
    BY <1>0, <1>9 DEF Exit
<1> QED BY <1>0, <1>1, <1>2, <1>3, <1>4, <1>5, <1>6, <1>7, <1>8, <1>9 DEF SeckillNext

\* So does every step of the dead-letter monitor: a header never exceeds
\* MaxRetries, because only messages below the limit are republished.
LEMMA MonitorTyping ==
    ASSUME TypeOK, MonitorNext, UNCHANGED <<seckillVars, consumerVars>>
    PROVE  TypeOK'
<1> USE DEF TypeOK, BrokerTypeOK, MonitorTypeOK, brokerVars, Fault
<1>0. SeckillTypeOK' /\ ConsumerTypeOK'
    BY DEF SeckillTypeOK, ConsumerTypeOK, seckillVars, consumerVars
<1>1. PICK m \in Messages :
        \/ DeadLetter(m) \/ GiveUp(m) \/ Republish(m)
        \/ RepublishFails(m) \/ RouteRetry(m) \/ AckRetry(m)
    BY DEF MonitorNext
<1>2. CASE DeadLetter(m)
  <2>1. RetryCount(m) # MaxRetries
      BY <1>2, MessageType DEF DeadLetter
  <2>2. Take(dlq, m) \in [Messages -> Nat]
      BY <1>2, TakeType DEF DeadLetter
  <2>3. /\ Put(backoff, m) \in [Messages -> Nat]
        /\ \A n \in Messages : n # m => Put(backoff, m)[n] = backoff[n]
      BY PutType
  <2> QED BY <1>0, <1>2, <2>1, <2>2, <2>3 DEF DeadLetter
<1>3. CASE GiveUp(m)
    BY <1>0, <1>3, TakeType, MessageType DEF GiveUp
<1>4. CASE Republish(m)
  <2>1. RetryCount(m) # MaxRetries
      BY <1>4 DEF Republish
  <2>2. /\ Take(backoff, m) \in [Messages -> Nat]
        /\ \A n \in Messages : n # m => Take(backoff, m)[n] = backoff[n]
      BY <1>4, TakeType DEF Republish
  <2>3. /\ Put(sent, m) \in [Messages -> Nat]
        /\ \A n \in Messages : n # m => Put(sent, m)[n] = sent[n]
      BY PutType
  <2> QED BY <1>0, <1>4, <2>1, <2>2, <2>3 DEF Republish
<1>5. CASE RepublishFails(m)
  <2>1. RetryCount(m) # MaxRetries
      BY <1>5 DEF RepublishFails
  <2>2. /\ Take(backoff, m) \in [Messages -> Nat]
        /\ \A n \in Messages : n # m => Take(backoff, m)[n] = backoff[n]
      BY <1>5, TakeType DEF RepublishFails
  <2>3. Put(dlq, m) \in [Messages -> Nat]
      BY PutType
  <2> QED BY <1>0, <1>5, <2>1, <2>2, <2>3 DEF RepublishFails
<1>6. CASE RouteRetry(m)
  <2>1. RetryCount(m) < MaxRetries
    <3>1. RetryCount(m) # MaxRetries
        BY <1>6 DEF RouteRetry
    <3>2. RetryCount(m) \in 0 .. MaxRetries
        BY MessageType
    <3> QED BY <3>1, <3>2
  <2>2. <<Event(m), RetryCount(m) + 1>> \in Messages
      BY <2>1, MessageType
  <2>3. /\ Take(sent, m) \in [Messages -> Nat]
        /\ \A n \in Messages : n # m => Take(sent, m)[n] = sent[n]
      BY <1>6, TakeType DEF RouteRetry
  <2>4. /\ Put(routed, m) \in [Messages -> Nat]
        /\ Put(mainQ, <<Event(m), RetryCount(m) + 1>>) \in [Messages -> Nat]
      BY <2>2, PutType
  <2>5. RetryCount(m) # MaxRetries
      BY <2>1
  <2> QED BY <1>0, <1>6, <2>3, <2>4, <2>5 DEF RouteRetry
<1>7. CASE AckRetry(m)
    BY <1>0, <1>7, TakeType DEF AckRetry
<1> QED BY <1>1, <1>2, <1>3, <1>4, <1>5, <1>6, <1>7

\* So does every step of the quota consumers: a worker that is not idle holds
\* a message.
LEMMA ConsumerTyping ==
    ASSUME TypeOK, ConsumerNext, UNCHANGED <<seckillVars, monitorVars>>
    PROVE  TypeOK'
<1> USE DEF TypeOK, BrokerTypeOK, ConsumerTypeOK, brokerVars, Fault, PCs, Step, EventAt
<1>0. SeckillTypeOK' /\ MonitorTypeOK'
    BY DEF SeckillTypeOK, MonitorTypeOK, seckillVars, monitorVars
<1>1. PICK w \in Workers :
        \/ \E m \in Messages : Deliver(w, m)
        \/ Work(w)
        \/ BeginFails(w) \/ InsertFails(w) \/ UpdateFails(w) \/ CommitFails(w)
        \/ LinkLost(w) \/ WorkerCrash(w) \/ WorkerRestart(w)
    BY DEF ConsumerNext
<1>2. ASSUME NEW m \in Messages, Deliver(w, m) PROVE TypeOK'
    BY <1>0, <1>2, TakeType DEF Deliver
<1>3. CASE Insert(w)          BY <1>0, <1>3 DEF Insert
<1>4. CASE InsertDuplicate(w) BY <1>0, <1>4 DEF InsertDuplicate
<1>5. CASE Update(w)          BY <1>0, <1>5 DEF Update
<1>6. ASSUME pc[w] = "updated", Apply(w)
      PROVE  records' \subseteq Reqs /\ quota' \in [Users -> Nat]
  <2>1. hand[w] \in Messages
      BY <1>6
  <2>2. EventAt(w) \in Reqs /\ UserOf[EventAt(w)] \in Users
      BY <2>1, MessageType
  <2> QED BY <1>6, <2>2 DEF Apply
<1>7. CASE Commit(w)          BY <1>0, <1>6, <1>7 DEF Commit
<1>8. CASE Ack(w)             BY <1>0, <1>8 DEF Ack
<1>9. CASE Nack(w)
  <2>1. hand[w] \in Messages
      BY <1>9 DEF Nack
  <2>2. EventAt(w) \in Reqs /\ Put(dlq, hand[w]) \in [Messages -> Nat]
      BY <2>1, MessageType, PutType
  <2> QED BY <1>0, <1>9, <2>2 DEF Nack
<1>10. CASE BeginFails(w)     BY <1>0, <1>10 DEF BeginFails
<1>11. CASE InsertFails(w)
  <2>1. hand[w] \in Messages
      BY <1>11 DEF InsertFails
  <2>2. EventAt(w) \in Reqs
      BY <2>1, MessageType
  <2> QED BY <1>0, <1>11, <2>2 DEF InsertFails
<1>12. CASE UpdateFails(w)    BY <1>0, <1>12 DEF UpdateFails
<1>13. CASE CommitFails(w)    BY <1>0, <1>6, <1>13 DEF CommitFails
<1>14. ASSUME RequeueHand(w) PROVE mainQ' \in [Messages -> Nat]
    BY <1>14, PutType DEF RequeueHand
<1>15. CASE LinkLost(w)       BY <1>0, <1>14, <1>15 DEF LinkLost
<1>16. CASE WorkerCrash(w)    BY <1>0, <1>14, <1>16 DEF WorkerCrash
<1>17. CASE WorkerRestart(w)  BY <1>0, <1>17 DEF WorkerRestart
<1> QED BY <1>1, <1>2, <1>3, <1>4, <1>5, <1>7, <1>8, <1>9, <1>10, <1>11, <1>12,
           <1>13, <1>15, <1>16, <1>17 DEF Work

\* Requeueing what the monitor holds gives bags, and empties the three stages.
LEMMA RequeueTyping ==
    ASSUME TypeOK, RequeueUnacked
    PROVE  /\ dlq' \in [Messages -> Nat]
           /\ backoff' = NoCopies /\ sent' = NoCopies /\ routed' = NoCopies
           /\ \A m \in Messages : dlq'[m] = dlq[m] + (backoff[m] + (sent[m] + routed[m]))
BY MergeType DEF TypeOK, BrokerTypeOK, MonitorTypeOK, RequeueUnacked

\* Every variable stays in its domain in every behaviour of the pipeline.
THEOREM Typing == Spec => []TypeOK
<1>1. Init => TypeOK
    BY NoCopiesType
    DEF Init, BrokerInit, SeckillInit, MonitorInit, ConsumerInit, TypeOK,
        BrokerTypeOK, SeckillTypeOK, MonitorTypeOK, ConsumerTypeOK, Answers, PCs
<1>2. TypeOK /\ [Next]_vars => TypeOK'
  <2> SUFFICES ASSUME TypeOK, [Next]_vars PROVE TypeOK'
      OBVIOUS
  <2> USE DEF TypeOK, BrokerTypeOK, SeckillTypeOK, MonitorTypeOK, Answers, Winning, Fault, NoFault
  <2>1. UNCHANGED consumerVars => ConsumerTypeOK'
      BY DEF ConsumerTypeOK, consumerVars
  <2>2. CASE SeckillNext /\ UNCHANGED <<monitorVars, consumerVars>>
      BY <2>2, SeckillTyping
  <2>3. CASE MonitorNext /\ UNCHANGED <<seckillVars, consumerVars>>
      BY <2>3, MonitorTyping
  <2>4. CASE ConsumerNext /\ UNCHANGED <<seckillVars, monitorVars>>
      BY <2>4, ConsumerTyping
  <2>5. CASE ConnectionLost
      BY <2>1, <2>5, RequeueTyping, NoCopiesType DEF ConnectionLost, LoseWire
  <2>6. CASE ShutdownHook
      BY <2>1, <2>6, RequeueTyping, NoCopiesType DEF ShutdownHook
  <2>7. CASE ProcessCrash
      BY <2>1, <2>7, RequeueTyping, NoCopiesType DEF ProcessCrash, LoseWire, Kill
  <2>8. CASE ProcessRestart
    <3>1. monitor' \in BOOLEAN
        BY <2>8, Zenon DEF ProcessRestart
    <3>2. faults' = faults \/ (faults < MaxFaults /\ faults' = faults + 1)
        BY <2>8, Zenon DEF ProcessRestart
    <3>3. faults' \in 0 .. MaxFaults
        BY <3>2
    <3> QED BY <2>1, <2>8, <3>1, <3>3 DEF ProcessRestart
  <2>9. CASE UNCHANGED vars
      BY <2>1, <2>9 DEF vars, brokerVars, seckillVars, monitorVars
  <2> QED BY <2>2, <2>3, <2>4, <2>5, <2>6, <2>7, <2>8, <2>9 DEF Next
<1> QED BY <1>1, <1>2, PTL DEF Spec

-----------------------------------------------------------------------------
(* Stock, winners and winning requests. *)

\* A step that leaves Redis alone and turns no request into or out of a winning
\* one preserves WinsMatchStock.
LEMMA WinsFrame ==
    ASSUME WinsMatchStock, UNCHANGED <<stock, winners>>,
           \A r \in Reqs : rpc'[r] \in Winning <=> rpc[r] \in Winning
    PROVE  WinsMatchStock'
<1>1. {UserOf[r] : r \in {x \in Reqs : rpc'[x] \in Winning}}
        = {UserOf[r] : r \in {x \in Reqs : rpc[x] \in Winning}}
    OBVIOUS
<1> QED BY <1>1 DEF WinsMatchStock

\* A run of the script for a new request preserves it: the winner check keeps a
\* second request of a winner from taking stock.
LEMMA WinsScript ==
    ASSUME TypeOK, WinsMatchStock, NEW r \in Reqs, NEW a \in Answers,
           rpc[r] = "new", ScriptEffect(UserOf[r]), Answer(r, a),
           a \in Winning <=> ScriptResult(UserOf[r]) = "won"
    PROVE  WinsMatchStock'
<1> USE DEF TypeOK, SeckillTypeOK
<1>1. rpc[r] \notin Winning /\ rpc'[r] = a /\ \A s \in Reqs \ {r} : rpc'[s] = rpc[s]
    BY DEF Answer, Winning
<1>2. CASE ScriptResult(UserOf[r]) = "won"
  <2>1. UserOf[r] \notin winners /\ stock > 0 /\ UserOf[r] \in Users
      BY <1>2 DEF ScriptResult
  <2>2. stock' = stock - 1 /\ winners' = winners \cup {UserOf[r]}
      BY <1>2 DEF ScriptEffect
  <2>3. IsFiniteSet(winners)
    <3>1. winners \in SUBSET Users
        OBVIOUS
    <3>2. IsFiniteSet(Users)
        BY UsersAssumption
    <3> QED BY ONLY <3>1, <3>2, FS_Subset, Zenon
  <2>4. Cardinality(winners) \in Nat /\ Cardinality(winners') = Cardinality(winners) + 1
      BY <2>1, <2>2, <2>3, FS_AddElement, FS_CardinalityType
  <2>5. stock' + Cardinality(winners') = InitialStock
      BY <2>1, <2>2, <2>4 DEF WinsMatchStock
  <2>6. {x \in Reqs : rpc'[x] \in Winning} = {x \in Reqs : rpc[x] \in Winning} \cup {r}
      BY <1>1, <1>2
  <2>7. winners' = {UserOf[x] : x \in {y \in Reqs : rpc'[y] \in Winning}}
      BY <2>2, <2>6 DEF WinsMatchStock
  <2>8. \A s \in Reqs : rpc[s] \in Winning => UserOf[s] \in winners
      BY DEF WinsMatchStock
  <2>9. \A s, t \in Reqs :
           rpc'[s] \in Winning /\ rpc'[t] \in Winning /\ UserOf[s] = UserOf[t] => s = t
      BY <1>1, <2>1, <2>8 DEF WinsMatchStock
  <2> QED BY <2>5, <2>7, <2>9 DEF WinsMatchStock
<1>3. CASE ScriptResult(UserOf[r]) # "won"
  <2>1. UNCHANGED <<stock, winners>>
      BY <1>3 DEF ScriptEffect
  <2>2. \A s \in Reqs : rpc'[s] \in Winning <=> rpc[s] \in Winning
      BY <1>1, <1>3
  <2> QED BY <2>1, <2>2, WinsFrame
<1> QED BY <1>2, <1>3

\* The seckill never oversells and no user wins twice.
THEOREM NeverOversold == Spec => []WinsMatchStock
<1>1. Init => WinsMatchStock
  <2> SUFFICES ASSUME Init PROVE WinsMatchStock
      OBVIOUS
  <2>1. winners = {} /\ stock = InitialStock /\ \A r \in Reqs : rpc[r] \notin Winning
      BY DEF Init, SeckillInit, Winning
  <2>2. Cardinality(winners) = 0
      BY <2>1, FS_EmptySet
  <2> QED BY <2>1, <2>2 DEF WinsMatchStock
<1>2. TypeOK /\ WinsMatchStock /\ [Next]_vars => WinsMatchStock'
  <2> SUFFICES ASSUME TypeOK, WinsMatchStock, [Next]_vars PROVE WinsMatchStock'
      OBVIOUS
  <2> USE DEF TypeOK, SeckillTypeOK, Answer
  <2>1. CASE UNCHANGED seckillVars
      BY <2>1, WinsFrame DEF seckillVars
  <2>2. ASSUME NEW r \in Reqs, Seckill(r) PROVE WinsMatchStock'
    <3>1. ScriptResult(UserOf[r]) \in Answers /\
          (ScriptResult(UserOf[r]) \in Winning <=> ScriptResult(UserOf[r]) = "won")
        BY DEF ScriptResult, Answers, Winning
    <3> QED BY <2>2, <3>1, WinsScript DEF Seckill
  <2>3. ASSUME NEW r \in Reqs, EvalFails(r) PROVE WinsMatchStock'
    <3>1. "busy" \in Answers \ Winning /\ "phantom" \in Answers \cap Winning
        BY DEF Answers, Winning
    <3>2. CASE UNCHANGED <<stock, winners>> /\ Answer(r, "busy")
      <4>1. rpc[r] \notin Winning
          BY <2>3 DEF EvalFails, Winning
      <4> QED BY <3>1, <3>2, <4>1, WinsFrame
    <3>3. CASE /\ ScriptEffect(UserOf[r])
               /\ Answer(r, IF ScriptResult(UserOf[r]) = "won" THEN "phantom" ELSE "busy")
      <4> DEFINE a == IF ScriptResult(UserOf[r]) = "won" THEN "phantom" ELSE "busy"
      <4>1. a \in Answers /\ (a \in Winning <=> ScriptResult(UserOf[r]) = "won")
          BY <3>1
      <4>2. rpc[r] = "new" /\ Answer(r, a)
          BY <2>3, <3>3 DEF EvalFails
      <4> HIDE DEF a
      <4> QED BY <3>3, <4>1, <4>2, WinsScript
    <3> QED BY <2>3, <3>2, <3>3 DEF EvalFails
  <2>4. ASSUME NEW r \in Reqs,
               GetChannel(r) \/ GetChannelFails(r) \/ Publish(r) \/ PublishFails(r) \/ Route(r)
        PROVE  WinsMatchStock'
    <3>1. UNCHANGED <<stock, winners>>
        BY <2>4 DEF GetChannel, GetChannelFails, Publish, PublishFails, Route
    <3>2. \A s \in Reqs : rpc'[s] \in Winning <=> rpc[s] \in Winning
        BY <2>4 DEF GetChannel, GetChannelFails, Publish, PublishFails, Route, Winning
    <3> QED BY <3>1, <3>2, WinsFrame
  <2>5. CASE StopAccepting \/ Exit
      BY <2>5, WinsFrame DEF StopAccepting, Exit
  <2>6. CASE ConnectionLost \/ ShutdownHook \/ ProcessRestart
      BY <2>6, WinsFrame DEF ConnectionLost, ShutdownHook, ProcessRestart
  <2>7. CASE ProcessCrash
    <3>1. \A s \in Reqs : rpc'[s] \in Winning <=> rpc[s] \in Winning
        BY <2>7 DEF ProcessCrash, Kill, InFlight, Winning
    <3> QED BY <2>7, <3>1, WinsFrame DEF ProcessCrash
  <2> QED BY <2>1, <2>2, <2>3, <2>4, <2>5, <2>6, <2>7 DEF Next, SeckillNext, vars
<1> QED BY <1>1, <1>2, Typing, PTL DEF Spec

-----------------------------------------------------------------------------
(* Only events of accepted requests travel. *)

\* An accepted answer is final: no step, the end of the process included,
\* changes it.
LEMMA AcceptedStays ==
    ASSUME TypeOK, [Next]_vars, NEW e \in Reqs, rpc[e] = "accepted"
    PROVE  rpc'[e] = "accepted"
<1> USE DEF TypeOK, SeckillTypeOK, Answer
<1>1. ASSUME SeckillNext PROVE rpc'[e] = "accepted"
  <2>1. ASSUME NEW r \in Reqs, Seckill(r) \/ EvalFails(r) PROVE rpc'[e] = "accepted"
      BY <2>1 DEF Seckill, EvalFails
  <2>2. ASSUME NEW r \in Reqs,
               GetChannel(r) \/ GetChannelFails(r) \/ Publish(r) \/ PublishFails(r) \/ Route(r)
        PROVE  rpc'[e] = "accepted"
      BY <2>2 DEF GetChannel, GetChannelFails, Publish, PublishFails, Route
  <2>3. CASE StopAccepting \/ Exit
      BY <2>3 DEF StopAccepting, Exit
  <2> QED BY <1>1, <2>1, <2>2, <2>3 DEF SeckillNext
<1>2. CASE UNCHANGED seckillVars
    BY <1>2 DEF seckillVars
<1>3. CASE ConnectionLost \/ ShutdownHook \/ ProcessRestart
    BY <1>3 DEF ConnectionLost, ShutdownHook, ProcessRestart
<1>4. CASE ProcessCrash
    BY <1>4 DEF ProcessCrash, Kill, InFlight
<1> QED BY <1>1, <1>2, <1>3, <1>4 DEF Next, vars

\* A bag whose new messages are of accepted events is still within them.
LEMMA WithinStep ==
    ASSUME TypeOK, [Next]_vars, NEW p, NEW q,
           \A m \in Messages : q[m] > 0 => rpc[Event(m)] = "accepted",
           \A m \in Messages : p[m] > 0 => q[m] > 0 \/ rpc'[Event(m)] = "accepted"
    PROVE  \A m \in Messages : p[m] > 0 => rpc'[Event(m)] = "accepted"
BY AcceptedStays, MessageType

\* Requeueing the monitor's deliveries moves only accepted events.
LEMMA WithinRequeue ==
    ASSUME TypeOK, OnlyAcceptedTravels, [Next]_vars, RequeueUnacked
    PROVE  Within(dlq)' /\ Within(backoff)' /\ Within(sent)' /\ Within(routed)'
<1>1. \A m \in Messages : dlq'[m] = dlq[m] + (backoff[m] + (sent[m] + routed[m]))
    BY RequeueTyping
<1>2. \A m \in Messages : dlq[m] \in Nat /\ backoff[m] \in Nat /\ sent[m] \in Nat /\ routed[m] \in Nat
    BY DEF TypeOK, BrokerTypeOK, MonitorTypeOK
<1>3. ASSUME NEW m \in Messages, dlq'[m] > 0 PROVE rpc[Event(m)] = "accepted"
    BY <1>1, <1>2, <1>3 DEF OnlyAcceptedTravels, Within
<1>4. ASSUME NEW m \in Messages, dlq'[m] > 0 PROVE rpc'[Event(m)] = "accepted"
    BY <1>3, <1>4, AcceptedStays, MessageType
<1>5. backoff' = NoCopies /\ sent' = NoCopies /\ routed' = NoCopies
    BY RequeueTyping
<1> QED BY <1>4, <1>5, NoCopiesType DEF Within

\* Every step keeps what travels within the accepted events.
LEMMA TravelStep ==
    ASSUME TypeOK, TypeOK', OnlyAcceptedTravels, [Next]_vars
    PROVE  OnlyAcceptedTravels'
<1> DEFINE Requests == \A e \in (wire \cup records) : rpc[e] = "accepted"
           Hands    == \A w \in Workers : pc[w] # "idle" => rpc[EventAt(w)] = "accepted"
           Queues   == Within(mainQ) /\ Within(dlq)
           Monitor  == Within(backoff) /\ Within(sent) /\ Within(routed)
<1>a. wire \subseteq Reqs /\ records \subseteq Reqs
    BY DEF TypeOK, SeckillTypeOK, ConsumerTypeOK
<1>b. \A w \in Workers : pc[w] # "idle" => EventAt(w) \in Reqs /\ hand[w] \in Messages
    BY MessageType DEF TypeOK, ConsumerTypeOK, EventAt
<1>c. UNCHANGED <<pc, hand>> => Hands'
    BY <1>b, AcceptedStays DEF OnlyAcceptedTravels, EventAt
<1>d. wire' \cup records' \subseteq wire \cup records => Requests'
    BY <1>a, AcceptedStays DEF OnlyAcceptedTravels
<1>e. UNCHANGED <<backoff, sent, routed>> => Monitor'
    BY WithinStep DEF OnlyAcceptedTravels, Within
<1>f. UNCHANGED mainQ => Within(mainQ)'
    BY WithinStep DEF OnlyAcceptedTravels, Within
<1>g. UNCHANGED dlq => Within(dlq)'
    BY WithinStep DEF OnlyAcceptedTravels, Within
<1>1. ASSUME SeckillNext, UNCHANGED <<monitorVars, consumerVars>>
      PROVE  OnlyAcceptedTravels'
  <2>1. Hands' /\ Monitor'
      BY <1>1, <1>c, <1>e DEF monitorVars, consumerVars
  <2>2. UNCHANGED records
      BY <1>1 DEF consumerVars
  <2>3. ASSUME NEW r \in Reqs, Publish(r) PROVE Requests' /\ Queues'
    <3>1. wire' = wire \cup {r} /\ rpc'[r] = "accepted" /\ UNCHANGED <<mainQ, dlq>>
        BY <2>3 DEF Publish, Answer, brokerVars, TypeOK, SeckillTypeOK
    <3>2. Requests'
        BY <1>a, <2>2, <3>1, AcceptedStays DEF OnlyAcceptedTravels
    <3> QED BY <1>f, <1>g, <3>1, <3>2
  <2>4. ASSUME NEW r \in Reqs, Route(r) PROVE Requests' /\ Queues'
    <3>1. wire' \subseteq wire /\ rpc[r] = "accepted" /\ UNCHANGED <<dlq, rpc>>
        BY <2>4 DEF Route, OnlyAcceptedTravels
    <3>2. \A m \in Messages : mainQ'[m] > 0 => mainQ[m] > 0 \/ m = <<r, 0>>
      <4> DEFINE n == <<r, 0>>
      <4>1. n \in Messages /\ mainQ' = Put(mainQ, n) /\ mainQ \in [Messages -> Nat]
          BY <2>4, FirstMessage DEF Route, TypeOK, BrokerTypeOK
      <4> HIDE DEF n
      <4>2. \A m \in Messages : mainQ'[m] > 0 => mainQ[m] > 0 \/ m = n
          BY <4>1, PutType
      <4> QED BY <4>2 DEF n
    <3>3. Within(mainQ)'
        BY <3>1, <3>2, FirstMessage DEF Within, OnlyAcceptedTravels
    <3> QED BY <1>d, <1>g, <2>2, <3>1, <3>3
  <2>5. ASSUME NEW r \in Reqs,
               Seckill(r) \/ EvalFails(r) \/ GetChannel(r) \/ GetChannelFails(r) \/ PublishFails(r)
        PROVE  Requests' /\ Queues'
    <3>1. UNCHANGED <<wire, mainQ, dlq>>
        BY <2>5 DEF Seckill, EvalFails, GetChannel, GetChannelFails, PublishFails, brokerVars
    <3> QED BY <1>d, <1>f, <1>g, <2>2, <3>1
  <2>6. CASE StopAccepting \/ Exit
    <3>1. UNCHANGED <<wire, mainQ, dlq>>
        BY <2>6 DEF StopAccepting, Exit, brokerVars
    <3> QED BY <1>d, <1>f, <1>g, <2>1, <2>2, <3>1 DEF OnlyAcceptedTravels
  <2> QED BY <1>1, <2>1, <2>3, <2>4, <2>5, <2>6 DEF SeckillNext, OnlyAcceptedTravels
<1>2. ASSUME MonitorNext, UNCHANGED <<seckillVars, consumerVars>>
      PROVE  OnlyAcceptedTravels'
  <2>1. Hands' /\ Requests' /\ UNCHANGED rpc
      BY <1>2, <1>c, <1>d DEF seckillVars, consumerVars
  <2>2. PICK m \in Messages :
          \/ DeadLetter(m) \/ GiveUp(m) \/ Republish(m)
          \/ RepublishFails(m) \/ RouteRetry(m) \/ AckRetry(m)
      BY <1>2 DEF MonitorNext
  <2> USE DEF TypeOK, BrokerTypeOK, MonitorTypeOK, OnlyAcceptedTravels, Within
  <2>3. CASE DeadLetter(m)
      BY <2>1, <2>3 DEF DeadLetter, Put, Take
  <2>4. CASE GiveUp(m)
      BY <2>1, <2>4 DEF GiveUp, Take
  <2>5. CASE Republish(m)
      BY <2>1, <2>5 DEF Republish, Put, Take, brokerVars
  <2>6. CASE RepublishFails(m)
      BY <2>1, <2>6 DEF RepublishFails, Put, Take
  <2>7. CASE RouteRetry(m)
    <3> DEFINE n == <<Event(m), RetryCount(m) + 1>>
    <3>1. RetryCount(m) < MaxRetries
      <4>1. RetryCount(m) # MaxRetries /\ RetryCount(m) \in 0 .. MaxRetries
          BY <2>7, MessageType DEF RouteRetry
      <4> QED BY <4>1
    <3>2. n \in Messages /\ Event(n) = Event(m) /\ rpc[Event(m)] = "accepted"
        BY <2>7, <3>1, MessageType DEF RouteRetry
    <3> HIDE DEF n
    <3>3. mainQ' = Put(mainQ, n) /\ sent' = Take(sent, m) /\ routed' = Put(routed, m)
        BY <2>7 DEF RouteRetry, n
    <3>4. Within(mainQ)'
        BY <2>1, <3>2, <3>3 DEF Put
    <3>5. Within(sent)' /\ Within(routed)'
        BY <2>1, <2>7, <3>2, <3>3 DEF Put, Take
    <3> QED BY <2>1, <2>7, <3>4, <3>5 DEF RouteRetry
  <2>8. CASE AckRetry(m)
      BY <2>1, <2>8 DEF AckRetry, Take, brokerVars
  <2> QED BY <2>2, <2>3, <2>4, <2>5, <2>6, <2>7, <2>8
<1>3. ASSUME ConsumerNext, UNCHANGED <<seckillVars, monitorVars>>
      PROVE  OnlyAcceptedTravels'
  <2>1. Monitor' /\ UNCHANGED <<rpc, wire>>
      BY <1>3, <1>e DEF seckillVars, monitorVars
  <2>2. PICK w \in Workers :
          \/ \E m \in Messages : Deliver(w, m)
          \/ Work(w)
          \/ BeginFails(w) \/ InsertFails(w) \/ UpdateFails(w) \/ CommitFails(w)
          \/ LinkLost(w) \/ WorkerCrash(w) \/ WorkerRestart(w)
      BY <1>3 DEF ConsumerNext
  <2> USE DEF TypeOK, ConsumerTypeOK, OnlyAcceptedTravels, EventAt
  <2>3. ASSUME NEW m \in Messages, Deliver(w, m) PROVE OnlyAcceptedTravels'
    <3>1. rpc[Event(m)] = "accepted"
        BY <2>3 DEF Deliver, Within
    <3>2. Hands'
        BY <2>1, <2>3, <3>1 DEF Deliver, Step
    <3>3. Within(mainQ)'
        BY <2>1, <2>3 DEF Deliver, Take, Within, BrokerTypeOK
    <3> QED BY <1>d, <1>g, <2>1, <2>3, <3>2, <3>3 DEF Deliver
  <2>4. CASE Insert(w) \/ InsertDuplicate(w) \/ Update(w) \/ BeginFails(w)
               \/ InsertFails(w) \/ UpdateFails(w)
    <3>1. pc[w] # "idle" /\ UNCHANGED <<records, hand, mainQ, dlq>> /\
          (\A v \in Workers \ {w} : pc'[v] = pc[v])
        BY <2>4 DEF Insert, InsertDuplicate, Update, BeginFails, InsertFails, UpdateFails, Step, brokerVars
    <3>2. Hands'
        BY <2>1, <3>1
    <3> QED BY <1>d, <1>f, <1>g, <2>1, <3>1, <3>2
  <2>5. CASE Commit(w) \/ CommitFails(w)
    <3>1. pc[w] # "idle" /\ UNCHANGED <<hand, mainQ, dlq>> /\
          (\A v \in Workers \ {w} : pc'[v] = pc[v]) /\ records' \subseteq records \cup {EventAt(w)}
        BY <2>5 DEF Commit, CommitFails, Step, Apply, brokerVars
    <3>2. Hands' /\ Requests'
        BY <2>1, <3>1
    <3> QED BY <1>f, <1>g, <2>1, <3>1, <3>2
  <2>6. CASE Ack(w)
    <3>1. Hands'
        BY <2>1, <2>6 DEF Ack, Step
    <3> QED BY <1>d, <1>f, <1>g, <2>1, <2>6, <3>1 DEF Ack, brokerVars
  <2>7. CASE Nack(w)
    <3>1. Hands'
        BY <2>1, <2>7 DEF Nack, Step
    <3>2. dlq' = dlq \/ (hand[w] \in Messages /\ dlq' = Put(dlq, hand[w]) /\ rpc[EventAt(w)] = "accepted")
        BY <2>7 DEF Nack, Step
    <3>3. Within(dlq)'
        BY <2>1, <3>2 DEF Put, Within, BrokerTypeOK
    <3> QED BY <1>d, <1>f, <2>1, <2>7, <3>1, <3>3 DEF Nack
  <2>8. ASSUME RequeueHand(w) PROVE Within(mainQ)'
    <3>1. mainQ' = mainQ \/ (hand[w] \in Messages /\ mainQ' = Put(mainQ, hand[w]) /\ rpc[EventAt(w)] = "accepted")
        BY <2>8 DEF RequeueHand
    <3> QED BY <2>1, <3>1 DEF Put, Within, BrokerTypeOK
  <2>9. CASE LinkLost(w)
      BY <1>c, <1>d, <1>g, <2>1, <2>8, <2>9 DEF LinkLost
  <2>10. CASE WorkerCrash(w)
    <3>1. Hands'
        BY <2>1, <2>10 DEF WorkerCrash
    <3> QED BY <1>d, <1>g, <2>1, <2>8, <2>10, <3>1 DEF WorkerCrash
  <2>11. CASE WorkerRestart(w)
      BY <1>c, <1>d, <1>f, <1>g, <2>1, <2>11 DEF WorkerRestart, brokerVars
  <2> QED BY <2>2, <2>3, <2>4, <2>5, <2>6, <2>7, <2>9, <2>10, <2>11 DEF Work
<1>4. CASE ConnectionLost \/ ProcessCrash
    BY <1>4, <1>c, <1>d, <1>f, WithinRequeue
    DEF ConnectionLost, ProcessCrash, LoseWire, consumerVars, OnlyAcceptedTravels
<1>5. CASE ShutdownHook
    BY <1>5, <1>c, <1>d, <1>f, WithinRequeue DEF ShutdownHook, consumerVars, OnlyAcceptedTravels
<1>6. CASE ProcessRestart
    BY <1>6, <1>c, <1>d, <1>e, <1>f, <1>g DEF ProcessRestart, consumerVars, OnlyAcceptedTravels
<1>7. CASE UNCHANGED vars
    BY <1>7, <1>c, <1>d, <1>e, <1>f, <1>g
    DEF vars, brokerVars, seckillVars, monitorVars, consumerVars, OnlyAcceptedTravels
<1> QED BY <1>1, <1>2, <1>3, <1>4, <1>5, <1>6, <1>7 DEF Next

\* Whatever is queued, processed or recorded stems from a 202 answer.
THEOREM Travels == Spec => []OnlyAcceptedTravels
<1>1. Init => OnlyAcceptedTravels
    BY NoCopiesType
    DEF Init, BrokerInit, SeckillInit, MonitorInit, ConsumerInit, OnlyAcceptedTravels, Within
<1> QED BY <1>1, TravelStep, Typing, PTL DEF Spec

-----------------------------------------------------------------------------
(* Transactions on one event do not overlap, and a user is credited once. *)

\* The consumer steps keep transactions apart; crash and rollback only end them.
LEMMA TransactionStep ==
    ASSUME TypeOK, OneTransactionPerEvent, [Next]_vars
    PROVE  OneTransactionPerEvent'
<1> USE DEF OneTransactionPerEvent, InTx, EventAt
<1>1. CASE UNCHANGED <<pc, hand, records, swallowed>>
    BY <1>1
<1>2. ASSUME ConsumerNext PROVE OneTransactionPerEvent'
  <2> USE DEF TypeOK, ConsumerTypeOK, Step
  <2>1. PICK w \in Workers :
          \/ \E m \in Messages : Deliver(w, m)
          \/ Work(w)
          \/ BeginFails(w) \/ InsertFails(w) \/ UpdateFails(w) \/ CommitFails(w)
          \/ LinkLost(w) \/ WorkerCrash(w) \/ WorkerRestart(w)
      BY <1>2 DEF ConsumerNext
  <2>2. ASSUME NEW m \in Messages, Deliver(w, m) PROVE OneTransactionPerEvent'
      BY <2>2 DEF Deliver
  <2>3. CASE Insert(w)
      BY <2>3 DEF Insert, Locked
  <2>4. CASE InsertDuplicate(w)
      BY <2>4 DEF InsertDuplicate
  <2>5. CASE InsertFails(w)
      BY <2>5 DEF InsertFails
  <2>6. CASE Update(w) \/ BeginFails(w) \/ UpdateFails(w)
      BY <2>6 DEF Update, BeginFails, UpdateFails
  <2>7. CASE Commit(w)
      BY <2>7 DEF Commit, Apply
  <2>8. CASE CommitFails(w)
      BY <2>8 DEF CommitFails, Apply
  <2>9. CASE Ack(w) \/ Nack(w) \/ WorkerCrash(w)
      BY <2>9 DEF Ack, Nack, WorkerCrash
  <2>10. CASE LinkLost(w) \/ WorkerRestart(w)
      BY <2>10 DEF LinkLost, WorkerRestart
  <2> QED BY <2>1, <2>2, <2>3, <2>4, <2>5, <2>6, <2>7, <2>8, <2>9, <2>10 DEF Work
<1> QED BY <1>1, <1>2
        DEF Next, vars, consumerVars, ConnectionLost, ShutdownHook, ProcessCrash, ProcessRestart

\* No two open transactions on one event, none on a recorded one, and Ack only
\* of what is recorded or swallowed.
THEOREM Transactions == Spec => []OneTransactionPerEvent
<1>1. Init => OneTransactionPerEvent
    BY DEF Init, ConsumerInit, OneTransactionPerEvent, InTx
<1> QED BY <1>1, TransactionStep, Typing, PTL DEF Spec

\* A commit credits a winner who had nothing: the event of the transaction is
\* not recorded, no other winning request is of the same user, and records are
\* of winning requests.
LEMMA FreshCredit ==
    ASSUME TypeOK, WinsMatchStock, OnlyAcceptedTravels, OneTransactionPerEvent,
           NEW w \in Workers, pc[w] = "updated"
    PROVE  /\ EventAt(w) \in Reqs \ records
           /\ UserOf[EventAt(w)] \in winners
           /\ \A r \in records : UserOf[r] # UserOf[EventAt(w)]
<1>1. EventAt(w) \in Reqs \ records /\ rpc[EventAt(w)] = "accepted"
  <2>1. hand[w] \in Messages
      BY DEF TypeOK, ConsumerTypeOK
  <2>2. EventAt(w) \in Reqs
      BY <2>1, MessageType DEF EventAt
  <2> QED BY <2>2 DEF OneTransactionPerEvent, InTx, OnlyAcceptedTravels
<1>2. \A r \in records : r \in Reqs /\ rpc[r] = "accepted"
    BY DEF TypeOK, ConsumerTypeOK, OnlyAcceptedTravels
<1> QED BY <1>1, <1>2 DEF WinsMatchStock, Winning

\* Every step keeps quotas and event records in agreement.
LEMMA CreditStep ==
    ASSUME TypeOK, WinsMatchStock, OnlyAcceptedTravels, OneTransactionPerEvent,
           CreditMatchesRecords, [Next]_vars
    PROVE  CreditMatchesRecords'
<1>1. CASE UNCHANGED <<records, quota>>
    BY <1>1 DEF CreditMatchesRecords
<1>2. ASSUME NEW w \in Workers, pc[w] = "updated", Apply(w) PROVE CreditMatchesRecords'
  <2> DEFINE e == EventAt(w)
             u == UserOf[e]
  <2>1. e \in Reqs /\ u \in Users /\ \A r \in records : UserOf[r] # u
      BY <1>2, FreshCredit
  <2>2. records' = records \cup {e}
      BY <1>2 DEF Apply
  <2>3. quota' = IF u \in Rows THEN [quota EXCEPT ![u] = @ + 1] ELSE quota
      BY <1>2 DEF Apply
  <2> HIDE DEF e
  <2>4. ASSUME NEW x \in Users
        PROVE  quota'[x] = IF x \in Rows /\ \E r \in records' : UserOf[r] = x THEN 1 ELSE 0
    <3>1. CASE x = u
      <4>1. quota[x] = 0 /\ (\E r \in records' : UserOf[r] = x)
          BY <2>1, <2>2, <3>1 DEF CreditMatchesRecords
      <4> QED BY <2>3, <3>1, <4>1 DEF TypeOK, ConsumerTypeOK
    <3>2. CASE x # u
      <4>1. quota'[x] = quota[x]
          BY <2>3, <3>2 DEF TypeOK, ConsumerTypeOK
      <4>2. (\E r \in records' : UserOf[r] = x) <=> (\E r \in records : UserOf[r] = x)
          BY <2>2, <3>2
      <4> QED BY <4>1, <4>2 DEF CreditMatchesRecords
    <3> QED BY <3>1, <3>2
  <2> QED BY <2>4 DEF CreditMatchesRecords
<1>3. ASSUME ConsumerNext
      PROVE  \/ UNCHANGED <<records, quota>>
             \/ \E w \in Workers : pc[w] = "updated" /\ Apply(w)
    BY <1>3 DEF ConsumerNext, Work, Deliver, Insert, InsertDuplicate, Update, Commit, Ack, Nack,
        BeginFails, InsertFails, UpdateFails, CommitFails, LinkLost, WorkerCrash,
        WorkerRestart, Step
<1> QED BY <1>1, <1>2, <1>3
        DEF Next, vars, consumerVars, ConnectionLost, ShutdownHook, ProcessCrash, ProcessRestart

\* A user with a row holds one award if an event of his is recorded, else none.
THEOREM CreditedOnce == Spec => []CreditMatchesRecords
<1>1. Init => CreditMatchesRecords
    BY DEF Init, ConsumerInit, CreditMatchesRecords
<1> QED BY <1>1, CreditStep, Typing, NeverOversold, Travels, Transactions, PTL DEF Spec

\* CreditsWithinStock: whoever has a quota is a winner, because only an accepted
\* event is recorded and every accepted request has taken stock; so what MySQL
\* holds and what is left in Redis never exceed what there was.
THEOREM NeverOvercredited == Spec => []CreditsWithinStock
<1>1. ASSUME TypeOK, WinsMatchStock, OnlyAcceptedTravels, CreditMatchesRecords
      PROVE  CreditsWithinStock
  <2> DEFINE Credited == {u \in Users : quota[u] > 0}
  <2>1. ASSUME NEW u \in Credited PROVE u \in winners
    <3>1. PICK r \in records : UserOf[r] = u
      BY <1>1 DEF CreditMatchesRecords
    <3>2. r \in Reqs /\ rpc[r] = "accepted"
      BY <1>1 DEF TypeOK, ConsumerTypeOK, OnlyAcceptedTravels
    <3> QED BY <1>1, <3>1, <3>2 DEF WinsMatchStock, Winning
  <2>2. Credited \subseteq winners
    BY <2>1
  <2>3. IsFiniteSet(winners)
    <3>1. winners \in SUBSET Users /\ IsFiniteSet(Users)
      BY <1>1, UsersAssumption DEF TypeOK, SeckillTypeOK
    <3> QED BY ONLY <3>1, FS_Subset, Zenon
  <2> HIDE DEF Credited
  <2>4. Cardinality(Credited) <= Cardinality(winners)
    BY <2>2, <2>3, FS_Subset
  <2>5. Cardinality(Credited) \in Nat /\ Cardinality(winners) \in Nat /\ stock \in Int
    <3>1. IsFiniteSet(Credited)
      BY ONLY <2>2, <2>3, FS_Subset, Zenon
    <3> QED BY <1>1, <2>3, <3>1, FS_CardinalityType DEF TypeOK, SeckillTypeOK
  <2>6. stock + Cardinality(Credited) <= InitialStock
    BY <1>1, <2>4, <2>5 DEF WinsMatchStock
  <2> QED BY <2>6 DEF CreditsWithinStock, Credited
<1> QED BY <1>1, Typing, NeverOversold, Travels, CreditedOnce, PTL

-----------------------------------------------------------------------------
(* The pipeline implements the ledger. *)

\* A run of the script is a win of the ledger or no step of it.
LEMMA ScriptRefines ==
    ASSUME TypeOK, NEW r \in Reqs, ScriptEffect(UserOf[r]), UNCHANGED quota
    PROVE  [Ledger!Next]_(Ledger!vars)
<1>1. UserOf[r] \in Users
    OBVIOUS
<1>2. CASE ScriptResult(UserOf[r]) = "won"
  <2>1. UserOf[r] \notin winners /\ stock > 0
      BY <1>2 DEF ScriptResult, TypeOK, SeckillTypeOK
  <2>2. stock' = stock - 1 /\ winners' = winners \cup {UserOf[r]}
      BY <1>2 DEF ScriptEffect
  <2> QED BY <1>1, <2>1, <2>2 DEF Ledger!Next, Ledger!Win
<1>3. CASE ScriptResult(UserOf[r]) # "won"
    BY <1>3 DEF ScriptEffect, Ledger!vars
<1> QED BY <1>2, <1>3

\* Every behaviour of the pipeline is one of the ledger, total_quota read as
\* the ledger's balance.
THEOREM Refinement == Spec => LedgerSpec
<1>1. Init => Ledger!Init
    BY DEF Init, SeckillInit, ConsumerInit, Ledger!Init
<1>2. TypeOK /\ WinsMatchStock /\ OnlyAcceptedTravels /\ OneTransactionPerEvent
        /\ CreditMatchesRecords /\ [Next]_vars
      => [Ledger!Next]_(Ledger!vars)
  <2> SUFFICES ASSUME TypeOK, WinsMatchStock, OnlyAcceptedTravels, OneTransactionPerEvent,
                      CreditMatchesRecords, [Next]_vars
               PROVE  [Ledger!Next]_(Ledger!vars)
      OBVIOUS
  <2>1. CASE UNCHANGED <<stock, winners, quota>>
      BY <2>1 DEF Ledger!vars
  <2>2. ASSUME NEW r \in Reqs, Seckill(r) \/ EvalFails(r), UNCHANGED consumerVars
        PROVE  [Ledger!Next]_(Ledger!vars)
      BY <2>1, <2>2, ScriptRefines DEF Seckill, EvalFails, consumerVars
  <2>3. CASE SeckillNext /\ UNCHANGED <<monitorVars, consumerVars>>
    <3>1. \/ UNCHANGED <<stock, winners, quota>>
          \/ \E r \in Reqs : Seckill(r) \/ EvalFails(r)
        BY <2>3 DEF SeckillNext, GetChannel, GetChannelFails, Publish, PublishFails, Route,
            StopAccepting, Exit, consumerVars
    <3> QED BY <2>1, <2>2, <2>3, <3>1
  <2>4. ASSUME NEW w \in Workers, pc[w] = "updated", Apply(w), UNCHANGED seckillVars
        PROVE  [Ledger!Next]_(Ledger!vars)
    <3> DEFINE u == UserOf[EventAt(w)]
    <3>1. u \in Users /\ u \in winners /\ \A r \in records : UserOf[r] # u
        BY <2>4, FreshCredit
    <3>2. UNCHANGED <<stock, winners>>
        BY <2>4 DEF seckillVars
    <3>3. quota' = IF u \in Rows THEN [quota EXCEPT ![u] = @ + 1] ELSE quota
        BY <2>4 DEF Apply
    <3>4. quota[u] = 0
        BY <3>1 DEF CreditMatchesRecords
    <3>5. CASE u \in Rows
      <4>1. quota' = [quota EXCEPT ![u] = 1]
          BY <3>3, <3>4, <3>5
      <4> QED BY <3>1, <3>2, <3>4, <4>1 DEF Ledger!Next, Ledger!Credit
    <3> QED BY <2>1, <3>2, <3>3, <3>5
  <2>5. CASE ConsumerNext /\ UNCHANGED <<seckillVars, monitorVars>>
    <3>1. \/ UNCHANGED <<records, quota>>
          \/ \E w \in Workers : pc[w] = "updated" /\ Apply(w)
        BY <2>5 DEF ConsumerNext, Work, Deliver, Insert, InsertDuplicate, Update, Commit, Ack,
            Nack, BeginFails, InsertFails, UpdateFails, CommitFails, LinkLost, WorkerCrash,
            WorkerRestart, Step
    <3> QED BY <2>1, <2>4, <2>5, <3>1 DEF seckillVars
  <2> QED BY <2>1, <2>3, <2>5
          DEF Next, vars, seckillVars, consumerVars, ConnectionLost, ShutdownHook, ProcessCrash,
              ProcessRestart
<1> QED BY <1>1, <1>2, Typing, NeverOversold, Travels, Transactions, CreditedOnce, PTL
        DEF Spec, LedgerSpec, Ledger!Spec

-----------------------------------------------------------------------------
(* No event vanishes. *)

\* The ways an event leaves the system, and a worker that owns a delivery of it.
Gone(e)    == e \in records \/ e \in dropped \/ e \in swallowed \/ e \in logged
Carried(e) == \E w \in Workers : pc[w] # "idle" /\ link[w] = "up" /\ EventAt(w) = e

\* Where an event is, the originals of routed republishes not counted: their
\* copies are in the main queue before they are acknowledged.
Placed(e) ==
    \/ e \in wire
    \/ Holds(mainQ, e) \/ Holds(dlq, e) \/ Holds(backoff, e) \/ Holds(sent, e)
    \/ Carried(e)

\* NothingVanishes without what the next acknowledgement removes.
Accounted == \A e \in Reqs : rpc[e] = "accepted" => Placed(e) \/ Gone(e)

\* A bag that loses no copy holds what it held.
LEMMA HoldsMore ==
    ASSUME NEW p \in [Messages -> Nat], NEW q \in [Messages -> Nat], NEW e,
           \A m \in Messages : q[m] <= p[m], Holds(q, e)
    PROVE  Holds(p, e)
BY DEF Holds

\* A bag holds the event that was put into it, and what it held.
LEMMA HoldsPut ==
    ASSUME NEW q \in [Messages -> Nat], NEW m \in Messages, NEW e,
           Holds(q, e) \/ Event(m) = e
    PROVE  Holds(Put(q, m), e)
BY PutType DEF Holds

\* Taking a message away takes no other event away.
LEMMA HoldsTake ==
    ASSUME NEW q \in [Messages -> Nat], NEW m \in Messages, NEW e,
           q[m] > 0, Holds(q, e), Event(m) # e
    PROVE  Holds(Take(q, m), e)
BY TakeType DEF Holds

\* An event that has left stays away: nothing is unrecorded or unlogged.
LEMMA GoneStays ==
    ASSUME [Next]_vars, NEW e, Gone(e)
    PROVE  Gone(e)'
<1> USE DEF Gone
<1>1. CASE SeckillNext /\ UNCHANGED <<monitorVars, consumerVars>>
  <2>1. UNCHANGED dropped
      BY <1>1 DEF SeckillNext, Seckill, EvalFails, GetChannel, GetChannelFails, Publish,
                  PublishFails, Route, StopAccepting, Exit
  <2> QED BY <1>1, <2>1 DEF monitorVars, consumerVars
<1>2. CASE MonitorNext /\ UNCHANGED <<seckillVars, consumerVars>>
  <2>1. logged \subseteq logged'
      BY <1>2 DEF MonitorNext, DeadLetter, GiveUp, Republish, RepublishFails, RouteRetry, AckRetry
  <2> QED BY <1>2, <2>1 DEF seckillVars, consumerVars
<1>3. CASE ConsumerNext /\ UNCHANGED <<seckillVars, monitorVars>>
  <2>1. records \subseteq records' /\ swallowed \subseteq swallowed'
    <3>1. ASSUME NEW w \in Workers,
                 (\E m \in Messages : Deliver(w, m)) \/ Insert(w) \/ InsertDuplicate(w)
                 \/ Update(w) \/ Ack(w) \/ Nack(w) \/ BeginFails(w) \/ UpdateFails(w)
                 \/ LinkLost(w) \/ WorkerCrash(w) \/ WorkerRestart(w)
          PROVE  UNCHANGED <<records, swallowed>>
        BY <3>1 DEF Deliver, Insert, InsertDuplicate, Update, Ack, Nack, BeginFails,
                    UpdateFails, LinkLost, WorkerCrash, WorkerRestart
    <3>2. ASSUME NEW w \in Workers, Commit(w) \/ CommitFails(w) \/ InsertFails(w)
          PROVE  records \subseteq records' /\ swallowed \subseteq swallowed'
        BY <3>2 DEF Commit, CommitFails, InsertFails, Apply
    <3> QED BY <1>3, <3>1, <3>2 DEF ConsumerNext, Work
  <2> QED BY <1>3, <2>1 DEF seckillVars, monitorVars
<1>4. CASE ConnectionLost
    BY <1>4 DEF ConnectionLost, LoseWire, consumerVars
<1>5. CASE ShutdownHook
    BY <1>5 DEF ShutdownHook, consumerVars
<1>6. CASE ProcessCrash
    BY <1>6 DEF ProcessCrash, LoseWire, consumerVars
<1>7. CASE ProcessRestart
    BY <1>7 DEF ProcessRestart, consumerVars
<1>8. CASE UNCHANGED vars
    BY <1>8 DEF vars, seckillVars, monitorVars, consumerVars
<1> QED BY <1>1, <1>2, <1>3, <1>4, <1>5, <1>6, <1>7, <1>8 DEF Next

\* An answer becomes "accepted" when the publish has been written.
LEMMA NewlyAccepted ==
    ASSUME TypeOK, [Next]_vars, NEW e \in Reqs, rpc'[e] = "accepted"
    PROVE  rpc[e] = "accepted" \/ e \in wire'
<1> USE DEF TypeOK, SeckillTypeOK, Answer
<1>1. ASSUME NEW r \in Reqs, Seckill(r) \/ EvalFails(r) PROVE rpc[e] = "accepted"
    BY <1>1 DEF Seckill, EvalFails, ScriptResult
<1>2. ASSUME NEW r \in Reqs, GetChannel(r) \/ GetChannelFails(r) \/ PublishFails(r) \/ Route(r)
      PROVE  rpc[e] = "accepted"
    BY <1>2 DEF GetChannel, GetChannelFails, PublishFails, Route
<1>3. ASSUME NEW r \in Reqs, Publish(r) PROVE rpc[e] = "accepted" \/ e \in wire'
    BY <1>3 DEF Publish
<1>4. CASE StopAccepting \/ Exit
    BY <1>4 DEF StopAccepting, Exit
<1>5. CASE UNCHANGED seckillVars
    BY <1>5 DEF seckillVars
<1>6. CASE ConnectionLost \/ ShutdownHook \/ ProcessRestart
    BY <1>6 DEF ConnectionLost, ShutdownHook, ProcessRestart
<1>7. CASE ProcessCrash
    BY <1>7 DEF ProcessCrash, Kill
<1> QED BY <1>1, <1>2, <1>3, <1>4, <1>5, <1>6, <1>7 DEF Next, SeckillNext, vars

\* What the monitor holds goes back to the dead-letter queue.
LEMMA PlacedRequeue ==
    ASSUME TypeOK, TypeOK', RequeueUnacked, NEW e,
           Holds(dlq, e) \/ Holds(backoff, e) \/ Holds(sent, e)
    PROVE  Holds(dlq, e)'
<1>1. /\ dlq \in [Messages -> Nat] /\ backoff \in [Messages -> Nat]
      /\ sent \in [Messages -> Nat] /\ routed \in [Messages -> Nat]
      /\ dlq' \in [Messages -> Nat]
    BY DEF TypeOK, BrokerTypeOK, MonitorTypeOK
<1>2. \A m \in Messages : dlq'[m] = dlq[m] + (backoff[m] + (sent[m] + routed[m]))
    BY RequeueTyping
<1>3. \A m \in Messages : dlq[m] <= dlq'[m] /\ backoff[m] <= dlq'[m] /\ sent[m] <= dlq'[m]
    BY <1>1, <1>2
<1> QED BY <1>1, <1>3, HoldsMore

\* A step of the seckill service moves an event at most from the wire to the
\* main queue.
LEMMA PlacedSeckill ==
    ASSUME TypeOK, SeckillNext, UNCHANGED <<monitorVars, consumerVars>>,
           NEW e \in Reqs, Placed(e)
    PROVE  Placed(e)'
<1> USE DEF Placed
<1>1. UNCHANGED <<backoff, sent>> /\ (Carried(e) => Carried(e)')
    BY DEF monitorVars, consumerVars, Carried, EventAt
<1>2. ASSUME NEW r \in Reqs, Route(r) PROVE Placed(e)'
  <2>1. mainQ \in [Messages -> Nat] /\ <<r, 0>> \in Messages /\ Event(<<r, 0>>) = r
      BY FirstMessage DEF TypeOK, BrokerTypeOK
  <2>2. UNCHANGED dlq /\ mainQ' = Put(mainQ, <<r, 0>>) /\ wire' = wire \ {r}
      BY <1>2 DEF Route
  <2>3. Holds(mainQ, e) \/ r = e => Holds(mainQ', e)
      BY <2>1, <2>2, HoldsPut
  <2> QED BY <1>1, <2>2, <2>3
<1>3. ASSUME wire \subseteq wire', UNCHANGED brokerVars \/ UNCHANGED <<mainQ, dlq>>
      PROVE  Placed(e)'
    BY <1>1, <1>3 DEF brokerVars
<1>4. ASSUME NEW r \in Reqs,
             Seckill(r) \/ EvalFails(r) \/ GetChannel(r) \/ GetChannelFails(r)
             \/ Publish(r) \/ PublishFails(r)
      PROVE  Placed(e)'
  <2>1. wire \subseteq wire' /\ UNCHANGED <<mainQ, dlq>>
      BY <1>4 DEF Seckill, EvalFails, GetChannel, GetChannelFails, Publish, PublishFails, brokerVars
  <2> QED BY <1>3, <2>1
<1>5. CASE StopAccepting \/ Exit
    BY <1>3, <1>5 DEF StopAccepting, Exit
<1> QED BY <1>2, <1>4, <1>5 DEF SeckillNext

\* A step of the monitor moves an event between its queue, its goroutines and
\* the main queue, or logs it.
LEMMA PlacedMonitor ==
    ASSUME TypeOK, MonitorNext, UNCHANGED <<seckillVars, consumerVars>>,
           NEW e \in Reqs, Placed(e)
    PROVE  Placed(e)' \/ Gone(e)'
<1> USE DEF Placed
<1>1. UNCHANGED wire /\ (Carried(e) => Carried(e)')
    BY DEF seckillVars, consumerVars, Carried, EventAt
<1>2. /\ mainQ \in [Messages -> Nat] /\ dlq \in [Messages -> Nat]
      /\ backoff \in [Messages -> Nat] /\ sent \in [Messages -> Nat]
    BY DEF TypeOK, BrokerTypeOK, MonitorTypeOK
<1>3. PICK m \in Messages :
        \/ DeadLetter(m) \/ GiveUp(m) \/ Republish(m)
        \/ RepublishFails(m) \/ RouteRetry(m) \/ AckRetry(m)
    BY DEF MonitorNext
<1>4. CASE DeadLetter(m)
  <2>1. Holds(dlq, e) => Holds(dlq', e) \/ Holds(backoff', e)
      BY <1>2, <1>4, HoldsTake, HoldsPut DEF DeadLetter
  <2>2. Holds(backoff, e) => Holds(backoff', e)
      BY <1>2, <1>4, HoldsPut DEF DeadLetter
  <2> QED BY <1>1, <1>4, <2>1, <2>2 DEF DeadLetter
<1>5. CASE GiveUp(m)
  <2>1. Holds(dlq, e) => Holds(dlq', e) \/ Gone(e)'
      BY <1>2, <1>5, HoldsTake DEF GiveUp, Gone
  <2> QED BY <1>1, <1>5, <2>1 DEF GiveUp
<1>6. CASE Republish(m)
  <2>1. Holds(backoff, e) => Holds(backoff', e) \/ Holds(sent', e)
      BY <1>2, <1>6, HoldsTake, HoldsPut DEF Republish
  <2>2. Holds(sent, e) => Holds(sent', e)
      BY <1>2, <1>6, HoldsPut DEF Republish
  <2> QED BY <1>1, <1>6, <2>1, <2>2 DEF Republish, brokerVars
<1>7. CASE RepublishFails(m)
  <2>1. Holds(backoff, e) => Holds(backoff', e) \/ Holds(dlq', e)
      BY <1>2, <1>7, HoldsTake, HoldsPut DEF RepublishFails
  <2>2. Holds(dlq, e) => Holds(dlq', e)
      BY <1>2, <1>7, HoldsPut DEF RepublishFails
  <2> QED BY <1>1, <1>7, <2>1, <2>2 DEF RepublishFails
<1>8. CASE RouteRetry(m)
  <2> DEFINE n == <<Event(m), RetryCount(m) + 1>>
  <2>1. n \in Messages /\ Event(n) = Event(m)
    <3>1. RetryCount(m) # MaxRetries
        BY <1>8 DEF RouteRetry, TypeOK, MonitorTypeOK
    <3>2. RetryCount(m) \in 0 .. MaxRetries
        BY MessageType
    <3>3. RetryCount(m) < MaxRetries
        BY <3>1, <3>2
    <3> QED BY <3>3, MessageType
  <2>2. mainQ' = Put(mainQ, n) /\ sent' = Take(sent, m) /\ sent[m] > 0 /\ UNCHANGED <<dlq, backoff>>
      BY <1>8 DEF RouteRetry
  <2> HIDE DEF n
  <2>3. Holds(mainQ, e) \/ Event(m) = e => Holds(mainQ', e)
      BY <1>2, <2>1, <2>2, HoldsPut
  <2>4. Holds(sent, e) => Holds(sent', e) \/ Holds(mainQ', e)
      BY <1>2, <2>2, <2>3, HoldsTake
  <2> QED BY <1>1, <2>2, <2>3, <2>4
<1>9. CASE AckRetry(m)
    BY <1>1, <1>9 DEF AckRetry, brokerVars
<1> QED BY <1>3, <1>4, <1>5, <1>6, <1>7, <1>8, <1>9

\* A step of a worker moves an event between the main queue, its hand and the
\* dead-letter queue, or acknowledges one that is recorded or swallowed.
LEMMA PlacedConsumer ==
    ASSUME TypeOK, OneTransactionPerEvent, ConsumerNext, UNCHANGED <<seckillVars, monitorVars>>,
           NEW e \in Reqs, Placed(e)
    PROVE  Placed(e)' \/ Gone(e)'
<1> USE DEF Placed
<1>1. UNCHANGED <<wire, backoff, sent>>
    BY DEF seckillVars, monitorVars
<1>2. mainQ \in [Messages -> Nat] /\ dlq \in [Messages -> Nat]
    BY DEF TypeOK, BrokerTypeOK
<1>3. PICK w \in Workers :
        \/ \E m \in Messages : Deliver(w, m)
        \/ Work(w)
        \/ BeginFails(w) \/ InsertFails(w) \/ UpdateFails(w) \/ CommitFails(w)
        \/ LinkLost(w) \/ WorkerCrash(w) \/ WorkerRestart(w)
    BY DEF ConsumerNext
<1> DEFINE Mine   == pc[w] # "idle" /\ link[w] = "up" /\ EventAt(w) = e
           Others == \E v \in Workers \ {w} : pc[v] # "idle" /\ link[v] = "up" /\ EventAt(v) = e
<1>4. Carried(e) => Mine \/ Others
    BY DEF Carried
<1>5. pc \in [Workers -> PCs] /\ link \in [Workers -> {"up", "lost", "down"}]
      /\ hand \in [Workers -> Messages \cup {NoMsg}] /\ (pc[w] # "idle" => hand[w] \in Messages)
    BY DEF TypeOK, ConsumerTypeOK
<1>6. ASSUME \A v \in Workers \ {w} : pc'[v] = pc[v] /\ link'[v] = link[v] /\ hand'[v] = hand[v]
      PROVE  Others => Carried(e)'
    BY <1>6 DEF Carried, EventAt
<1>7. ASSUME NEW m \in Messages, Deliver(w, m) PROVE Placed(e)'
  <2>1. Others => Carried(e)'
      BY <1>5, <1>6, <1>7 DEF Deliver, Step
  <2>2. Event(m) = e => Carried(e)'
      BY <1>5, <1>7 DEF Deliver, Step, Carried, EventAt
  <2>3. Holds(mainQ, e) => Holds(mainQ', e) \/ Carried(e)'
      BY <1>2, <1>7, <2>2, HoldsTake DEF Deliver
  <2>4. ~Mine
      BY <1>7 DEF Deliver, Step
  <2> QED BY <1>1, <1>4, <1>7, <2>1, <2>3, <2>4 DEF Deliver
<1>8. CASE \/ Insert(w) \/ InsertDuplicate(w) \/ Update(w) \/ Commit(w)
           \/ BeginFails(w) \/ InsertFails(w) \/ UpdateFails(w) \/ CommitFails(w)
  <2>1. /\ UNCHANGED <<mainQ, dlq, link, hand>>
        /\ \E s \in PCs \ {"idle"} : pc' = [pc EXCEPT ![w] = s]
      BY <1>8 DEF Insert, InsertDuplicate, Update, Commit, BeginFails, InsertFails, UpdateFails,
                  CommitFails, Step, PCs, brokerVars
  <2>2. Others => Carried(e)'
      BY <1>5, <1>6, <2>1
  <2>3. Mine => Carried(e)'
      BY <1>5, <2>1 DEF Carried, EventAt
  <2> QED BY <1>1, <1>4, <2>1, <2>2, <2>3
<1>9. CASE Ack(w)
  <2>1. Others => Carried(e)'
      BY <1>5, <1>6, <1>9 DEF Ack, Step
  <2>2. Mine => Gone(e)'
      BY <1>9 DEF Ack, Step, Gone, OneTransactionPerEvent
  <2> QED BY <1>1, <1>4, <1>9, <2>1, <2>2 DEF Ack, brokerVars
<1>10. CASE Nack(w)
  <2>1. Others => Carried(e)'
      BY <1>5, <1>6, <1>10 DEF Nack, Step
  <2>2. hand[w] \in Messages /\ UNCHANGED mainQ
        /\ dlq' = (IF link[w] = "up" THEN Put(dlq, hand[w]) ELSE dlq)
      BY <1>5, <1>10 DEF Nack, Step
  <2>3. Holds(dlq, e) \/ Mine => Holds(dlq', e)
      BY <1>2, <2>2, HoldsPut DEF EventAt
  <2> QED BY <1>1, <1>4, <2>1, <2>2, <2>3
<1>11. ASSUME RequeueHand(w) PROVE Holds(mainQ, e) \/ Mine => Holds(mainQ', e)
    BY <1>2, <1>5, <1>11, HoldsPut DEF RequeueHand, EventAt
<1>12. CASE LinkLost(w)
  <2>1. Others => Carried(e)'
      BY <1>5, <1>6, <1>12 DEF LinkLost
  <2> QED BY <1>1, <1>4, <1>11, <1>12, <2>1 DEF LinkLost
<1>13. CASE WorkerCrash(w)
  <2>1. Others => Carried(e)'
      BY <1>5, <1>6, <1>13 DEF WorkerCrash
  <2> QED BY <1>1, <1>4, <1>11, <1>13, <2>1 DEF WorkerCrash
<1>14. CASE WorkerRestart(w)
  <2>1. Others => Carried(e)'
      BY <1>5, <1>6, <1>14 DEF WorkerRestart
  <2>2. ~Mine
      BY <1>14 DEF WorkerRestart
  <2> QED BY <1>1, <1>4, <1>14, <2>1, <2>2 DEF WorkerRestart, brokerVars
<1> QED BY <1>3, <1>7, <1>8, <1>9, <1>10, <1>12, <1>13, <1>14 DEF Work

\* Whatever happens, an accepted event is owed to somebody, or credited, or
\* lost in one of the ways the code has: requeueing, republish before Ack and
\* Ack after Commit leave no gap between two owners.
THEOREM NothingVanishesAlways == Spec => []NothingVanishes
<1>1. Init => Accounted
    BY DEF Init, SeckillInit, Accounted
<1>2. TypeOK /\ TypeOK' /\ OneTransactionPerEvent /\ Accounted /\ [Next]_vars => Accounted'
  <2> SUFFICES ASSUME TypeOK, TypeOK', OneTransactionPerEvent, Accounted, [Next]_vars,
                      NEW e \in Reqs, rpc'[e] = "accepted"
               PROVE  Placed(e)' \/ Gone(e)'
      BY DEF Accounted
  <2>1. CASE e \in wire'
      BY <2>1 DEF Placed
  <2>2. CASE Gone(e)
      BY <2>2, GoneStays
  <2>3. CASE Placed(e)
    <3>1. CASE SeckillNext /\ UNCHANGED <<monitorVars, consumerVars>>
        BY <2>3, <3>1, PlacedSeckill
    <3>2. CASE MonitorNext /\ UNCHANGED <<seckillVars, consumerVars>>
        BY <2>3, <3>2, PlacedMonitor
    <3>3. CASE ConsumerNext /\ UNCHANGED <<seckillVars, monitorVars>>
        BY <2>3, <3>3, PlacedConsumer
    <3>4. UNCHANGED consumerVars => (Carried(e) => Carried(e)')
        BY DEF consumerVars, Carried, EventAt
    <3>5. CASE ConnectionLost \/ ProcessCrash
      <4>1. /\ UNCHANGED mainQ /\ UNCHANGED consumerVars
            /\ RequeueUnacked /\ LoseWire
          BY <3>5 DEF ConnectionLost, ProcessCrash
      <4>2. e \in wire => Gone(e)'
          BY <4>1 DEF LoseWire, Gone
      <4> QED BY <2>3, <3>4, <4>1, <4>2, PlacedRequeue DEF Placed
    <3>6. CASE ShutdownHook
        BY <2>3, <3>4, <3>6, PlacedRequeue DEF ShutdownHook, Placed
    <3>7. CASE ProcessRestart
        BY <2>3, <3>4, <3>7 DEF ProcessRestart, Placed
    <3>8. CASE UNCHANGED vars
        BY <2>3, <3>4, <3>8 DEF vars, Placed, brokerVars, seckillVars, monitorVars
    <3> QED BY <3>1, <3>2, <3>3, <3>5, <3>6, <3>7, <3>8 DEF Next
  <2> QED BY <2>1, <2>2, <2>3, NewlyAccepted DEF Accounted
<1>3. Accounted => NothingVanishes
    BY DEF Accounted, NothingVanishes, Placed, Owed, Carried, Gone
<1> QED BY <1>1, <1>2, <1>3, Typing, Transactions, PTL DEF Spec

-----------------------------------------------------------------------------
(* The monitor gives up only after all retries. *)

\* The header of a copy counts no more failures than its event had; one that
\* has been dead-lettered, and not yet republished, counts one less.
HeaderBound(q, n) == \A m \in Messages : q[m] > 0 => RetryCount(m) + n <= nacks[Event(m)]
HeadersTrue ==
    /\ HeaderBound(mainQ, 0)
    /\ HeaderBound(dlq, 1) /\ HeaderBound(backoff, 1) /\ HeaderBound(sent, 1) /\ HeaderBound(routed, 1)
    /\ \A w \in Workers : pc[w] # "idle" => RetryCount(hand[w]) <= nacks[EventAt(w)]

RetriesInv == HeadersTrue /\ GivenUpAfterAllRetries

\* Headers are numbers.
LEMMA HeaderType == \A m \in Messages : Event(m) \in Reqs /\ RetryCount(m) \in Nat
BY DEF Messages, Event, RetryCount

\* The steps of the seckill service: a first copy counts none.
LEMMA SeckillRetries ==
    ASSUME TypeOK, RetriesInv, SeckillNext, UNCHANGED <<monitorVars, consumerVars>>
    PROVE  RetriesInv'
<1> USE DEF RetriesInv, HeadersTrue, GivenUpAfterAllRetries, monitorVars, consumerVars, brokerVars, EventAt
<1>1. ASSUME NEW r \in Reqs, Route(r) PROVE HeaderBound(mainQ, 0)'
  <2> DEFINE n == <<r, 0>>
  <2>1. n \in Messages /\ Event(n) = r /\ RetryCount(n) = 0
      BY FirstMessage DEF RetryCount
  <2>2. mainQ' = Put(mainQ, n) /\ mainQ \in [Messages -> Nat]
      BY <1>1 DEF Route, TypeOK, BrokerTypeOK
  <2> HIDE DEF n
  <2>3. \A m \in Messages : mainQ'[m] > 0 => mainQ[m] > 0 \/ m = n
      BY <2>2, <2>1, PutType
  <2>4. nacks[r] \in Nat
      BY DEF TypeOK, ConsumerTypeOK
  <2> QED BY <2>1, <2>3, <2>4 DEF HeaderBound
<1>2. ASSUME NEW r \in Reqs, Route(r) PROVE RetriesInv'
    BY <1>1, <1>2 DEF Route, HeaderBound
<1>3. ASSUME UNCHANGED <<mainQ, dlq>> PROVE RetriesInv'
    BY <1>3 DEF HeaderBound
<1>4. ASSUME NEW r \in Reqs,
             Seckill(r) \/ EvalFails(r) \/ GetChannel(r) \/ GetChannelFails(r)
             \/ Publish(r) \/ PublishFails(r)
      PROVE  RetriesInv'
  <2>1. UNCHANGED <<mainQ, dlq>>
      BY <1>4 DEF Seckill, EvalFails, GetChannel, GetChannelFails, Publish, PublishFails
  <2> QED BY <1>3, <2>1
<1>5. CASE StopAccepting \/ Exit
    BY <1>3, <1>5 DEF StopAccepting, Exit
<1> QED BY <1>2, <1>4, <1>5 DEF SeckillNext

\* The steps of the monitor: it counts the failure when it republishes, and
\* gives up on a copy that has counted them all.
LEMMA MonitorRetries ==
    ASSUME TypeOK, RetriesInv, MonitorNext, UNCHANGED <<seckillVars, consumerVars>>
    PROVE  RetriesInv'
<1> USE DEF RetriesInv, HeadersTrue, consumerVars, brokerVars, EventAt
<1>1. PICK m \in Messages :
        \/ DeadLetter(m) \/ GiveUp(m) \/ Republish(m)
        \/ RepublishFails(m) \/ RouteRetry(m) \/ AckRetry(m)
    BY DEF MonitorNext
<1>2. /\ mainQ \in [Messages -> Nat] /\ dlq \in [Messages -> Nat] /\ backoff \in [Messages -> Nat]
      /\ sent \in [Messages -> Nat] /\ routed \in [Messages -> Nat]
    BY DEF TypeOK, BrokerTypeOK, MonitorTypeOK
<1>3. UNCHANGED <<nacks, pc, hand>>
    OBVIOUS
<1>4. RetryCount(m) \in Nat /\ nacks[Event(m)] \in Nat
    BY HeaderType DEF TypeOK, ConsumerTypeOK
<1>5. ASSUME NEW q \in [Messages -> Nat], NEW n \in Nat, HeaderBound(q, n), q[m] > 0
      PROVE  \A k \in Messages : Take(q, m)[k] > 0 => RetryCount(k) + n <= nacks[Event(k)]
    BY <1>5, TakeType DEF HeaderBound
<1>6. ASSUME NEW q \in [Messages -> Nat], NEW n \in Nat, HeaderBound(q, n),
             RetryCount(m) + n <= nacks[Event(m)]
      PROVE  \A k \in Messages : Put(q, m)[k] > 0 => RetryCount(k) + n <= nacks[Event(k)]
    BY <1>6, PutType DEF HeaderBound
<1>7. CASE DeadLetter(m)
  <2>1. RetryCount(m) + 1 <= nacks[Event(m)]
      BY <1>7 DEF DeadLetter, HeaderBound
  <2>2. HeaderBound(dlq, 1)' /\ HeaderBound(backoff, 1)'
      BY <1>2, <1>3, <1>5, <1>6, <1>7, <2>1 DEF DeadLetter, HeaderBound
  <2> QED BY <1>3, <1>7, <2>2 DEF DeadLetter, HeaderBound, GivenUpAfterAllRetries
<1>8. CASE GiveUp(m)
  <2>1. RetryCount(m) + 1 <= nacks[Event(m)] /\ RetryCount(m) >= MaxRetries
      BY <1>8 DEF GiveUp, HeaderBound
  <2>2. nacks[Event(m)] > MaxRetries
      BY <1>4, <2>1
  <2>3. HeaderBound(dlq, 1)'
      BY <1>2, <1>3, <1>5, <1>8 DEF GiveUp, HeaderBound
  <2> QED BY <1>3, <1>8, <2>2, <2>3 DEF GiveUp, HeaderBound, GivenUpAfterAllRetries
<1>9. CASE Republish(m)
  <2>1. RetryCount(m) + 1 <= nacks[Event(m)]
      BY <1>9 DEF Republish, HeaderBound
  <2>2. HeaderBound(backoff, 1)' /\ HeaderBound(sent, 1)'
      BY <1>2, <1>3, <1>5, <1>6, <1>9, <2>1 DEF Republish, HeaderBound
  <2> QED BY <1>3, <1>9, <2>2 DEF Republish, HeaderBound, GivenUpAfterAllRetries
<1>10. CASE RepublishFails(m)
  <2>1. RetryCount(m) + 1 <= nacks[Event(m)]
      BY <1>10 DEF RepublishFails, HeaderBound
  <2>2. HeaderBound(backoff, 1)' /\ HeaderBound(dlq, 1)'
      BY <1>2, <1>3, <1>5, <1>6, <1>10, <2>1 DEF RepublishFails, HeaderBound
  <2> QED BY <1>3, <1>10, <2>2 DEF RepublishFails, HeaderBound, GivenUpAfterAllRetries
<1>11. CASE RouteRetry(m)
  <2> DEFINE n == <<Event(m), RetryCount(m) + 1>>
  <2>1. n \in Messages /\ Event(n) = Event(m) /\ RetryCount(n) = RetryCount(m) + 1
    <3>1. RetryCount(m) # MaxRetries
        BY <1>11 DEF RouteRetry, TypeOK, MonitorTypeOK
    <3>2. RetryCount(m) \in 0 .. MaxRetries
        BY MessageType
    <3>3. RetryCount(m) < MaxRetries
        BY <3>1, <3>2
    <3> QED BY <3>3, MessageType DEF RetryCount
  <2>2. mainQ' = Put(mainQ, n) /\ sent' = Take(sent, m) /\ routed' = Put(routed, m) /\ sent[m] > 0
        /\ UNCHANGED <<dlq, backoff, logged>>
      BY <1>11 DEF RouteRetry
  <2> HIDE DEF n
  <2>3. RetryCount(m) + 1 <= nacks[Event(m)]
      BY <2>2 DEF HeaderBound
  <2>4. HeaderBound(sent, 1)' /\ HeaderBound(routed, 1)'
      BY <1>2, <1>3, <1>5, <1>6, <2>2, <2>3 DEF HeaderBound
  <2>5. \A k \in Messages : mainQ'[k] > 0 => mainQ[k] > 0 \/ k = n
      BY <1>2, <2>1, <2>2, PutType
  <2>6. HeaderBound(mainQ, 0)'
      BY <1>3, <1>4, <2>1, <2>3, <2>5 DEF HeaderBound
  <2> QED BY <1>3, <2>2, <2>4, <2>6 DEF HeaderBound, GivenUpAfterAllRetries
<1>12. CASE AckRetry(m)
  <2>1. HeaderBound(routed, 1)'
      BY <1>2, <1>3, <1>5, <1>12 DEF AckRetry, HeaderBound
  <2> QED BY <1>3, <1>12, <2>1 DEF AckRetry, HeaderBound, GivenUpAfterAllRetries
<1> QED BY <1>1, <1>7, <1>8, <1>9, <1>10, <1>11, <1>12

\* The steps of the workers: a dead-lettered delivery is one more failure.
LEMMA ConsumerRetries ==
    ASSUME TypeOK, RetriesInv, ConsumerNext, UNCHANGED <<seckillVars, monitorVars>>
    PROVE  RetriesInv'
<1> USE DEF RetriesInv, HeadersTrue, monitorVars, brokerVars
<1>1. PICK w \in Workers :
        \/ \E m \in Messages : Deliver(w, m)
        \/ Work(w)
        \/ BeginFails(w) \/ InsertFails(w) \/ UpdateFails(w) \/ CommitFails(w)
        \/ LinkLost(w) \/ WorkerCrash(w) \/ WorkerRestart(w)
    BY DEF ConsumerNext
<1>2. /\ mainQ \in [Messages -> Nat] /\ dlq \in [Messages -> Nat]
      /\ pc \in [Workers -> PCs] /\ hand \in [Workers -> Messages \cup {NoMsg}]
      /\ \A v \in Workers : pc[v] # "idle" => hand[v] \in Messages
      /\ nacks \in [Reqs -> Nat] /\ logged \subseteq Reqs
    BY DEF TypeOK, BrokerTypeOK, MonitorTypeOK, ConsumerTypeOK
<1>3. UNCHANGED <<backoff, sent, routed, logged>>
    OBVIOUS
<1>4. \A m \in Messages : Event(m) \in Reqs /\ RetryCount(m) \in Nat
    BY HeaderType
<1> DEFINE Hands == \A v \in Workers : pc[v] # "idle" => RetryCount(hand[v]) <= nacks[EventAt(v)]
<1>5. ASSUME UNCHANGED nacks, HeaderBound(mainQ, 0)', HeaderBound(dlq, 1)', Hands' PROVE RetriesInv'
    BY <1>3, <1>5 DEF HeaderBound, GivenUpAfterAllRetries
<1>6. UNCHANGED <<mainQ, nacks>> => HeaderBound(mainQ, 0)'
    BY DEF HeaderBound
<1>7. UNCHANGED <<dlq, nacks>> => HeaderBound(dlq, 1)'
    BY DEF HeaderBound
<1>8. ASSUME UNCHANGED nacks, \A v \in Workers \ {w} : pc'[v] = pc[v] /\ hand'[v] = hand[v],
             pc'[w] = "idle" \/ RetryCount(hand'[w]) <= nacks[Event(hand'[w])]
      PROVE  Hands'
    BY <1>8 DEF EventAt
<1>9. ASSUME NEW m \in Messages, Deliver(w, m) PROVE RetriesInv'
  <2>1. RetryCount(m) <= nacks[Event(m)]
      BY <1>2, <1>4, <1>9 DEF Deliver, HeaderBound
  <2>2. Hands'
      BY <1>2, <1>8, <1>9, <2>1 DEF Deliver, Step
  <2>3. \A k \in Messages : mainQ'[k] > 0 => mainQ[k] > 0
      BY <1>2, <1>9, TakeType DEF Deliver
  <2>4. HeaderBound(mainQ, 0)' /\ UNCHANGED <<dlq, nacks>>
      BY <1>9, <2>3 DEF Deliver, HeaderBound
  <2> QED BY <1>5, <1>7, <2>2, <2>4
<1>10. CASE \/ Insert(w) \/ InsertDuplicate(w) \/ Update(w) \/ Commit(w)
            \/ BeginFails(w) \/ InsertFails(w) \/ UpdateFails(w) \/ CommitFails(w)
  <2>1. /\ UNCHANGED <<mainQ, dlq, hand, nacks>> /\ pc[w] # "idle"
        /\ \A v \in Workers \ {w} : pc'[v] = pc[v]
      BY <1>2, <1>10 DEF Insert, InsertDuplicate, Update, Commit, BeginFails, InsertFails,
                         UpdateFails, CommitFails, Step
  <2>2. Hands'
      BY <2>1 DEF EventAt
  <2> QED BY <1>5, <1>6, <1>7, <2>1, <2>2
<1>11. CASE Ack(w)
  <2>1. Hands'
      BY <1>2, <1>8, <1>11 DEF Ack, Step
  <2> QED BY <1>5, <1>6, <1>7, <1>11, <2>1 DEF Ack
<1>12. CASE Nack(w)
  <2> DEFINE e == EventAt(w)
  <2>1. hand[w] \in Messages /\ e \in Reqs /\ RetryCount(hand[w]) <= nacks[e] /\ UNCHANGED mainQ
      BY <1>2, <1>4, <1>12 DEF Nack, Step, EventAt
  <2>2. /\ pc'[w] = "idle"
        /\ \A v \in Workers \ {w} : pc'[v] = pc[v] /\ hand'[v] = hand[v]
      BY <1>2, <1>12 DEF Nack, Step
  <2>3. CASE link[w] # "up"
    <3>1. UNCHANGED <<dlq, nacks>>
        BY <1>12, <2>3 DEF Nack
    <3> QED BY <1>5, <1>6, <1>7, <1>8, <2>1, <2>2, <3>1
  <2>4. CASE link[w] = "up"
    <3>1. dlq' = Put(dlq, hand[w]) /\ nacks' = [nacks EXCEPT ![e] = @ + 1]
        BY <1>12, <2>4 DEF Nack
    <3>2. nacks'[e] = nacks[e] + 1 /\ \A x \in Reqs : nacks[x] <= nacks'[x] /\ nacks'[x] \in Nat
        BY <1>2, <2>1, <3>1
    <3>3. ASSUME NEW q, NEW n \in Nat, HeaderBound(q, n), NEW m \in Messages, q[m] > 0
          PROVE  RetryCount(m) + n <= nacks'[Event(m)]
      <4>1. RetryCount(m) + n <= nacks[Event(m)] /\ nacks[Event(m)] <= nacks'[Event(m)]
          BY <1>4, <3>2, <3>3 DEF HeaderBound
      <4>2. nacks[Event(m)] \in Nat /\ nacks'[Event(m)] \in Nat /\ RetryCount(m) \in Nat
          BY <1>2, <1>4, <3>2
      <4> QED BY <4>1, <4>2
    <3>4. HeaderBound(mainQ, 0)' /\ HeaderBound(backoff, 1)' /\ HeaderBound(sent, 1)' /\ HeaderBound(routed, 1)'
        BY <1>3, <2>1, <3>3 DEF HeaderBound
    <3>5. HeaderBound(dlq, 1)'
      <4>1. \A m \in Messages : dlq'[m] > 0 => dlq[m] > 0 \/ m = hand[w]
          BY <1>2, <2>1, <3>1, PutType
      <4>2. RetryCount(hand[w]) + 1 <= nacks'[Event(hand[w])]
          BY <1>2, <1>4, <2>1, <3>2 DEF EventAt
      <4> QED BY <3>3, <4>1, <4>2 DEF HeaderBound
    <3>6. Hands'
      <4>1. \A v \in Workers : pc'[v] # "idle" =>
                pc[v] # "idle" /\ hand'[v] = hand[v] /\ Event(hand[v]) \in Reqs /\ RetryCount(hand[v]) \in Nat
          BY <1>2, <1>4, <2>2
      <4> QED BY <1>2, <3>2, <4>1 DEF EventAt
    <3>7. GivenUpAfterAllRetries'
        BY <1>2, <1>3, <3>2 DEF GivenUpAfterAllRetries
    <3> QED BY <3>4, <3>5, <3>6, <3>7
  <2> QED BY <2>3, <2>4
<1>13. ASSUME RequeueHand(w), UNCHANGED nacks PROVE HeaderBound(mainQ, 0)'
  <2>1. CASE link[w] = "up" /\ pc[w] # "idle"
    <3>1. mainQ' = Put(mainQ, hand[w]) /\ hand[w] \in Messages /\ RetryCount(hand[w]) <= nacks[Event(hand[w])]
        BY <1>2, <1>13, <2>1 DEF RequeueHand, EventAt
    <3>2. \A m \in Messages : mainQ'[m] > 0 => mainQ[m] > 0 \/ m = hand[w]
        BY <1>2, <3>1, PutType
    <3> QED BY <1>4, <1>13, <3>1, <3>2 DEF HeaderBound
  <2>2. CASE ~(link[w] = "up" /\ pc[w] # "idle")
      BY <1>6, <1>13, <2>2 DEF RequeueHand
  <2> QED BY <2>1, <2>2
<1>14. CASE LinkLost(w)
  <2>1. Hands'
      BY <1>14 DEF LinkLost, EventAt
  <2> QED BY <1>5, <1>7, <1>13, <1>14, <2>1 DEF LinkLost
<1>15. CASE WorkerCrash(w)
  <2>1. Hands'
      BY <1>2, <1>8, <1>15 DEF WorkerCrash
  <2> QED BY <1>5, <1>7, <1>13, <1>15, <2>1 DEF WorkerCrash
<1>16. CASE WorkerRestart(w)
  <2>1. Hands'
      BY <1>16 DEF WorkerRestart, EventAt
  <2> QED BY <1>5, <1>6, <1>7, <1>16, <2>1 DEF WorkerRestart
<1> QED BY <1>1, <1>9, <1>10, <1>11, <1>12, <1>14, <1>15, <1>16 DEF Work

\* The monitor logs and drops an event only after MaxRetries + 1 attempts to
\* credit it have failed, although redelivered originals multiply its copies.
THEOREM NeverGivenUpEarly == Spec => []GivenUpAfterAllRetries
<1>1. Init => RetriesInv
    BY NoCopiesType
    DEF Init, BrokerInit, MonitorInit, ConsumerInit, RetriesInv, HeadersTrue, HeaderBound,
        GivenUpAfterAllRetries
<1>2. TypeOK /\ RetriesInv /\ [Next]_vars => RetriesInv'
  <2> SUFFICES ASSUME TypeOK, RetriesInv, [Next]_vars PROVE RetriesInv'
      OBVIOUS
  <2>1. CASE SeckillNext /\ UNCHANGED <<monitorVars, consumerVars>>
      BY <2>1, SeckillRetries
  <2>2. CASE MonitorNext /\ UNCHANGED <<seckillVars, consumerVars>>
      BY <2>2, MonitorRetries
  <2>3. CASE ConsumerNext /\ UNCHANGED <<seckillVars, monitorVars>>
      BY <2>3, ConsumerRetries
  <2>4. ASSUME RequeueUnacked, UNCHANGED <<mainQ, logged, consumerVars>> PROVE RetriesInv'
    <3>1. /\ \A m \in Messages : dlq'[m] = dlq[m] + (backoff[m] + (sent[m] + routed[m]))
          /\ backoff' = NoCopies /\ sent' = NoCopies /\ routed' = NoCopies
        BY <2>4, RequeueTyping
    <3>2. \A m \in Messages : dlq[m] \in Nat /\ backoff[m] \in Nat /\ sent[m] \in Nat /\ routed[m] \in Nat
        BY DEF TypeOK, BrokerTypeOK, MonitorTypeOK
    <3>3. \A m \in Messages : dlq'[m] > 0 => dlq[m] > 0 \/ backoff[m] > 0 \/ sent[m] > 0 \/ routed[m] > 0
        BY <3>1, <3>2
    <3>4. HeaderBound(dlq, 1)'
        BY <2>4, <3>3 DEF RetriesInv, HeadersTrue, HeaderBound, consumerVars
    <3> QED BY <2>4, <3>1, <3>4, NoCopiesType
            DEF RetriesInv, HeadersTrue, HeaderBound, GivenUpAfterAllRetries, consumerVars, EventAt
  <2>5. CASE ConnectionLost \/ ShutdownHook \/ ProcessCrash
      BY <2>4, <2>5 DEF ConnectionLost, ShutdownHook, ProcessCrash
  <2>6. CASE ProcessRestart
      BY <2>6 DEF ProcessRestart, RetriesInv, HeadersTrue, HeaderBound, GivenUpAfterAllRetries,
                  consumerVars, EventAt
  <2>7. CASE UNCHANGED vars
      BY <2>7 DEF vars, brokerVars, monitorVars, RetriesInv, HeadersTrue, HeaderBound,
                  GivenUpAfterAllRetries, consumerVars, EventAt
  <2> QED BY <2>1, <2>2, <2>3, <2>5, <2>6, <2>7 DEF Next
<1>3. RetriesInv => GivenUpAfterAllRetries
    BY DEF RetriesInv
<1> QED BY <1>1, <1>2, <1>3, Typing, PTL DEF Spec
=============================================================================
