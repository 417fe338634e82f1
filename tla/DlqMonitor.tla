----------------------------- MODULE DlqMonitor -----------------------------
(***************************************************************************)
(* The interaction service's dead-letter monitor (dlq_monitor.go): a       *)
(* consumer that hands every message to a goroutine of its own, which      *)
(* waits, republishes to the main exchange with x-retry-count one higher   *)
(* and then acknowledges the original, or gives up on the message.  The    *)
(* delays are abstracted to "some time later".  ctx is Background in main, *)
(* so the ctx.Done branches never run.  The loop does not notice that the  *)
(* connection has ended: from the closed channel it receives zero          *)
(* deliveries without end, whose body does not parse and whose Nack goes   *)
(* to no broker.  That changes no state here, and no message reaches the   *)
(* monitor again.                                                          *)
(***************************************************************************)
EXTENDS RewardBroker

VARIABLES
    monitor,  \* whether StartDLQMonitor attached its consumer
    backoff,  \* deliveries whose processRetry sleeps
    sent,     \* deliveries whose republish is written, not yet routed
    routed,   \* deliveries whose republish was routed, Ack not yet sent
    logged    \* events that persistFailedMessage wrote to the log

monitorVars == <<monitor, backoff, sent, routed, logged>>

\* handleDeadLetter, retryCount below the limit: go processRetry.
DeadLetter(m) ==
    /\ monitor /\ conn = "open" /\ dlq[m] > 0
    /\ RetryCount(m) < MaxRetries
    /\ dlq' = Take(dlq, m)
    /\ backoff' = Put(backoff, m)
    /\ UNCHANGED <<monitor, sent, routed, logged, mainQ, conn, faults>>

\* Mutant: gives up one retry early.
GiveUpEarly(m) ==
    /\ monitor /\ conn = "open" /\ dlq[m] > 0
    /\ RetryCount(m) + 1 >= MaxRetries
    /\ dlq' = Take(dlq, m)
    /\ logged' = logged \cup {Event(m)}
    /\ UNCHANGED <<monitor, backoff, sent, routed, mainQ, conn, faults>>

\* handleDeadLetter, limit reached: log, then Ack.
GiveUp(m) ==
    /\ monitor /\ conn = "open" /\ dlq[m] > 0
    /\ RetryCount(m) >= MaxRetries
    /\ dlq' = Take(dlq, m)
    /\ logged' = logged \cup {Event(m)}
    /\ UNCHANGED <<monitor, backoff, sent, routed, mainQ, conn, faults>>

\* processRetry after the delay: channel opened, republish written.
Republish(m) ==
    /\ backoff[m] > 0 /\ conn = "open"
    /\ backoff' = Take(backoff, m)
    /\ sent' = Put(sent, m)
    /\ UNCHANGED <<monitor, routed, logged, brokerVars>>

\* Mutant: a failed republish acknowledges the original.
RepublishFailsAcked(m) ==
    /\ backoff[m] > 0 /\ Fault("channel")
    /\ backoff' = Take(backoff, m)
    /\ UNCHANGED <<monitor, sent, routed, logged, mainQ, dlq, conn>>

\* processRetry cannot open a channel or publish: Nack with requeue.
RepublishFails(m) ==
    /\ backoff[m] > 0 /\ Fault("channel")
    /\ backoff' = Take(backoff, m)
    /\ dlq' = Put(dlq, m)
    /\ UNCHANGED <<monitor, sent, routed, logged, mainQ, conn>>

\* The broker routes the copy, its x-retry-count one higher.
RouteRetry(m) ==
    /\ sent[m] > 0
    /\ sent' = Take(sent, m)
    /\ routed' = Put(routed, m)
    /\ mainQ' = Put(mainQ, <<Event(m), RetryCount(m) + 1>>)
    /\ UNCHANGED <<monitor, backoff, logged, dlq, conn, faults>>

\* processRetry acknowledges the original; on the one connection the Ack
\* follows the publish, so the copy was routed before.
AckRetry(m) ==
    /\ routed[m] > 0
    /\ routed' = Take(routed, m)
    /\ UNCHANGED <<monitor, backoff, sent, logged, brokerVars>>

\* The connection ends: the broker requeues every delivery not acknowledged.
\* A goroutine that still holds one fails to Nack it and ends.
RequeueUnacked ==
    /\ dlq' = Merge(dlq, Merge(backoff, Merge(sent, routed)))
    /\ backoff' = NoCopies
    /\ sent' = NoCopies
    /\ routed' = NoCopies

MonitorNext ==
    \E m \in Messages :
        \/ DeadLetter(m)
        \/ GiveUp(m)
        \/ Republish(m)
        \/ RepublishFails(m)
        \/ RouteRetry(m)
        \/ AckRetry(m)

MonitorInit ==
    /\ monitor = TRUE
    /\ backoff = NoCopies
    /\ sent = NoCopies
    /\ routed = NoCopies
    /\ logged = {}

MonitorTypeOK ==
    /\ monitor \in BOOLEAN
    /\ backoff \in [Messages -> Nat]
    /\ sent \in [Messages -> Nat]
    /\ routed \in [Messages -> Nat]
    /\ logged \subseteq Reqs
    /\ \A m \in Messages : RetryCount(m) = MaxRetries => backoff[m] = 0 /\ sent[m] = 0
=============================================================================
