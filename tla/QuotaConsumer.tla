--------------------------- MODULE QuotaConsumer ----------------------------
(***************************************************************************)
(* The storage service's quota consumer (storage/internal/mq/consumer.go). *)
(* Each worker is one storage process with the single goroutine that       *)
(* StartQuotaConsumer starts: it takes a delivery, runs                    *)
(* processQuotaUpgrade against MySQL and answers Ack or Nack.  A worker's  *)
(* transaction becomes visible at Commit; until then the unique index on   *)
(* event_id makes another insert of the same event wait.                   *)
(***************************************************************************)
EXTENDS RewardBroker

CONSTANTS
    Workers,   \* storage processes
    Rows,      \* users that have a row in storage's users table
    NoMsg      \* what a worker holds between two deliveries

ASSUME RowsAssumption  == Rows \subseteq Users
ASSUME NoMsgAssumption == NoMsg \notin Messages

VARIABLES
    link,       \* a worker's AMQP connection: "up", "lost", or "down" with the process
    pc,         \* where a worker is in processing its delivery
    hand,       \* the message it processes
    records,    \* committed rows of lottery_event_records, by event_id
    quota,      \* total_quota, in awards of 4 GB
    swallowed,  \* history: events acknowledged after an INSERT failed for
                \* another reason than a duplicate
    nacks       \* history: how often each event was dead-lettered

consumerVars == <<link, pc, hand, records, quota, swallowed, nacks>>

PCs == {"idle", "received", "inserted", "updated", "ack", "nack"}

Step(w, from, to) == pc[w] = from /\ pc' = [pc EXCEPT ![w] = to]

\* The worker's event, and the transactions that hold its unique index entry.
EventAt(w) == Event(hand[w])
InTx(w) == pc[w] \in {"inserted", "updated"}
Locked(e) == \E w \in Workers : InTx(w) /\ EventAt(w) = e

Deliver(w, m) ==
    /\ link[w] = "up" /\ Step(w, "idle", "received")
    /\ mainQ[m] > 0
    /\ mainQ' = Take(mainQ, m)
    /\ hand' = [hand EXCEPT ![w] = m]
    /\ UNCHANGED <<link, records, quota, swallowed, nacks, dlq, conn, faults>>

BeginFails(w) ==
    /\ Step(w, "received", "nack") /\ Fault("db")
    /\ UNCHANGED <<link, hand, records, quota, swallowed, nacks, mainQ, dlq, conn>>

\* Mutant: no unique index on event_id.
InsertNoIndex(w) ==
    /\ Step(w, "received", "inserted")
    /\ UNCHANGED <<link, hand, records, quota, swallowed, nacks, brokerVars>>

\* Begin and INSERT INTO lottery_event_records.
Insert(w) ==
    /\ Step(w, "received", "inserted")
    /\ EventAt(w) \notin records /\ ~Locked(EventAt(w))
    /\ UNCHANGED <<link, hand, records, quota, swallowed, nacks, brokerVars>>

\* The index rejects a second record: rollback, return nil.
InsertDuplicate(w) ==
    /\ Step(w, "received", "ack")
    /\ EventAt(w) \in records
    /\ UNCHANGED <<link, hand, records, quota, swallowed, nacks, brokerVars>>

\* INSERT fails otherwise (lock wait timeout, deadlock, lost database
\* connection); the code takes every error for a duplicate.
InsertFails(w) ==
    /\ Step(w, "received", "ack") /\ Fault("insert")
    /\ swallowed' = swallowed \cup {EventAt(w)}
    /\ UNCHANGED <<link, hand, records, quota, nacks, mainQ, dlq, conn>>

Update(w) ==
    /\ Step(w, "inserted", "updated")
    /\ UNCHANGED <<link, hand, records, quota, swallowed, nacks, brokerVars>>

\* Mutant: the error of the UPDATE is not returned, and the caller Acks.
UpdateFailsAcked(w) ==
    /\ Step(w, "inserted", "ack") /\ Fault("db")
    /\ UNCHANGED <<link, hand, records, quota, swallowed, nacks, mainQ, dlq, conn>>

UpdateFails(w) ==
    /\ Step(w, "inserted", "nack") /\ Fault("db")
    /\ UNCHANGED <<link, hand, records, quota, swallowed, nacks, mainQ, dlq, conn>>

\* Mutant: the UPDATE runs outside the transaction that holds the record.
ApplyNoRecord(w) ==
    LET u == UserOf[EventAt(w)] IN
    /\ UNCHANGED records
    /\ quota' = IF u \in Rows THEN [quota EXCEPT ![u] = @ + 1] ELSE quota

\* The record and the UPDATE take effect; the UPDATE of a user without a row
\* changes nothing and is no error.
Apply(w) ==
    LET u == UserOf[EventAt(w)] IN
    /\ records' = records \cup {EventAt(w)}
    /\ quota' = IF u \in Rows THEN [quota EXCEPT ![u] = @ + 1] ELSE quota

Commit(w) ==
    /\ Step(w, "updated", "ack")
    /\ Apply(w)
    /\ UNCHANGED <<link, hand, swallowed, nacks, brokerVars>>

\* Commit returns an error, and may have taken effect.
CommitFails(w) ==
    /\ Step(w, "updated", "nack") /\ Fault("db")
    /\ Apply(w) \/ UNCHANGED <<records, quota>>
    /\ UNCHANGED <<link, hand, swallowed, nacks, mainQ, dlq, conn>>

\* d.Ack: the broker forgets the delivery, unless the link was lost and it
\* has requeued it already.
Ack(w) ==
    /\ Step(w, "ack", "idle")
    /\ hand' = [hand EXCEPT ![w] = NoMsg]
    /\ UNCHANGED <<link, records, quota, swallowed, nacks, brokerVars>>

\* Mutant: the failed delivery is rejected without a dead-letter exchange.
NackDropped(w) ==
    /\ Step(w, "nack", "idle")
    /\ hand' = [hand EXCEPT ![w] = NoMsg]
    /\ UNCHANGED <<link, records, quota, swallowed, nacks, brokerVars>>

\* Mutant: a delivery the worker owns no more is dead-lettered once again.
NackUnowned(w) ==
    /\ Step(w, "nack", "idle")
    /\ hand' = [hand EXCEPT ![w] = NoMsg]
    /\ dlq' = Put(dlq, hand[w])
    /\ nacks' = [nacks EXCEPT ![EventAt(w)] = @ + 1]
    /\ UNCHANGED <<link, records, quota, swallowed, mainQ, conn, faults>>

\* d.Nack(false, false): the queue dead-letters the message, header unchanged.
Nack(w) ==
    /\ Step(w, "nack", "idle")
    /\ hand' = [hand EXCEPT ![w] = NoMsg]
    /\ IF link[w] = "up"
       THEN /\ dlq' = Put(dlq, hand[w])
            /\ nacks' = [nacks EXCEPT ![EventAt(w)] = @ + 1]
       ELSE UNCHANGED <<dlq, nacks>>
    /\ UNCHANGED <<link, records, quota, swallowed, mainQ, conn, faults>>

\* What the broker requeues when w's connection ends.
RequeueHand(w) ==
    mainQ' = IF link[w] = "up" /\ pc[w] # "idle" THEN Put(mainQ, hand[w]) ELSE mainQ

\* The connection is lost: the delivery is requeued while the worker goes on
\* with it; afterwards its range loop ends and nothing consumes again.
LinkLost(w) ==
    /\ link[w] = "up" /\ Fault("link")
    /\ RequeueHand(w)
    /\ link' = [link EXCEPT ![w] = "lost"]
    /\ UNCHANGED <<pc, hand, records, quota, swallowed, nacks, dlq, conn>>

\* The process dies; MySQL rolls its open transaction back.
WorkerCrash(w) ==
    /\ link[w] # "down" /\ Fault("storage")
    /\ RequeueHand(w)
    /\ link' = [link EXCEPT ![w] = "down"]
    /\ pc' = [pc EXCEPT ![w] = "idle"]
    /\ hand' = [hand EXCEPT ![w] = NoMsg]
    /\ UNCHANGED <<records, quota, swallowed, nacks, dlq, conn>>

WorkerRestart(w) ==
    /\ link[w] = "down"
    /\ link' = [link EXCEPT ![w] = "up"]
    /\ UNCHANGED <<pc, hand, records, quota, swallowed, nacks, brokerVars>>

\* The next step of w on the delivery it holds, when nothing fails.
Work(w) ==
    \/ Insert(w)
    \/ InsertDuplicate(w)
    \/ Update(w)
    \/ Commit(w)
    \/ Ack(w)
    \/ Nack(w)

ConsumerNext ==
    \E w \in Workers :
        \/ \E m \in Messages : Deliver(w, m)
        \/ Work(w)
        \/ BeginFails(w)
        \/ InsertFails(w)
        \/ UpdateFails(w)
        \/ CommitFails(w)
        \/ LinkLost(w)
        \/ WorkerCrash(w)
        \/ WorkerRestart(w)

ConsumerInit ==
    /\ link = [w \in Workers |-> "up"]
    /\ pc = [w \in Workers |-> "idle"]
    /\ hand = [w \in Workers |-> NoMsg]
    /\ records = {}
    /\ quota = [u \in Users |-> 0]
    /\ swallowed = {}
    /\ nacks = [r \in Reqs |-> 0]

ConsumerTypeOK ==
    /\ link \in [Workers -> {"up", "lost", "down"}]
    /\ pc \in [Workers -> PCs]
    /\ hand \in [Workers -> Messages \cup {NoMsg}]
    /\ \A w \in Workers : pc[w] # "idle" => hand[w] \in Messages
    /\ records \subseteq Reqs
    /\ quota \in [Users -> Nat]
    /\ swallowed \subseteq Reqs
    /\ nacks \in [Reqs -> Nat]
=============================================================================
