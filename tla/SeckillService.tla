--------------------------- MODULE SeckillService ---------------------------
(***************************************************************************)
(* The interaction service's seckill: DoSeckill of lottery_service.go, one *)
(* step per call it makes (the Lua script in Redis, GetChannel, Publish),  *)
(* and the life of the process as cmd/api/main.go and pkg/graceful drive   *)
(* it.  Requests run concurrently; a publish is without confirms, so nil   *)
(* only means that the frame was written to the connection.                *)
(***************************************************************************)
EXTENDS RewardBroker

CONSTANT InitialStock   \* lottery:quota:stock before the first request
ASSUME StockAssumption == InitialStock \in Nat

VARIABLES
    stock,    \* lottery:quota:stock in Redis
    winners,  \* lottery:quota:winners in Redis
    rpc,      \* how far each request has got, then what it answered
    wire,     \* publishes written to the connection, not yet routed
    dropped,  \* history: publishes lost with the connection
    proc      \* the process: "up", "closing" (hooks ran), "draining", "down"

seckillVars == <<stock, winners, rpc, wire, dropped, proc>>

\* The script took stock for these; "accepted" answered 202, the others an error.
Winning == {"won", "channel", "accepted", "nochannel", "pubfail", "killed", "phantom"}
Answers == Winning \cup {"new", "already", "soldout", "busy"}
InFlight(r) == rpc[r] \in {"won", "channel"}

Accepting == proc \in {"up", "closing"}

\* Mutant: the stock check is left out of the script.
ScriptResultNoStock(u) == IF u \in winners THEN "already" ELSE "won"

\* seckillLuaScript: the branch taken for user u.
ScriptResult(u) ==
    IF u \in winners THEN "already" ELSE IF stock = 0 THEN "soldout" ELSE "won"

\* Mutant: the script returns before SADD.
ScriptEffectNoAdd(u) ==
    IF ScriptResult(u) = "won"
    THEN stock' = stock - 1 /\ UNCHANGED winners
    ELSE UNCHANGED <<stock, winners>>

\* Mutant: the script adds the winner without DECR.
ScriptEffectNoDecr(u) ==
    IF ScriptResult(u) = "won"
    THEN winners' = winners \cup {u} /\ UNCHANGED stock
    ELSE UNCHANGED <<stock, winners>>

\* seckillLuaScript: DECR and SADD, in the branch that returns 1.
ScriptEffect(u) ==
    IF ScriptResult(u) = "won"
    THEN stock' = stock - 1 /\ winners' = winners \cup {u}
    ELSE UNCHANGED <<stock, winners>>

Answer(r, a) == rpc' = [rpc EXCEPT ![r] = a]

\* The handler calls DoSeckill; Redis runs the script and the reply arrives.
Seckill(r) ==
    /\ rpc[r] = "new" /\ Accepting
    /\ ScriptEffect(UserOf[r])
    /\ Answer(r, ScriptResult(UserOf[r]))
    /\ UNCHANGED <<wire, dropped, proc, brokerVars>>

\* Eval returns an error: the request context ended or the reply was lost.
\* The script may have run all the same.
EvalFails(r) ==
    /\ rpc[r] = "new" /\ Accepting /\ Fault("redis")
    /\ \/ UNCHANGED <<stock, winners>> /\ Answer(r, "busy")
       \/ /\ ScriptEffect(UserOf[r])
          /\ Answer(r, IF ScriptResult(UserOf[r]) = "won" THEN "phantom" ELSE "busy")
    /\ UNCHANGED <<wire, dropped, proc, mainQ, dlq, conn>>

GetChannel(r) ==
    /\ rpc[r] = "won" /\ conn = "open"
    /\ Answer(r, "channel")
    /\ UNCHANGED <<stock, winners, wire, dropped, proc, brokerVars>>

\* GetChannel errors: at once on a closed connection (nobody dials again), or
\* because the broker refuses the channel.
GetChannelFails(r) ==
    /\ rpc[r] = "won"
    /\ IF conn = "closed" THEN NoFault ELSE Fault("channel")
    /\ Answer(r, "nochannel")
    /\ UNCHANGED <<stock, winners, wire, dropped, proc, mainQ, dlq, conn>>

Publish(r) ==
    /\ rpc[r] = "channel" /\ conn = "open"
    /\ wire' = wire \cup {r}
    /\ Answer(r, "accepted")
    /\ UNCHANGED <<stock, winners, dropped, proc, brokerVars>>

\* Mutant: a publish reported as failed reaches the broker all the same.
PublishFailsLate(r) ==
    /\ rpc[r] = "channel" /\ conn = "closed"
    /\ wire' = wire \cup {r}
    /\ Answer(r, "pubfail")
    /\ UNCHANGED <<stock, winners, dropped, proc, brokerVars>>

PublishFails(r) ==
    /\ rpc[r] = "channel" /\ conn = "closed"
    /\ Answer(r, "pubfail")
    /\ UNCHANGED <<stock, winners, wire, dropped, proc, brokerVars>>

\* The broker reads the frame and routes it to the main queue.
Route(r) ==
    /\ r \in wire
    /\ wire' = wire \ {r}
    /\ mainQ' = Put(mainQ, <<r, 0>>)
    /\ UNCHANGED <<stock, winners, rpc, dropped, proc, dlq, conn, faults>>

\* The connection ends without the frames still on it being read.
LoseWire == wire' = {} /\ dropped' = dropped \cup wire

\* WaitForShutdown calls server.Shutdown only after the hooks.
StopAccepting ==
    /\ proc = "closing"
    /\ proc' = "draining"
    /\ UNCHANGED <<stock, winners, rpc, wire, dropped, brokerVars>>

\* server.Shutdown waits for the handlers, then main returns.
Exit ==
    /\ proc = "draining" /\ \A r \in Reqs : ~InFlight(r)
    /\ proc' = "down"
    /\ UNCHANGED <<stock, winners, rpc, wire, dropped, brokerVars>>

\* What the end of the process does to the requests it was running.
Kill == rpc' = [r \in Reqs |-> IF InFlight(r) THEN "killed" ELSE rpc[r]]

SeckillNext ==
    \/ \E r \in Reqs :
          \/ Seckill(r)
          \/ EvalFails(r)
          \/ GetChannel(r)
          \/ GetChannelFails(r)
          \/ Publish(r)
          \/ PublishFails(r)
          \/ Route(r)
    \/ StopAccepting
    \/ Exit

SeckillInit ==
    /\ stock = InitialStock
    /\ winners = {}
    /\ rpc = [r \in Reqs |-> "new"]
    /\ wire = {}
    /\ dropped = {}
    /\ proc = "up"

SeckillTypeOK ==
    /\ stock \in 0 .. InitialStock
    /\ winners \subseteq Users
    /\ rpc \in [Reqs -> Answers]
    /\ wire \subseteq Reqs
    /\ dropped \subseteq Reqs
    /\ proc \in {"up", "closing", "draining", "down"}
=============================================================================
