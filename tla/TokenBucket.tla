---------------------------- MODULE TokenBucket -----------------------------
(***************************************************************************)
(* What rate limiting promises, whatever is remembered or forgotten about  *)
(* an address: one bucket for each, always there, filling by Rate a tick   *)
(* up to Burst; a request passes with a token and is refused without one.  *)
(***************************************************************************)
EXTENDS Integers

CONSTANTS
    Addresses,   \* client addresses
    Requests,    \* requests that can be under way together
    Burst,       \* size of a bucket
    Rate         \* tokens added in a tick

VARIABLES
    bucket,      \* tokens of each address
    client       \* each request: the address it asks for, and its state

Away == [ip |-> CHOOSE a \in Addresses : TRUE, state |-> "away"]

Filled(n) == IF n + Rate < Burst THEN n + Rate ELSE Burst

Init ==
    /\ bucket = [a \in Addresses |-> Burst]
    /\ client = [r \in Requests |-> Away]

Ask(r, a) ==
    /\ client[r] = Away
    /\ client' = [client EXCEPT ![r] = [ip |-> a, state |-> "asking"]]
    /\ UNCHANGED bucket

Pass(r) ==
    /\ client[r].state = "asking" /\ bucket[client[r].ip] > 0
    /\ bucket' = [bucket EXCEPT ![client[r].ip] = @ - 1]
    /\ client' = [client EXCEPT ![r] = [Away EXCEPT !.state = "passed"]]

Refuse(r) ==
    /\ client[r].state = "asking" /\ bucket[client[r].ip] = 0
    /\ client' = [client EXCEPT ![r] = [Away EXCEPT !.state = "refused"]]
    /\ UNCHANGED bucket

Leave(r) ==
    /\ client[r].state \in {"passed", "refused"}
    /\ client' = [client EXCEPT ![r] = Away]
    /\ UNCHANGED bucket

Refill ==
    /\ bucket' = [a \in Addresses |-> Filled(bucket[a])]
    /\ UNCHANGED client

Next ==
    \/ \E r \in Requests :
          \/ \E a \in Addresses : Ask(r, a)
          \/ Pass(r)
          \/ Refuse(r)
          \/ Leave(r)
    \/ Refill

Spec == Init /\ [][Next]_<<bucket, client>>

=============================================================================
