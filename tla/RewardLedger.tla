---------------------------- MODULE RewardLedger ----------------------------
(***************************************************************************)
(* What the reward pipeline promises a user: stock turns into winners, one *)
(* award each, and an award is credited to a winner at most once.          *)
(***************************************************************************)
EXTENDS Naturals, FiniteSets

CONSTANTS Users, InitialStock

VARIABLES
    stock,     \* awards left
    winners,   \* users that won one
    balance    \* awards credited to each user

vars == <<stock, winners, balance>>

Init ==
    /\ stock = InitialStock
    /\ winners = {}
    /\ balance = [u \in Users |-> 0]

Win(u) ==
    /\ stock > 0 /\ u \notin winners
    /\ stock' = stock - 1
    /\ winners' = winners \cup {u}
    /\ UNCHANGED balance

Credit(u) ==
    /\ u \in winners /\ balance[u] = 0
    /\ balance' = [balance EXCEPT ![u] = 1]
    /\ UNCHANGED <<stock, winners>>

Next == \E u \in Users : Win(u) \/ Credit(u)

Spec == Init /\ [][Next]_vars
=============================================================================
