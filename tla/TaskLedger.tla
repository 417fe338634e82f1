----------------------------- MODULE TaskLedger -----------------------------
(***************************************************************************)
(* What the task queue promises: a task taken in is kept until it has been *)
(* run to the end, or is lost whole before anybody has started it.  A task *)
(* that is no longer kept never comes back.                                *)
(***************************************************************************)
EXTENDS Naturals

CONSTANT Tasks

VARIABLES
    kept,      \* tasks taken in and not settled
    starts,    \* how often each task was started
    lost       \* tasks that will never be run

vars == <<kept, starts, lost>>

Init ==
    /\ kept = {}
    /\ starts = [t \in Tasks |-> 0]
    /\ lost = {}

\* A task is taken in once, and is new.
Take(t) ==
    /\ t \notin kept \cup lost /\ starts[t] = 0
    /\ kept' = kept \cup {t}
    /\ UNCHANGED <<starts, lost>>

\* A start, the first of them while the task is kept.
Start(t) ==
    /\ t \in kept \/ starts[t] > 0
    /\ starts' = [starts EXCEPT ![t] = @ + 1]
    /\ UNCHANGED <<kept, lost>>

\* One task is settled, and it has been started.
Settle(t) ==
    /\ t \in kept /\ starts[t] > 0
    /\ kept' = kept \ {t}
    /\ UNCHANGED <<starts, lost>>

Lose(S) ==
    /\ \A t \in S : starts[t] = 0
    /\ kept' = kept \ S
    /\ lost' = lost \cup S
    /\ UNCHANGED starts

Next ==
    \/ \E t \in Tasks : Take(t) \/ Start(t) \/ Settle(t)
    \/ \E S \in SUBSET kept : Lose(S)

Spec == Init /\ [][Next]_vars
=============================================================================
