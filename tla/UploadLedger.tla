---------------------------- MODULE UploadLedger ----------------------------
(***************************************************************************)
(* What the chunked upload promises: a file is opened, its chunks are      *)
(* acknowledged and stay so, and with all of them acknowledged it is       *)
(* stored, once and for good, and paid for once by one user.               *)
(***************************************************************************)
EXTENDS Naturals

CONSTANTS Files, Users, Total

VARIABLES
    state,   \* per file: "absent", "open", "stored" or "dropped"
    acked,   \* per file: the chunks acknowledged
    spent    \* per user: the chunks paid for

Open(f) ==
    /\ state[f] = "absent"
    /\ state' = [state EXCEPT ![f] = "open"]
    /\ UNCHANGED <<acked, spent>>

\* The storage engine refuses the upload.
Drop(f) ==
    /\ state[f] = "open"
    /\ state' = [state EXCEPT ![f] = "dropped"]
    /\ UNCHANGED <<acked, spent>>

Acknowledge(f, p) ==
    /\ state[f] \in {"open", "dropped"}
    /\ acked' = [acked EXCEPT ![f] = @ \cup {p}]
    /\ state' = [state EXCEPT ![f] = "open"]
    /\ UNCHANGED spent

Store(f, u) ==
    /\ state[f] = "open" /\ acked[f] = 1 .. Total
    /\ state' = [state EXCEPT ![f] = "stored"]
    /\ spent' = [spent EXCEPT ![u] = @ + Total]
    /\ UNCHANGED acked

Init ==
    /\ state = [f \in Files |-> "absent"]
    /\ acked = [f \in Files |-> {}]
    /\ spent = [u \in Users |-> 0]

Next ==
    \E f \in Files :
        \/ Open(f) \/ Drop(f)
        \/ \E p \in 1 .. Total : Acknowledge(f, p)
        \/ \E u \in Users : Store(f, u)

Spec == Init /\ [][Next]_<<state, acked, spent>>
=============================================================================
