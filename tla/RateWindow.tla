----------------------------- MODULE RateWindow -----------------------------
(***************************************************************************)
(* What "2 requests a second, burst 5" means to a client: a window opened  *)
(* at any moment counts the requests of each address that pass and the     *)
(* ticks that go by, while the gateway runs as before.                     *)
(***************************************************************************)
EXTENDS GatewayPath, FiniteSets

CONSTANTS
    Measured,    \* the workloads during which windows are opened
    MaxWindow    \* bound on the length of a window

VARIABLES
    passed,      \* requests of each address that passed in the window
    elapsed      \* length of the window so far

windowVars == <<passed, elapsed>>

\* The requests from a that this step lets pass.
LetPass(a) == {r \in Requests : In(r, "allow") /\ job[r].ip = a /\ job'[r].at = "passed"}

Reopen ==
    /\ passed' = [a \in Addresses |-> 0]
    /\ elapsed' = 0

Continue ==
    /\ load \in Measured
    /\ passed' = [a \in Addresses |-> passed[a] + Cardinality(LetPass(a))]
    /\ elapsed' = IF Tick THEN elapsed + 1 ELSE elapsed
    /\ elapsed' <= MaxWindow

WindowInit ==
    /\ Init
    /\ passed = [a \in Addresses |-> 0]
    /\ elapsed = 0

WindowNext == Next /\ (Reopen \/ Continue)

WindowSpec == WindowInit /\ [][WindowNext]_<<vars, windowVars>>

\* Whatever the window, and however often the entry of an address is forgotten
\* and made anew in it, no address gets more than a burst and its rate: neither
\* a limiter dropped while a request holds it, nor two made at once, nor one
\* forgotten before it is full again.
WithinRate == \A a \in Addresses : passed[a] <= Burst + Rate * elapsed

=============================================================================
