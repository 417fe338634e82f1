--------------------------- MODULE IPRateLimiter ----------------------------
(***************************************************************************)
(* The limiter of one gateway process, gateway/internal/middleware/        *)
(* ratelimit.go: a map from addresses to limiters under an RWMutex,        *)
(* requests that look one up and then ask it, and the goroutine that       *)
(* removes idle addresses.  Points in time are kept as ages, in ticks; a   *)
(* rate.Limiter is the number of its tokens.                               *)
(***************************************************************************)
EXTENDS Integers

CONSTANTS
    Addresses,   \* client addresses
    Requests,    \* request goroutines
    Burst, Rate, \* size of a bucket, tokens added in a tick
    Limiters,    \* identities of rate.Limiter objects
    None,        \* no entry
    IdleTime,    \* an entry unseen for longer is removed
    SweepTime,   \* the sleep between two clean-ups
    MaxDelay     \* bound on the time a request spends in the limiter, and
                 \* on how late the clean-up is

\* In the code 2 tokens a second, burst 5 and 180 seconds.
ASSUME LimiterAssumption ==
    /\ Addresses # {} /\ Limiters # {} /\ None \notin [limiter : Limiters, idle : Nat]
    /\ Burst \in Nat /\ Rate \in Nat
    /\ IdleTime \in Nat /\ SweepTime \in Nat /\ MaxDelay \in Nat
    /\ 2 * MaxDelay <= IdleTime
    /\ Burst <= Rate * (IdleTime + 1 - 2 * MaxDelay)

VARIABLES
    ips,         \* the map: limiter and time since lastSeen, or None
    tokens,      \* the rate.Limiter objects
    slept,       \* time since the last clean-up
    job          \* what each request is at in the limiter

limiterVars == <<ips, tokens, slept, job>>

Entries == [limiter : Limiters, idle : Nat]
Away == [at |-> "away", ip |-> CHOOSE a \in Addresses : TRUE, waited |-> 0,
         limiter |-> CHOOSE l \in Limiters : TRUE, stamp |-> 0]

In(r, s) == job[r].at = s
Entry(r) == ips[job[r].ip]
Filled(n) == IF n + Rate < Burst THEN n + Rate ELSE Burst

\* Between the lookup and the answer of Allow; with a limiter in hand.
Pending(r) == job[r].at \in {"look", "stamp", "add", "allow"}
Holds(r) == job[r].at \in {"stamp", "allow"}

\* No request has the read lock, so the write lock can be had.
NoReader == \A r \in Requests : ~In(r, "stamp")

\* A new object, one that neither the map nor a request refers to.
Unused == {l \in Limiters : /\ \A a \in Addresses : ips[a] = None \/ ips[a].limiter # l
                            /\ \A r \in Requests : Holds(r) => job[r].limiter # l}
New == CHOOSE l \in Unused : TRUE

\* Request r goes on with limiter l, or leaves the limiter.
Ask(r, l) == job' = [job EXCEPT ![r].at = "allow", ![r].limiter = l, ![r].stamp = 0]
Answer(r, s) == job' = [job EXCEPT ![r] = [Away EXCEPT !.at = s]]

-----------------------------------------------------------------------------
\* A request from address a reaches the middleware.
Arrive(r, a) ==
    /\ In(r, "away")
    /\ job' = [job EXCEPT ![r] = [Away EXCEPT !.at = "look", !.ip = a]]
    /\ UNCHANGED <<ips, tokens, slept>>

\* Under the read lock: the entry, if there is one, and the time.
Look(r) ==
    /\ In(r, "look")
    /\ job' = [job EXCEPT ![r] = IF Entry(r) = None THEN [@ EXCEPT !.at = "add"]
                                 ELSE [@ EXCEPT !.at = "stamp", !.limiter = Entry(r).limiter]]
    /\ UNCHANGED <<ips, tokens, slept>>

\* Mutant: a hit does not count as seen.
StampNever(r) ==
    /\ In(r, "stamp")
    /\ Ask(r, job[r].limiter)
    /\ UNCHANGED <<ips, tokens, slept>>

\* Still under the read lock, which others may have too: of several writers
\* the last one counts, whenever it read the clock.
Stamp(r) ==
    /\ In(r, "stamp")
    /\ ips' = [ips EXCEPT ![job[r].ip].idle = job[r].stamp]
    /\ Ask(r, job[r].limiter)
    /\ UNCHANGED <<tokens, slept>>

\* Mutant: no second look under the write lock.
AddUnchecked(r) ==
    /\ In(r, "add") /\ NoReader /\ Unused # {}
    /\ ips' = [ips EXCEPT ![job[r].ip] = [limiter |-> New, idle |-> 0]]
    /\ tokens' = [tokens EXCEPT ![New] = Burst]
    /\ Ask(r, New)
    /\ UNCHANGED slept

\* Under the write lock: look again, and make an entry if there still is none.
Add(r) ==
    /\ In(r, "add") /\ NoReader
    /\ \/ /\ Entry(r) = None /\ Unused # {}
          /\ ips' = [ips EXCEPT ![job[r].ip] = [limiter |-> New, idle |-> 0]]
          /\ tokens' = [tokens EXCEPT ![New] = Burst]
          /\ Ask(r, New)
       \/ /\ Entry(r) # None
          /\ ips' = [ips EXCEPT ![job[r].ip].idle = 0]
          /\ Ask(r, Entry(r).limiter)
          /\ UNCHANGED tokens
    /\ UNCHANGED slept

\* Mutant: tokens are taken without a look.
AllowAlways(r) ==
    /\ In(r, "allow")
    /\ tokens' = [tokens EXCEPT ![job[r].limiter] = @ - 1]
    /\ Answer(r, "passed")
    /\ UNCHANGED <<ips, slept>>

\* rate.Limiter.Allow: take a token if there is one.
Allow(r) ==
    /\ In(r, "allow")
    /\ LET l == job[r].limiter IN
       IF tokens[l] > 0
       THEN tokens' = [tokens EXCEPT ![l] = @ - 1] /\ Answer(r, "passed")
       ELSE Answer(r, "refused") /\ UNCHANGED tokens
    /\ UNCHANGED <<ips, slept>>

\* The answer has been sent.
Leave(r) ==
    /\ job[r].at \in {"passed", "refused"}
    /\ job' = [job EXCEPT ![r] = Away]
    /\ UNCHANGED <<ips, tokens, slept>>

\* Mutant: forgotten while its bucket is still filling.
ExpiredEarly(a) == ips[a] # None /\ ips[a].idle > 0

\* Mutant: hours for minutes.
ExpiredHours(a) == ips[a] # None /\ ips[a].idle > 60 * IdleTime

Expired(a) == ips[a] # None /\ ips[a].idle > IdleTime

\* cleanupVisitors, under the write lock.
Sweep ==
    /\ slept >= SweepTime /\ NoReader
    /\ ips' = [a \in Addresses |-> IF Expired(a) THEN None ELSE ips[a]]
    /\ slept' = 0
    /\ UNCHANGED <<tokens, job>>

\* Time passes; nothing takes longer than MaxDelay.
Tick ==
    /\ slept < SweepTime + MaxDelay
    /\ \A r \in Requests : Pending(r) => job[r].waited < MaxDelay
    /\ ips' = [a \in Addresses |-> IF ips[a] = None THEN None ELSE [ips[a] EXCEPT !.idle = @ + 1]]
    /\ tokens' = [l \in Limiters |-> Filled(tokens[l])]
    /\ slept' = slept + 1
    /\ job' = [r \in Requests |->
                 IF Pending(r) THEN [job[r] EXCEPT !.waited = @ + 1,
                                                   !.stamp = IF In(r, "stamp") THEN @ + 1 ELSE 0]
                 ELSE job[r]]

GetLimiter(r) ==
    \/ Look(r)
    \/ Stamp(r)
    \/ Add(r)

LimiterInit ==
    /\ ips = [a \in Addresses |-> None]
    /\ tokens = [l \in Limiters |-> Burst]
    /\ slept = 0
    /\ job = [r \in Requests |-> Away]

=============================================================================
