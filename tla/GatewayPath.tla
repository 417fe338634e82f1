---------------------------- MODULE GatewayPath -----------------------------
(***************************************************************************)
(* The way of a request through the gateway of gateway/cmd/gateway/main.go *)
(* (rate limit, token check, reverse proxy) to registration and login, or  *)
(* to a service behind RequireUser, and the properties of that way.        *)
(***************************************************************************)
EXTENDS IPRateLimiter, UserApi

\* What clients do in a behaviour: the addresses their requests come from, and
\* the names and passwords they register and log in with.
CONSTANT Workloads

ASSUME WorkloadsAssumption ==
    \A w \in Workloads : w.from \subseteq Addresses /\ w.creds \subseteq Credentials

VARIABLES
    load,     \* one of the workloads
    acted     \* history: the token shown and the user a service acted for

vars == <<limiterVars, userVars, load, acted>>

InLimiter(A) == A /\ UNCHANGED <<userVars, load, acted>>

\* /api/v1/auth/register and /login need no token.
ForwardAuth(r) ==
    \E s \in {"register", "login"}, c \in load.creds :
        call' = [call EXCEPT ![r] = [NoCall EXCEPT !.at = s, !.creds = c]]

\* Mutant: a header the client has sent is kept.
ForwardHeader(r, t, x) ==
    call' = [call EXCEPT ![r] = [NoCall EXCEPT !.at = "service", !.token = t,
                                               !.header = IF x = NoUser THEN t ELSE x]]

\* On any other route a token is needed, and X-User-Id, which the client may
\* have sent as x, is replaced by the id in the token.
ForwardUser(r, t, x) ==
    call' = [call EXCEPT ![r] = [NoCall EXCEPT !.at = "service", !.token = t, !.header = t]]

\* JWTAuthMiddleware and GinReverseProxy: what was asked is forwarded, or is
\* answered for want of a token (401) or a service (502).
Forward(r) ==
    /\ In(r, "passed") /\ call[r].at = "none"
    /\ \/ ForwardAuth(r)
       \/ \E t \in {i.id : i \in issued}, x \in {NoUser} \cup Ids : ForwardUser(r, t, x)
       \/ Finish(r)
    /\ UNCHANGED <<limiterVars, users, faults, accepted, issued, load, acted>>

\* RequireUser and the handler behind it.
RequireUser(r) ==
    /\ call[r].at = "service"
    /\ acted' = IF call[r].header = NoUser THEN acted
                ELSE acted \cup {[shown |-> call[r].token, user |-> call[r].header]}
    /\ Finish(r)
    /\ UNCHANGED <<limiterVars, users, faults, accepted, issued, load>>

\* The answer goes back to the client.
Reply(r) ==
    /\ In(r, "refused") \/ call[r].at = "answered"
    /\ Leave(r)
    /\ call' = [call EXCEPT ![r] = NoCall]
    /\ UNCHANGED <<users, faults, accepted, issued, load, acted>>

\* The next step of request r.
Advance(r) ==
    \/ InLimiter(GetLimiter(r))
    \/ InLimiter(Allow(r))
    \/ Forward(r)
    \/ RequireUser(r)
    \/ Handle(r) /\ UNCHANGED <<limiterVars, load, acted>>
    \/ Reply(r)

Init ==
    /\ LimiterInit
    /\ users = <<>>
    /\ call = [r \in Requests |-> NoCall]
    /\ faults = 0
    /\ accepted = <<>>
    /\ issued = {}
    /\ load \in Workloads
    /\ acted = {}

Next ==
    \/ \E r \in Requests :
          \/ \E a \in load.from : InLimiter(Arrive(r, a))
          \/ Advance(r)
    \/ InLimiter(Sweep)
    \/ InLimiter(Tick)

Spec == Init /\ [][Next]_vars

-----------------------------------------------------------------------------
(* The limiter *)

\* Every variable stays in its domain.
TypeOK ==
    /\ ips \in [Addresses -> Entries \cup {None}]
    /\ tokens \in [Limiters -> 0..Burst]
    /\ slept \in 0..(SweepTime + MaxDelay)
    /\ job \in [Requests -> [at : {"away", "look", "stamp", "add", "allow", "passed", "refused"},
                             ip : Addresses, waited : 0..MaxDelay,
                             limiter : Limiters, stamp : 0..MaxDelay]]
    /\ users \in Seq(Credentials)
    /\ call \in [Requests -> [at : {"none", "register", "insert", "login", "service", "answered"},
                              creds : Credentials,
                              token : {NoUser} \cup Ids, header : {NoUser} \cup Ids]]
    /\ accepted \in Seq(Credentials)
    /\ issued \subseteq [creds : Credentials, id : Ids]
    /\ acted \subseteq [shown : Ids, user : Ids]
    /\ faults \in 0..MaxFaults /\ load \in Workloads

\* A request that has looked up its limiter asks the one that is in the map
\* when it does: no clean-up in between leaves it with an old one while the
\* next request gets a new and full one.
OneLimiterPerAddress ==
    \A r \in Requests : Holds(r) => Entry(r) # None /\ Entry(r).limiter = job[r].limiter

\* An address that sends nothing is forgotten (ratelimit.go:68): entries do
\* not pile up.
IdleForgotten ==
    \A a \in Addresses :
        ips[a] # None => ips[a].idle <= IdleTime + SweepTime + MaxDelay

Bucket == INSTANCE TokenBucket WITH
    bucket <- [a \in Addresses |-> IF ips[a] = None THEN Burst ELSE tokens[ips[a].limiter]],
    client <- [r \in Requests |->
                 [ip |-> job[r].ip,
                  state |-> IF Pending(r) THEN "asking" ELSE job[r].at]]

\* Creating, forgetting and recreating limiters cannot be noticed: addresses
\* are served as if each had a bucket of its own for ever.
BucketSpec == Bucket!Spec

-----------------------------------------------------------------------------
(* Users *)

\* However registrations race and fail, a name is registered at most once,
\* and the row holds the password of the one that was answered 201.
RegisteredOnce ==
    /\ \A i, j \in DOMAIN accepted : accepted[i].name = accepted[j].name => i = j
    /\ \A i \in DOMAIN accepted : \E k \in Ids :
          Row(accepted[i].name) = {k} /\ users[k] = accepted[i]

\* A service acts for a user only if the request showed a token of this user,
\* and a token is issued to whoever presented the name and password of a row.
TokensAreOwned ==
    /\ \A i \in issued : i.id \in Ids /\ users[i.id] = i.creds
    /\ \A x \in acted : x.user = x.shown /\ \E i \in issued : i.id = x.user

=============================================================================
