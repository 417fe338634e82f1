------------------------- MODULE GatewayPathProofs --------------------------
(***************************************************************************)
(* Theorems about GatewayPath, for all addresses, requests and accounts,   *)
(* and all rates, bursts and delays LimiterAssumption allows.              *)
(***************************************************************************)
EXTENDS RateWindow, SequenceTheorems, FiniteSetTheorems, TLAPS

-----------------------------------------------------------------------------
(* The steps of the limiter, seen alone. *)

LimiterNext ==
    \/ \E r \in Requests :
          \/ \E a \in Addresses : Arrive(r, a)
          \/ Look(r)
          \/ Stamp(r)
          \/ Add(r)
          \/ Allow(r)
          \/ Leave(r)
    \/ Sweep
    \/ Tick

LimiterTypeOK ==
    /\ ips \in [Addresses -> Entries \cup {None}]
    /\ tokens \in [Limiters -> 0..Burst]
    /\ slept \in 0..(SweepTime + MaxDelay)
    /\ job \in [Requests -> [at : {"away", "look", "stamp", "add", "allow", "passed", "refused"},
                             ip : Addresses, waited : 0..MaxDelay,
                             limiter : Limiters, stamp : 0..MaxDelay]]

\* A step of the whole is one of the limiter or leaves it alone.
LEMMA LimiterSteps ==
    ASSUME load \in Workloads, [Next]_vars
    PROVE  LimiterNext \/ UNCHANGED limiterVars
<1>1. load.from \subseteq Addresses
  BY WorkloadsAssumption
<1>2. ASSUME NEW r \in Requests, Advance(r) PROVE LimiterNext \/ UNCHANGED limiterVars
  BY <1>2 DEF Advance, InLimiter, GetLimiter, Forward, RequireUser, Reply, LimiterNext
<1> QED BY <1>1, <1>2 DEF Next, InLimiter, LimiterNext, vars

-----------------------------------------------------------------------------
(* Type correctness of the limiter. *)

\* The linear part of the assumption.
LEMMA Sizes ==
    /\ Burst \in Nat /\ Rate \in Nat /\ IdleTime \in Nat /\ SweepTime \in Nat /\ MaxDelay \in Nat
    /\ 2 * MaxDelay <= IdleTime
BY LimiterAssumption

LEMMA AwayType ==
    Away \in [at : {"away"}, ip : Addresses, waited : {0}, limiter : Limiters, stamp : {0}]
<1>1. (CHOOSE a \in Addresses : TRUE) \in Addresses
  BY LimiterAssumption
<1>2. (CHOOSE l \in Limiters : TRUE) \in Limiters
  BY LimiterAssumption
<1> QED BY <1>1, <1>2 DEF Away

LEMMA NoneType == None \notin Entries
BY LimiterAssumption DEF Entries

LEMMA FilledType ==
    ASSUME NEW n \in 0..Burst PROVE Filled(n) \in 0..Burst /\ Filled(n) >= n
BY Sizes DEF Filled

LEMMA NewType ==
    ASSUME Unused # {} PROVE New \in Unused /\ New \in Limiters
BY DEF New, Unused

Jobs == [at : {"away", "look", "stamp", "add", "allow", "passed", "refused"},
         ip : Addresses, waited : 0..MaxDelay, limiter : Limiters, stamp : 0..MaxDelay]

LEMMA AwayJob == Away \in Jobs /\ Away.at = "away" /\ Away.stamp = 0
<1>1. 0 \in 0..MaxDelay
  BY Sizes
<1> QED BY <1>1, AwayType DEF Jobs

\* What the tokens of a limiter unseen for n ticks have grown to, at least.
Grown(n) == Rate * (n - 2 * MaxDelay)

LEMMA GrownSmall ==
    ASSUME NEW n \in Nat, n <= 2 * MaxDelay PROVE Grown(n) \in Int /\ Grown(n) <= 0
<1>1. \A x, y \in Int : x >= 0 /\ y <= 0 => x * y \in Int /\ x * y <= 0
  OBVIOUS
<1> QED BY <1>1, Sizes DEF Grown

LEMMA GrownNext ==
    ASSUME NEW n \in Nat PROVE Grown(n) \in Int /\ Grown(n + 1) = Grown(n) + Rate
<1>1. \A x, y \in Int : x * y \in Int /\ x * (y + 1) = x * y + x
  OBVIOUS
<1>2. n + 1 - 2 * MaxDelay = (n - 2 * MaxDelay) + 1 /\ n - 2 * MaxDelay \in Int
  BY Sizes
<1> QED BY <1>1, <1>2, Sizes DEF Grown

LEMMA GrownFull ==
    ASSUME NEW n \in Nat, n > IdleTime PROVE Grown(n) >= Burst
<1> DEFINE m == IdleTime + 1 - 2 * MaxDelay
           k == n - (IdleTime + 1)
<1>1. \A x \in Nat, y \in Int, z \in Nat : x * (y + z) = x * y + x * z /\ x * z >= 0 /\ x * y \in Int
  OBVIOUS
<1>2. m \in Int /\ k \in Nat /\ n - 2 * MaxDelay = m + k
  BY Sizes
<1>3. Burst <= Rate * m
  BY LimiterAssumption
<1> HIDE DEF m, k
<1>4. Rate * (m + k) = Rate * m + Rate * k /\ Rate * k >= 0 /\ Rate * m \in Int /\ Rate * k \in Int
  BY <1>1, <1>2, Sizes
<1> QED BY <1>2, <1>3, <1>4, Sizes DEF Grown

-----------------------------------------------------------------------------
(* The inductive invariant of the limiter. *)

\* No one has read the clock before he came.
StampBound == \A r \in Requests : job[r].stamp <= job[r].waited

\* No two addresses share a limiter.
OwnLimiters ==
    \A a, b \in Addresses :
        ips[a] # None /\ ips[b] # None /\ ips[a].limiter = ips[b].limiter => a = b

\* Whoever has a limiter has seen to it that its entry is young.
SeenLately == \A r \in Requests : In(r, "allow") => Entry(r).idle <= job[r].waited + MaxDelay

\* The clean-up is the last to have let an entry age.
IdleBound == \A a \in Addresses : ips[a] # None => ips[a].idle <= IdleTime + slept

\* An entry unseen for long has a full bucket.
GrowsUnseen ==
    \A a \in Addresses : ips[a] # None =>
        tokens[ips[a].limiter] = Burst \/ tokens[ips[a].limiter] >= Grown(ips[a].idle)

\* A request that asks for nothing carries no address.
AwayHome == \A r \in Requests : ~Pending(r) => job[r].ip = Away.ip

LimiterInv ==
    /\ LimiterTypeOK
    /\ StampBound
    /\ OwnLimiters
    /\ OneLimiterPerAddress
    /\ SeenLately
    /\ IdleBound
    /\ GrowsUnseen
    /\ AwayHome

-----------------------------------------------------------------------------
(* What the steps do to job and to ips. *)

LEMMA JobAt ==
    ASSUME LimiterTypeOK, NEW r \in Requests
    PROVE  /\ job[r] \in Jobs
           /\ job[r].ip \in Addresses /\ job[r].limiter \in Limiters
           /\ job[r].waited \in 0..MaxDelay /\ job[r].stamp \in 0..MaxDelay
           /\ job[r].at \in {"away", "look", "stamp", "add", "allow", "passed", "refused"}
BY DEF LimiterTypeOK, Jobs

LEMMA EntryType ==
    ASSUME LimiterTypeOK, NEW a \in Addresses, ips[a] # None
    PROVE  /\ ips[a] \in Entries /\ ips[a].limiter \in Limiters /\ ips[a].idle \in Nat
           /\ ips[a] = [limiter |-> ips[a].limiter, idle |-> ips[a].idle]
           /\ tokens[ips[a].limiter] \in 0..Burst
BY DEF LimiterTypeOK, Entries

LEMMA JobsType ==
    ASSUME LimiterTypeOK, NEW r \in Requests, NEW j \in Jobs, job' = [job EXCEPT ![r] = j]
    PROVE  /\ job' \in [Requests -> Jobs]
           /\ job'[r] = j
           /\ \A q \in Requests : q # r => job'[q] = job[q]
BY DEF LimiterTypeOK, Jobs

LEMMA AskJob ==
    ASSUME LimiterTypeOK, NEW r \in Requests, NEW l \in Limiters, Ask(r, l)
    PROVE  /\ job' \in [Requests -> Jobs]
           /\ job'[r].at = "allow" /\ job'[r].limiter = l /\ job'[r].stamp = 0
           /\ job'[r].ip = job[r].ip /\ job'[r].waited = job[r].waited
           /\ \A q \in Requests : q # r => job'[q] = job[q]
<1> DEFINE j == [job[r] EXCEPT !.at = "allow", !.limiter = l, !.stamp = 0]
<1>1. job[r] \in Jobs /\ 0 \in 0..MaxDelay
  BY JobAt, Sizes
<1>2. /\ j.at = "allow" /\ j.limiter = l /\ j.stamp = 0
      /\ j.ip = job[r].ip /\ j.waited = job[r].waited
  BY <1>1 DEF Jobs
<1>3. j \in Jobs
  BY <1>1 DEF Jobs
<1>4. job' = [job EXCEPT ![r] = j]
  BY DEF Ask
<1> HIDE DEF j
<1> QED BY <1>2, <1>3, <1>4, JobsType

LEMMA AnswerJob ==
    ASSUME LimiterTypeOK, NEW r \in Requests, NEW s \in {"passed", "refused"}, Answer(r, s)
    PROVE  /\ job' \in [Requests -> Jobs]
           /\ job'[r] = [Away EXCEPT !.at = s]
           /\ \A q \in Requests : q # r => job'[q] = job[q]
<1>1. [Away EXCEPT !.at = s] \in Jobs
  BY AwayType, Sizes DEF Jobs
<1> QED BY <1>1, JobsType DEF Answer

\* An entry is written.
LEMMA Written ==
    ASSUME LimiterTypeOK, NEW a \in Addresses, NEW e \in Entries, ips' = [ips EXCEPT ![a] = e]
    PROVE  /\ ips' \in [Addresses -> Entries \cup {None}]
           /\ ips'[a] = e
           /\ \A b \in Addresses : b # a => ips'[b] = ips[b]
BY DEF LimiterTypeOK

\* An entry is seen again: its limiter stays.
LEMMA SeenAgain ==
    ASSUME LimiterTypeOK, NEW a \in Addresses, ips[a] # None, NEW n \in Nat,
           ips' = [ips EXCEPT ![a].idle = n]
    PROVE  /\ ips' \in [Addresses -> Entries \cup {None}]
           /\ ips'[a] # None /\ ips'[a].limiter = ips[a].limiter /\ ips'[a].idle = n
           /\ \A b \in Addresses : b # a => ips'[b] = ips[b]
<1> DEFINE e == [ips[a] EXCEPT !.idle = n]
<1>1. ips[a] \in [limiter : Limiters, idle : Nat]
  BY EntryType DEF Entries
<1>2. e \in Entries /\ e.limiter = ips[a].limiter /\ e.idle = n
  BY <1>1 DEF Entries
<1>3. ips' = [ips EXCEPT ![a] = e]
  OBVIOUS
<1> HIDE DEF e
<1>4. ips' \in [Addresses -> Entries \cup {None}] /\ ips'[a] = e
      /\ \A b \in Addresses : b # a => ips'[b] = ips[b]
  BY <1>2, <1>3, Written
<1> QED BY <1>2, <1>4, NoneType

-----------------------------------------------------------------------------
(* Every step keeps the invariant. *)

\* A request that neither asks nor holds anything afterwards disturbs nothing.
LEMMA IdleJobKeeps ==
    ASSUME LimiterInv, UNCHANGED <<ips, slept>>,
           tokens' \in [Limiters -> 0..Burst], GrowsUnseen',
           NEW r \in Requests, NEW j \in Jobs, job' = [job EXCEPT ![r] = j],
           j.stamp = 0, j.at \in {"away", "look", "passed", "refused"},
           j.at # "look" => j.ip = Away.ip
    PROVE  LimiterInv'
<1>1. LimiterTypeOK
  BY DEF LimiterInv
<1>2. /\ job' \in [Requests -> Jobs] /\ job'[r] = j
      /\ \A q \in Requests : q # r => job'[q] = job[q]
  BY <1>1, JobsType
<1>3. LimiterTypeOK'
  BY <1>2 DEF LimiterInv, LimiterTypeOK, Jobs
<1>4. StampBound'
  BY <1>2, Sizes DEF LimiterInv, StampBound, Jobs
<1>5. OwnLimiters' /\ IdleBound'
  BY DEF LimiterInv, OwnLimiters, IdleBound
<1>6. OneLimiterPerAddress'
  BY <1>2 DEF LimiterInv, OneLimiterPerAddress, Holds, Entry, In
<1>7. SeenLately'
  BY <1>2 DEF LimiterInv, SeenLately, Entry, In
<1>8. AwayHome'
  BY <1>2 DEF LimiterInv, AwayHome, Pending, In
<1> QED BY <1>3, <1>4, <1>5, <1>6, <1>7, <1>8 DEF LimiterInv

LEMMA ArriveKeeps ==
    ASSUME LimiterInv, NEW r \in Requests, NEW a \in Addresses, Arrive(r, a)
    PROVE  LimiterInv'
<1> DEFINE j == [Away EXCEPT !.at = "look", !.ip = a]
<1>1. j.at = "look" /\ j.stamp = 0 /\ j \in Jobs
  BY AwayJob DEF Jobs
<1>2. job' = [job EXCEPT ![r] = j] /\ UNCHANGED <<ips, slept, tokens>>
  BY DEF Arrive
<1>3. tokens' \in [Limiters -> 0..Burst] /\ GrowsUnseen'
  BY <1>2 DEF LimiterInv, LimiterTypeOK, GrowsUnseen
<1> HIDE DEF j
<1> QED BY <1>1, <1>2, <1>3, IdleJobKeeps

LEMMA LeaveKeeps ==
    ASSUME LimiterInv, NEW r \in Requests, Leave(r) PROVE LimiterInv'
<1>1. tokens' \in [Limiters -> 0..Burst] /\ GrowsUnseen'
  BY DEF LimiterInv, LimiterTypeOK, GrowsUnseen, Leave
<1> QED BY <1>1, AwayJob, IdleJobKeeps DEF Leave

\* A request with a limiter in hand has the one of an entry seen lately.
LEMMA HeldEntry ==
    ASSUME LimiterInv, NEW r \in Requests, Holds(r)
    PROVE  /\ job[r].ip \in Addresses /\ Entry(r) = ips[job[r].ip]
           /\ Entry(r) # None /\ Entry(r).limiter = job[r].limiter
           /\ In(r, "allow") => Entry(r).idle <= 2 * MaxDelay
<1>1. LimiterTypeOK
  BY DEF LimiterInv
<1>2. job[r].ip \in Addresses /\ job[r].waited \in 0..MaxDelay /\ Entry(r) = ips[job[r].ip]
  BY <1>1, JobAt DEF Entry
<1>3. Entry(r) # None /\ Entry(r).limiter = job[r].limiter
  BY DEF LimiterInv, OneLimiterPerAddress
<1>4. Entry(r).idle \in Nat
  BY <1>1, <1>2, <1>3, EntryType
<1>5. In(r, "allow") => Entry(r).idle <= job[r].waited + MaxDelay
  BY DEF LimiterInv, SeenLately
<1> QED BY <1>2, <1>3, <1>4, <1>5, Sizes

LEMMA AllowKeeps ==
    ASSUME LimiterInv, NEW r \in Requests, Allow(r) PROVE LimiterInv'
<1>0. LimiterTypeOK /\ job[r].limiter \in Limiters
  BY JobAt DEF LimiterInv
<1>1. tokens' \in [Limiters -> 0..Burst]
  BY <1>0, Sizes DEF Allow, LimiterTypeOK
<1>2. ASSUME NEW a \in Addresses, ips[a] # None
      PROVE  tokens'[ips[a].limiter] = Burst \/ tokens'[ips[a].limiter] >= Grown(ips[a].idle)
  <2>1. ips[a].limiter \in Limiters /\ ips[a].idle \in Nat
    BY <1>0, <1>2, EntryType
  <2>2. CASE ips[a].limiter = job[r].limiter
    <3>1. Holds(r) /\ In(r, "allow")
      BY DEF Allow, Holds, In
    <3>2. a = job[r].ip
      BY <1>2, <2>2, <3>1, HeldEntry DEF LimiterInv, OwnLimiters
    <3>3. ips[a].idle <= 2 * MaxDelay
      BY <3>1, <3>2, HeldEntry
    <3> QED BY <1>1, <2>1, <3>3, GrownSmall, Sizes
  <2>3. CASE ips[a].limiter # job[r].limiter
    <3>1. tokens'[ips[a].limiter] = tokens[ips[a].limiter]
      BY <1>0, <2>1, <2>3 DEF Allow, LimiterTypeOK
    <3> QED BY <1>2, <3>1 DEF LimiterInv, GrowsUnseen
  <2> QED BY <2>2, <2>3
<1>3. UNCHANGED <<ips, slept>> /\ GrowsUnseen'
  BY <1>2 DEF Allow, GrowsUnseen
<1>4. PICK s \in {"passed", "refused"} : Answer(r, s)
  BY DEF Allow
<1>5. [Away EXCEPT !.at = s] \in Jobs /\ [Away EXCEPT !.at = s].stamp = 0
      /\ [Away EXCEPT !.at = s].at = s /\ [Away EXCEPT !.at = s].ip = Away.ip
  BY AwayType, Sizes DEF Jobs
<1> QED BY <1>1, <1>3, <1>4, <1>5, IdleJobKeeps DEF Answer

LEMMA LookKeeps ==
    ASSUME LimiterInv, NEW r \in Requests, Look(r) PROVE LimiterInv'
<1> DEFINE j == IF Entry(r) = None THEN [job[r] EXCEPT !.at = "add"]
                ELSE [job[r] EXCEPT !.at = "stamp", !.limiter = Entry(r).limiter]
<1>0. LimiterTypeOK /\ job[r] \in Jobs /\ job[r].ip \in Addresses /\ job[r].at = "look"
  BY JobAt DEF LimiterInv, Look, In
<1>1. Entry(r) # None => Entry(r).limiter \in Limiters
  BY <1>0, EntryType DEF Entry
<1>2. /\ j.at \in {"add", "stamp"}
      /\ j.at = "stamp" => Entry(r) # None /\ j.limiter = Entry(r).limiter
      /\ j.ip = job[r].ip /\ j.waited = job[r].waited /\ j.stamp = job[r].stamp
  BY <1>0 DEF Jobs
<1>3. j \in Jobs
  BY <1>0, <1>1 DEF Jobs
<1>4. job' = [job EXCEPT ![r] = j] /\ UNCHANGED <<ips, tokens, slept>>
  BY DEF Look
<1> HIDE DEF j
<1>5. /\ job' \in [Requests -> Jobs] /\ job'[r] = j
      /\ \A q \in Requests : q # r => job'[q] = job[q]
  BY <1>0, <1>3, <1>4, JobsType
<1>6. LimiterTypeOK'
  BY <1>0, <1>4, <1>5 DEF LimiterTypeOK, Jobs
<1>7. StampBound'
  BY <1>2, <1>5 DEF LimiterInv, StampBound
<1>8. OwnLimiters' /\ IdleBound' /\ GrowsUnseen'
  BY <1>4 DEF LimiterInv, OwnLimiters, IdleBound, GrowsUnseen
<1>9. OneLimiterPerAddress'
  BY <1>2, <1>4, <1>5 DEF LimiterInv, OneLimiterPerAddress, Holds, Entry, In
<1>10. SeenLately'
  BY <1>2, <1>4, <1>5 DEF LimiterInv, SeenLately, Entry, In
<1>11. AwayHome'
  BY <1>2, <1>5 DEF LimiterInv, AwayHome, Pending, In
<1> QED BY <1>6, <1>7, <1>8, <1>9, <1>10, <1>11 DEF LimiterInv

\* A request sees its entry again, n ticks old, and goes on with its limiter.
LEMMA SeenKeeps ==
    ASSUME LimiterInv, NEW r \in Requests, Entry(r) # None, NEW n \in 0..MaxDelay,
           Pending(r),
           ips' = [ips EXCEPT ![job[r].ip].idle = n], Ask(r, Entry(r).limiter),
           UNCHANGED <<tokens, slept>>
    PROVE  LimiterInv'
<1>0. /\ LimiterTypeOK /\ job[r] \in Jobs /\ job[r].ip \in Addresses
      /\ job[r].waited \in 0..MaxDelay
      /\ Entry(r) = ips[job[r].ip] /\ Entry(r).limiter \in Limiters /\ n \in Nat
  <2>1. LimiterTypeOK
    BY DEF LimiterInv
  <2>2. job[r] \in Jobs /\ job[r].ip \in Addresses /\ job[r].waited \in 0..MaxDelay
    BY <2>1, JobAt
  <2>3. Entry(r) = ips[job[r].ip]
    BY DEF Entry
  <2>4. Entry(r).limiter \in Limiters
    BY <2>1, <2>2, <2>3, EntryType
  <2>5. n \in Nat
    BY Sizes
  <2> QED BY <2>1, <2>2, <2>3, <2>4, <2>5
<1>1. /\ ips' \in [Addresses -> Entries \cup {None}]
      /\ ips'[job[r].ip] # None /\ ips'[job[r].ip].limiter = Entry(r).limiter
      /\ ips'[job[r].ip].idle = n
      /\ \A b \in Addresses : b # job[r].ip => ips'[b] = ips[b]
  BY <1>0, SeenAgain
<1>2. /\ job' \in [Requests -> Jobs]
      /\ job'[r].at = "allow" /\ job'[r].limiter = Entry(r).limiter /\ job'[r].stamp = 0
      /\ job'[r].ip = job[r].ip /\ job'[r].waited = job[r].waited
      /\ \A q \in Requests : q # r => job'[q] = job[q]
  BY <1>0, AskJob
<1>3. LimiterTypeOK'
  BY <1>0, <1>1, <1>2 DEF LimiterTypeOK, Jobs
<1>4. StampBound'
  BY <1>0, <1>2 DEF LimiterInv, StampBound
<1>5. \A a \in Addresses :
         /\ ips[a] # None => ips'[a] # None /\ ips'[a].limiter = ips[a].limiter
         /\ ips'[a] # None => ips[a] # None
  BY <1>0, <1>1
<1>6. OwnLimiters'
  <2>1. OwnLimiters
    BY DEF LimiterInv
  <2> QED BY <1>5, <2>1 DEF OwnLimiters
<1>7. OneLimiterPerAddress'
  <2>1. ASSUME NEW q \in Requests, q # r, Holds(q)'
        PROVE  Entry(q)' # None /\ Entry(q)'.limiter = job'[q].limiter
    <3>1. Holds(q) /\ job[q].ip \in Addresses
      BY <1>0, <1>2, <2>1, JobAt DEF Holds
    <3>2. Entry(q) # None /\ Entry(q).limiter = job[q].limiter
      BY <3>1 DEF LimiterInv, OneLimiterPerAddress
    <3>3. job'[q] = job[q]
      BY <1>2, <2>1
    <3>4. Entry(q)' = ips'[job[q].ip] /\ Entry(q) = ips[job[q].ip]
      BY <3>3 DEF Entry
    <3> QED BY <1>5, <3>1, <3>2, <3>3, <3>4
  <2>2. Entry(r)' # None /\ Entry(r)'.limiter = job'[r].limiter
    BY <1>1, <1>2 DEF Entry
  <2> QED BY <2>1, <2>2 DEF OneLimiterPerAddress
<1>8. SeenLately'
  <2>1. ASSUME NEW q \in Requests, In(q, "allow")'
        PROVE  Entry(q)'.idle <= job'[q].waited + MaxDelay
    <3>0. job'[q] \in Jobs /\ job'[q].waited \in 0..MaxDelay
      BY <1>2 DEF Jobs
    <3>1. CASE job'[q].ip = job[r].ip
      BY <1>1, <3>0, <3>1, Sizes DEF Entry
    <3>2. CASE job'[q].ip # job[r].ip
      BY <1>1, <1>2, <2>1, <3>0, <3>2 DEF Entry, In, LimiterInv, SeenLately, Jobs
    <3> QED BY <3>1, <3>2
  <2> QED BY <2>1 DEF SeenLately
<1>9. IdleBound'
  <2>1. slept \in Nat
    BY <1>0, Sizes DEF LimiterTypeOK
  <2>2. n <= IdleTime + slept
    BY <2>1, Sizes
  <2> QED BY <1>0, <1>1, <2>2 DEF LimiterInv, IdleBound
<1>10. GrowsUnseen'
  <2>1. Grown(n) \in Int /\ Grown(n) <= 0
    BY <1>0, GrownSmall, Sizes
  <2>2. tokens[Entry(r).limiter] \in 0..Burst
    BY <1>0 DEF LimiterTypeOK
  <2>3. tokens[Entry(r).limiter] >= Grown(n)
    BY <2>1, <2>2, Sizes
  <2>4. ASSUME NEW a \in Addresses, ips'[a] # None
        PROVE  tokens[ips'[a].limiter] = Burst \/ tokens[ips'[a].limiter] >= Grown(ips'[a].idle)
    BY <1>0, <1>1, <2>3, <2>4 DEF LimiterInv, GrowsUnseen
  <2> QED BY <2>4 DEF GrowsUnseen, Grown
<1>11. AwayHome'
  BY <1>2 DEF LimiterInv, AwayHome, Pending, In
<1> QED BY <1>3, <1>4, <1>6, <1>7, <1>8, <1>9, <1>10, <1>11 DEF LimiterInv

LEMMA StampKeeps ==
    ASSUME LimiterInv, NEW r \in Requests, Stamp(r) PROVE LimiterInv'
<1>1. Holds(r) /\ Pending(r)
  BY DEF Stamp, In, Holds, Pending
<1>2. Entry(r) # None /\ job[r].limiter = Entry(r).limiter
  BY <1>1, HeldEntry
<1>3. job[r].stamp \in 0..MaxDelay
  BY JobAt DEF LimiterInv
<1> QED BY <1>1, <1>2, <1>3, SeenKeeps DEF Stamp

\* The first request of an address makes its entry, with a limiter no one has.
LEMMA FirstKeeps ==
    ASSUME LimiterInv, NEW r \in Requests, In(r, "add"), NoReader, Entry(r) = None,
           NEW l \in Unused,
           ips' = [ips EXCEPT ![job[r].ip] = [limiter |-> l, idle |-> 0]],
           tokens' = [tokens EXCEPT ![l] = Burst],
           Ask(r, l), UNCHANGED slept
    PROVE  LimiterInv'
<1> DEFINE e == [limiter |-> l, idle |-> 0]
<1>0. LimiterTypeOK
  BY DEF LimiterInv
<1>1. /\ l \in Limiters
      /\ \A a \in Addresses : ips[a] # None => ips[a].limiter # l
      /\ \A q \in Requests : Holds(q) => job[q].limiter # l
  BY DEF Unused
<1>2. /\ job[r].ip \in Addresses /\ job[r].waited \in 0..MaxDelay
      /\ Entry(r) = ips[job[r].ip]
  BY <1>0, JobAt DEF Entry
<1>3. e \in Entries /\ e.limiter = l /\ e.idle = 0
  BY <1>1 DEF Entries
<1> HIDE DEF e
<1>4. /\ ips' \in [Addresses -> Entries \cup {None}]
      /\ ips'[job[r].ip] = e /\ e # None
      /\ \A b \in Addresses : b # job[r].ip => ips'[b] = ips[b]
  BY <1>0, <1>2, <1>3, Written, NoneType DEF e
<1>5. /\ job' \in [Requests -> Jobs]
      /\ job'[r].at = "allow" /\ job'[r].limiter = l /\ job'[r].stamp = 0
      /\ job'[r].ip = job[r].ip /\ job'[r].waited = job[r].waited
      /\ \A q \in Requests : q # r => job'[q] = job[q]
  BY <1>0, <1>1, AskJob
<1>6. /\ tokens' \in [Limiters -> 0..Burst] /\ tokens'[l] = Burst
      /\ \A k \in Limiters : k # l => tokens'[k] = tokens[k]
  BY <1>0, <1>1, Sizes DEF LimiterTypeOK
<1>7. LimiterTypeOK'
  BY <1>0, <1>4, <1>5, <1>6 DEF LimiterTypeOK, Jobs
<1>8. StampBound'
  BY <1>2, <1>5 DEF LimiterInv, StampBound
<1>9. OwnLimiters'
  <2>1. OwnLimiters
    BY DEF LimiterInv
  <2> QED BY <1>1, <1>3, <1>4, <2>1 DEF OwnLimiters
<1>10. OneLimiterPerAddress'
  <2>1. ASSUME NEW q \in Requests, q # r, Holds(q)'
        PROVE  Entry(q)' # None /\ Entry(q)'.limiter = job'[q].limiter
    <3>1. job'[q] = job[q] /\ Holds(q) /\ job[q].ip \in Addresses
      BY <1>0, <1>5, <2>1, JobAt DEF Holds, In
    <3>2. Entry(q) # None /\ Entry(q).limiter = job[q].limiter
      BY <3>1 DEF LimiterInv, OneLimiterPerAddress
    <3>3. job[q].ip # job[r].ip
      BY <1>2, <3>2 DEF Entry
    <3>4. Entry(q)' = ips'[job[q].ip] /\ Entry(q) = ips[job[q].ip]
      BY <3>1 DEF Entry
    <3> QED BY <1>4, <3>1, <3>2, <3>3, <3>4
  <2>2. Entry(r)' # None /\ Entry(r)'.limiter = job'[r].limiter
    BY <1>3, <1>4, <1>5 DEF Entry
  <2> QED BY <2>1, <2>2 DEF OneLimiterPerAddress
<1>11. SeenLately'
  <2>1. ASSUME NEW q \in Requests, In(q, "allow")'
        PROVE  Entry(q)'.idle <= job'[q].waited + MaxDelay
    <3>0. job'[q] \in Jobs /\ job'[q].waited \in 0..MaxDelay
      BY <1>5 DEF Jobs
    <3>1. CASE job'[q].ip = job[r].ip
      BY <1>3, <1>4, <3>0, <3>1, Sizes DEF Entry
    <3>2. CASE job'[q].ip # job[r].ip
      BY <1>4, <1>5, <2>1, <3>0, <3>2 DEF Entry, In, LimiterInv, SeenLately, Jobs
    <3> QED BY <3>1, <3>2
  <2> QED BY <2>1 DEF SeenLately
<1>12. IdleBound'
  <2>1. slept \in Nat
    BY <1>0, Sizes DEF LimiterTypeOK
  <2>2. 0 <= IdleTime + slept
    BY <2>1, Sizes
  <2> QED BY <1>3, <1>4, <2>2 DEF LimiterInv, IdleBound
<1>13. GrowsUnseen'
  <2>1. ASSUME NEW a \in Addresses, ips'[a] # None
        PROVE  \/ tokens'[ips'[a].limiter] = Burst
               \/ tokens'[ips'[a].limiter] >= Grown(ips'[a].idle)
    <3>1. CASE a = job[r].ip
      BY <1>3, <1>4, <1>6, <3>1
    <3>2. CASE a # job[r].ip
      <4>1. ips'[a] = ips[a] /\ ips[a].limiter \in Limiters /\ ips[a].limiter # l
        BY <1>0, <1>1, <1>4, <2>1, <3>2, EntryType
      <4> QED BY <1>6, <2>1, <4>1 DEF LimiterInv, GrowsUnseen
    <3> QED BY <3>1, <3>2
  <2> QED BY <2>1 DEF GrowsUnseen, Grown
<1>14. AwayHome'
  BY <1>5 DEF LimiterInv, AwayHome, Pending, In
<1> QED BY <1>7, <1>8, <1>9, <1>10, <1>11, <1>12, <1>13, <1>14 DEF LimiterInv

LEMMA AddKeeps ==
    ASSUME LimiterInv, NEW r \in Requests, Add(r) PROVE LimiterInv'
<1>1. CASE Entry(r) = None
  <2>1. New \in Unused
    BY <1>1, NewType DEF Add
  <2> QED BY <1>1, <2>1, FirstKeeps DEF Add
<1>2. CASE Entry(r) # None
  <2>1. Pending(r) /\ 0 \in 0..MaxDelay
    BY Sizes DEF Add, In, Pending
  <2> QED BY <1>2, <2>1, SeenKeeps DEF Add
<1> QED BY <1>1, <1>2

\* An expired entry is one no request is about to use.
LEMMA SweepKeeps ==
    ASSUME LimiterInv, Sweep PROVE LimiterInv'
<1>0. LimiterTypeOK
  BY DEF LimiterInv
<1>1. /\ \A a \in Addresses : ips'[a] # None => ips'[a] = ips[a] /\ ~Expired(a)
      /\ \A a \in Addresses : ~Expired(a) => ips'[a] = ips[a]
      /\ UNCHANGED <<tokens, job>> /\ slept' = 0
  BY DEF Sweep
<1>2. LimiterTypeOK'
  BY <1>0, Sizes DEF Sweep, LimiterTypeOK
<1>3. StampBound' /\ AwayHome'
  BY <1>1 DEF LimiterInv, StampBound, AwayHome, Pending, In
<1>4. OwnLimiters'
  <2>1. OwnLimiters
    BY DEF LimiterInv
  <2> QED BY <1>1, <2>1 DEF OwnLimiters
<1>5. ASSUME NEW r \in Requests, Holds(r)
      PROVE  Entry(r)' = Entry(r)
  <2>1. In(r, "allow")
    BY <1>5 DEF Sweep, NoReader, Holds, In
  <2>2. /\ job[r].ip \in Addresses /\ Entry(r) = ips[job[r].ip] /\ Entry(r) # None
        /\ Entry(r).idle <= 2 * MaxDelay
    BY <1>5, <2>1, HeldEntry
  <2>3. Entry(r).idle \in Nat
    BY <1>0, <2>2, EntryType
  <2>4. ~Expired(job[r].ip)
    BY <2>2, <2>3, Sizes DEF Expired
  <2> QED BY <1>1, <2>2, <2>4 DEF Entry
<1>6. OneLimiterPerAddress'
  BY <1>1, <1>5 DEF LimiterInv, OneLimiterPerAddress, Holds, In
<1>7. SeenLately'
  BY <1>1, <1>5 DEF LimiterInv, SeenLately, Holds, In
<1>8. IdleBound'
  <2>1. ASSUME NEW a \in Addresses, ips'[a] # None PROVE ips'[a].idle <= IdleTime
    <3>1. ips'[a] = ips[a] /\ ips[a].idle \in Nat /\ ~(ips[a].idle > IdleTime)
      BY <1>0, <1>1, <2>1, EntryType DEF Expired
    <3> QED BY <3>1, Sizes
  <2> QED BY <1>1, <2>1, Sizes DEF IdleBound
<1>9. GrowsUnseen'
  BY <1>1 DEF LimiterInv, GrowsUnseen, Grown
<1> QED BY <1>2, <1>3, <1>4, <1>6, <1>7, <1>8, <1>9 DEF LimiterInv

\* What a tick does to a request and to an entry.
LEMMA TickJob ==
    ASSUME LimiterInv, Tick, NEW r \in Requests
    PROVE  /\ job'[r] \in Jobs
           /\ job'[r].at = job[r].at /\ job'[r].ip = job[r].ip /\ job'[r].limiter = job[r].limiter
           /\ job'[r].waited = (IF Pending(r) THEN job[r].waited + 1 ELSE job[r].waited)
           /\ job'[r].stamp <= job'[r].waited
<1>1. /\ job[r] \in Jobs /\ job[r].waited \in 0..MaxDelay /\ job[r].stamp \in 0..MaxDelay
      /\ job[r].stamp <= job[r].waited
  BY JobAt DEF LimiterInv, StampBound
<1>2. CASE Pending(r)
  <2> DEFINE s == IF In(r, "stamp") THEN job[r].stamp + 1 ELSE 0
             w == job[r].waited + 1
             j == [job[r] EXCEPT !.waited = w, !.stamp = s]
  <2>1. job'[r] = j /\ job[r].waited < MaxDelay
    BY <1>2 DEF Tick
  <2>2. w \in 0..MaxDelay /\ s \in 0..MaxDelay /\ s <= w
    BY <1>1, <2>1, Sizes
  <2> HIDE DEF s, w
  <2>3. /\ j.at = job[r].at /\ j.ip = job[r].ip /\ j.limiter = job[r].limiter
        /\ j.waited = w /\ j.stamp = s
    BY <1>1 DEF Jobs
  <2>4. j \in Jobs
    BY <1>1, <2>2 DEF Jobs
  <2> HIDE DEF j
  <2> QED BY <1>2, <2>1, <2>2, <2>3, <2>4 DEF w
<1>3. CASE ~Pending(r)
  BY <1>1, <1>3 DEF Tick
<1> QED BY <1>2, <1>3

LEMMA TickEntry ==
    ASSUME LimiterInv, Tick, NEW a \in Addresses
    PROVE  /\ (ips[a] = None) <=> (ips'[a] = None)
           /\ ips[a] # None => /\ ips'[a] \in Entries /\ ips'[a].limiter = ips[a].limiter
                              /\ ips'[a].idle = ips[a].idle + 1
<1>1. CASE ips[a] = None
  BY <1>1 DEF Tick
<1>2. CASE ips[a] # None
  <2> DEFINE e == [ips[a] EXCEPT !.idle = @ + 1]
  <2>1. ips'[a] = e
    BY <1>2 DEF Tick
  <2>2. ips[a] \in Entries /\ ips[a].idle \in Nat
    BY <1>2, EntryType DEF LimiterInv
  <2>3. e \in Entries /\ e.limiter = ips[a].limiter /\ e.idle = ips[a].idle + 1
    BY <2>2 DEF Entries
  <2> HIDE DEF e
  <2> QED BY <1>2, <2>1, <2>3, NoneType
<1> QED BY <1>1, <1>2

LEMMA TickKeeps ==
    ASSUME LimiterInv, Tick PROVE LimiterInv'
<1>0. LimiterTypeOK
  BY DEF LimiterInv
<1>1. job' \in [Requests -> Jobs]
  BY TickJob DEF Tick
<1>2. ips' \in [Addresses -> Entries \cup {None}]
  <2>1. \A a \in Addresses : ips'[a] \in Entries \cup {None}
    BY TickEntry
  <2> QED BY <2>1 DEF Tick
<1>3. tokens' \in [Limiters -> 0..Burst]
  BY <1>0, FilledType DEF Tick, LimiterTypeOK
<1>4. slept' = slept + 1 /\ slept' \in 0..(SweepTime + MaxDelay)
  <2>1. slept' = slept + 1 /\ slept < SweepTime + MaxDelay
    BY DEF Tick
  <2>2. slept \in 0..(SweepTime + MaxDelay)
    BY <1>0 DEF LimiterTypeOK
  <2> QED BY <2>1, <2>2, Sizes
<1>5. LimiterTypeOK'
  BY <1>1, <1>2, <1>3, <1>4 DEF LimiterTypeOK, Jobs
<1>6. StampBound'
  BY TickJob DEF StampBound
<1>7. OwnLimiters'
  <2>1. OwnLimiters
    BY DEF LimiterInv
  <2> QED BY <2>1, TickEntry DEF OwnLimiters
<1>8. ASSUME NEW r \in Requests, Holds(r)'
      PROVE  /\ Holds(r) /\ job[r].ip \in Addresses /\ Entry(r) = ips[job[r].ip]
             /\ Entry(r)' = ips'[job[r].ip] /\ Entry(r) # None /\ Pending(r)
  <2>1. Holds(r) /\ Pending(r)
    BY <1>8, TickJob DEF Holds, Pending, In
  <2> QED BY <2>1, HeldEntry, TickJob DEF Entry
<1>9. OneLimiterPerAddress'
  <2>1. ASSUME NEW r \in Requests, Holds(r)'
        PROVE  Entry(r)' # None /\ Entry(r)'.limiter = job'[r].limiter
    <3>1. Entry(r).limiter = job[r].limiter
      BY <1>8, <2>1 DEF LimiterInv, OneLimiterPerAddress
    <3> QED BY <1>8, <2>1, <3>1, TickEntry, TickJob
  <2> QED BY <2>1 DEF OneLimiterPerAddress
<1>10. SeenLately'
  <2>1. ASSUME NEW r \in Requests, In(r, "allow")'
        PROVE  Entry(r)'.idle <= job'[r].waited + MaxDelay
    <3>1. Holds(r)' /\ In(r, "allow")
      BY <2>1, TickJob DEF Holds, In
    <3>2. Entry(r)'.idle = Entry(r).idle + 1 /\ job'[r].waited = job[r].waited + 1
      BY <1>8, <3>1, TickEntry, TickJob
    <3>3. Entry(r).idle <= job[r].waited + MaxDelay
      BY <3>1 DEF LimiterInv, SeenLately
    <3>4. Entry(r).idle \in Nat /\ job[r].waited \in 0..MaxDelay
      BY <1>0, <1>8, <3>1, EntryType, JobAt
    <3> QED BY <3>2, <3>3, <3>4, Sizes
  <2> QED BY <2>1 DEF SeenLately
<1>11. IdleBound'
  <2>1. ASSUME NEW a \in Addresses, ips'[a] # None PROVE ips'[a].idle <= IdleTime + slept'
    <3>1. ips[a] # None /\ ips'[a].idle = ips[a].idle + 1
      BY <2>1, TickEntry
    <3>2. ips[a].idle \in Nat /\ ips[a].idle <= IdleTime + slept
      BY <1>0, <3>1, EntryType DEF LimiterInv, IdleBound
    <3> QED BY <1>0, <1>4, <3>1, <3>2, Sizes DEF LimiterTypeOK
  <2> QED BY <2>1 DEF IdleBound
<1>12. GrowsUnseen'
  <2>1. ASSUME NEW a \in Addresses, ips'[a] # None
        PROVE  \/ tokens'[ips'[a].limiter] = Burst
               \/ tokens'[ips'[a].limiter] >= Grown(ips'[a].idle)
    <3> DEFINE l == ips[a].limiter
               n == ips[a].idle
    <3>1. ips[a] # None /\ ips'[a].limiter = l /\ ips'[a].idle = n + 1
      BY <2>1, TickEntry
    <3>2. l \in Limiters /\ n \in Nat /\ tokens[l] \in 0..Burst
      BY <1>0, <3>1, EntryType
    <3>3. tokens'[l] = Filled(tokens[l])
      BY <3>2 DEF Tick
    <3>4. tokens[l] = Burst \/ tokens[l] >= Grown(n)
      BY <3>1 DEF LimiterInv, GrowsUnseen
    <3>5. Grown(n) \in Int /\ Grown(n + 1) = Grown(n) + Rate
      BY <3>2, GrownNext
    <3> HIDE DEF l, n
    <3>6. tokens'[l] = Burst \/ tokens'[l] >= Grown(n + 1)
      BY <3>2, <3>3, <3>4, <3>5, Sizes DEF Filled
    <3> QED BY <3>1, <3>6
  <2> QED BY <2>1 DEF GrowsUnseen, Grown
<1>13. AwayHome'
  BY TickJob DEF LimiterInv, AwayHome, Pending, In
<1> QED BY <1>5, <1>6, <1>7, <1>9, <1>10, <1>11, <1>12, <1>13 DEF LimiterInv

LEMMA LimiterInvStep ==
    ASSUME LimiterInv, load \in Workloads, [Next]_vars PROVE LimiterInv'
<1>1. CASE LimiterNext
  BY <1>1, ArriveKeeps, LookKeeps, StampKeeps, AddKeeps, AllowKeeps, LeaveKeeps,
     SweepKeeps, TickKeeps DEF LimiterNext
<1>2. CASE UNCHANGED limiterVars
  BY <1>2 DEF limiterVars, LimiterInv, LimiterTypeOK, StampBound, OwnLimiters,
     OneLimiterPerAddress, SeenLately, IdleBound, GrowsUnseen, Grown, AwayHome, Pending, Holds,
     Entry, In
<1> QED BY <1>1, <1>2, LimiterSteps

LEMMA LimiterInvInit ==
    ASSUME Init PROVE LimiterInv
<1>1. \A r \in Requests : job[r] = Away /\ Away \in Jobs /\ Away.at = "away"
                         /\ Away.stamp = 0 /\ Away.waited = 0
  BY AwayJob, AwayType DEF Init, LimiterInit
<1>2. LimiterTypeOK
  BY AwayJob, Sizes DEF Init, LimiterInit, LimiterTypeOK, Jobs
<1>3. \A a \in Addresses : ips[a] = None
  BY DEF Init, LimiterInit
<1> QED BY <1>1, <1>2, <1>3 DEF LimiterInv, StampBound, OwnLimiters, OneLimiterPerAddress,
           SeenLately, IdleBound, GrowsUnseen, AwayHome, Pending, Holds, In

LEMMA LimiterInvAlways == Spec => [](LimiterInv /\ load \in Workloads)
<1>1. Init => LimiterInv /\ load \in Workloads
  BY LimiterInvInit DEF Init
<1>2. load \in Workloads /\ [Next]_vars => (load \in Workloads)'
  BY DEF Next, InLimiter, Advance, Forward, RequireUser, Handle, Count, Insert, Login, Reply, vars
<1>3. LimiterInv /\ load \in Workloads /\ [Next]_vars => (LimiterInv /\ load \in Workloads)'
  BY <1>2, LimiterInvStep
<1> QED BY <1>1, <1>3, PTL DEF Spec

\* A request asks the limiter that is in the map: getLimiter and cleanupVisitors
\* never leave one with an old limiter while the next one gets a new one.
THEOREM OneLimiterAlways == Spec => []OneLimiterPerAddress
<1>1. LimiterInv => OneLimiterPerAddress
  BY DEF LimiterInv
<1> QED BY <1>1, LimiterInvAlways, PTL

\* An address that sends nothing is forgotten by cleanupVisitors.
THEOREM IdleForgottenAlways == Spec => []IdleForgotten
<1>1. LimiterInv => IdleForgotten
  <2>1. ASSUME LimiterInv, NEW a \in Addresses, ips[a] # None
        PROVE  ips[a].idle <= IdleTime + SweepTime + MaxDelay
    <3>1. LimiterTypeOK /\ ips[a].idle <= IdleTime + slept
      BY <2>1 DEF LimiterInv, IdleBound
    <3>2. ips[a].idle \in Nat /\ slept \in 0..(SweepTime + MaxDelay)
      BY <2>1, <3>1, EntryType DEF LimiterTypeOK
    <3> QED BY <3>1, <3>2, Sizes
  <2> QED BY <2>1 DEF IdleForgotten
<1> QED BY <1>1, LimiterInvAlways, PTL

-----------------------------------------------------------------------------
(* The limiter implements a bucket for each address. *)

BucketOf(a) == IF ips[a] = None THEN Burst ELSE tokens[ips[a].limiter]
ClientOf(r) == [ip |-> job[r].ip, state |-> IF Pending(r) THEN "asking" ELSE job[r].at]

Buckets == [a \in Addresses |-> BucketOf(a)]
Clients == [r \in Requests |-> ClientOf(r)]

\* A bucket is never over-full.
LEMMA BucketSize ==
    LimiterInv => \A a \in Addresses : BucketOf(a) \in Nat /\ BucketOf(a) <= Burst
<1> SUFFICES ASSUME LimiterInv, NEW a \in Addresses
             PROVE  BucketOf(a) \in Nat /\ BucketOf(a) <= Burst
  OBVIOUS
<1>1. ips[a] # None => tokens[ips[a].limiter] \in 0..Burst
  BY EntryType DEF LimiterInv, LimiterTypeOK
<1> QED BY <1>1, Sizes DEF BucketOf

LEMMA BucketInit == Init => Bucket!Init
<1> SUFFICES ASSUME Init PROVE Bucket!Init
  OBVIOUS
<1>1. \A a \in Addresses : ips[a] = None
  BY DEF Init, LimiterInit
<1>2. \A r \in Requests : job[r].at = "away" /\ job[r].ip = Away.ip
  BY AwayJob DEF Init, LimiterInit
<1>3. \A r \in Requests : ClientOf(r) = Bucket!Away
  BY <1>2 DEF Bucket!Away, Away, ClientOf, Pending, In
<1> QED BY <1>1, <1>3 DEF Bucket!Init, ClientOf

\* A step that moves no request and no token of an address is a stutter.
LEMMA Stutter ==
    ASSUME \A a \in Addresses : BucketOf(a)' = BucketOf(a),
           \A r \in Requests : ClientOf(r)' = ClientOf(r)
    PROVE  UNCHANGED <<Buckets, Clients>>
BY DEF Buckets, Clients

\* Steps of one request change what it is at only.
LEMMA OneClient ==
    ASSUME NEW r \in Requests, \A q \in Requests : q # r => job'[q] = job[q]
    PROVE  Clients' = [Clients EXCEPT ![r] = ClientOf(r)']
<1>1. \A q \in Requests : q # r => ClientOf(q)' = ClientOf(q)
  BY DEF ClientOf, Pending, In
<1> QED BY <1>1 DEF Clients

LEMMA ArriveAsks ==
    ASSUME LimiterInv, NEW r \in Requests, NEW a \in Addresses, Arrive(r, a)
    PROVE  Bucket!Ask(r, a)
<1> DEFINE j == [Away EXCEPT !.at = "look", !.ip = a]
<1>1. j \in Jobs /\ j.at = "look" /\ j.ip = a
  BY AwayJob DEF Jobs
<1>2. job' = [job EXCEPT ![r] = j] /\ UNCHANGED <<ips, tokens>> /\ job[r].at = "away"
  BY DEF Arrive, In
<1> HIDE DEF j
<1>3. job'[r] = j /\ \A q \in Requests : q # r => job'[q] = job[q]
  BY <1>1, <1>2, JobsType DEF LimiterInv
<1>4. Clients' = [Clients EXCEPT ![r] = [ip |-> a, state |-> "asking"]]
  <2>1. ClientOf(r)' = [ip |-> a, state |-> "asking"]
    BY <1>1, <1>3 DEF ClientOf, Pending, In
  <2> QED BY <1>3, <2>1, OneClient
<1>5. Clients[r] = Bucket!Away
  <2>1. job[r].ip = Away.ip
    BY <1>2 DEF LimiterInv, AwayHome, Pending, In
  <2> QED BY <1>2, <2>1 DEF Clients, ClientOf, Pending, In, Bucket!Away, Away
<1>6. Buckets' = Buckets
  BY <1>2 DEF Buckets, BucketOf
<1> QED BY <1>4, <1>5, <1>6 DEF Bucket!Ask, Buckets, Clients, BucketOf, ClientOf

LEMMA LeaveLeaves ==
    ASSUME LimiterInv, NEW r \in Requests, Leave(r) PROVE Bucket!Leave(r)
<1>1. job'[r] = Away /\ \A q \in Requests : q # r => job'[q] = job[q]
  BY AwayJob, JobsType DEF Leave, LimiterInv
<1>2. Clients' = [Clients EXCEPT ![r] = Bucket!Away]
  <2>1. ClientOf(r)' = Bucket!Away
    BY <1>1, AwayJob DEF ClientOf, Pending, In, Bucket!Away, Away
  <2> QED BY <1>1, <2>1, OneClient
<1>3. Clients[r].state \in {"passed", "refused"}
  BY DEF Leave, Clients, ClientOf, Pending, In
<1>4. Buckets' = Buckets
  BY DEF Leave, Buckets, BucketOf
<1> QED BY <1>2, <1>3, <1>4 DEF Bucket!Leave, Buckets, Clients, BucketOf, ClientOf

LEMMA AllowAnswers ==
    ASSUME LimiterInv, NEW r \in Requests, Allow(r)
    PROVE  Bucket!Pass(r) \/ Bucket!Refuse(r)
<1>0. LimiterTypeOK /\ job[r].at = "allow"
  BY DEF LimiterInv, Allow, In
<1> PICK a \in Addresses, l \in Limiters : a = job[r].ip /\ l = job[r].limiter
  BY <1>0, JobAt
<1>1. ips[a] # None /\ ips[a].limiter = l
  BY <1>0, HeldEntry DEF Holds, In
<1>2. Buckets[a] = tokens[l] /\ tokens[l] \in 0..Burst
  BY <1>0, <1>1 DEF Buckets, BucketOf, LimiterTypeOK
<1>3. Clients[r].state = "asking" /\ Clients[r].ip = a
  BY <1>0 DEF Clients, ClientOf, Pending, In
<1>4. ASSUME NEW s \in {"passed", "refused"}, Answer(r, s)
      PROVE  Clients' = [Clients EXCEPT ![r] = [Bucket!Away EXCEPT !.state = s]]
  <2>1. job'[r] = [Away EXCEPT !.at = s] /\ \A q \in Requests : q # r => job'[q] = job[q]
    BY <1>0, <1>4, AnswerJob
  <2>2. job'[r].at = s /\ job'[r].ip = Away.ip
    BY <2>1, AwayJob DEF Jobs
  <2>3. ClientOf(r)' = [ip |-> Away.ip, state |-> s]
    BY <2>2 DEF ClientOf, Pending, In
  <2>4. [Bucket!Away EXCEPT !.state = s] = [ip |-> Away.ip, state |-> s]
    <3>1. Bucket!Away = [ip |-> Away.ip, state |-> "away"]
      BY DEF Bucket!Away, Away
    <3> QED BY <3>1
  <2> QED BY <2>1, <2>3, <2>4, OneClient
<1>5. UNCHANGED ips
  BY DEF Allow
<1>6. CASE tokens[l] > 0
  <2>1. tokens' = [tokens EXCEPT ![l] = @ - 1] /\ Answer(r, "passed")
    BY <1>6 DEF Allow
  <2>2. tokens'[l] = tokens[l] - 1 /\ \A k \in Limiters : k # l => tokens'[k] = tokens[k]
    BY <1>0, <1>1, <2>1 DEF LimiterTypeOK
  <2>3. \A b \in Addresses : b # a => BucketOf(b)' = BucketOf(b)
    <3>1. ASSUME NEW b \in Addresses, b # a, ips[b] # None PROVE tokens'[ips[b].limiter] = tokens[ips[b].limiter]
      <4>1. ips[b].limiter \in Limiters /\ ips[b].limiter # l
        BY <1>0, <1>1, <3>1, EntryType DEF LimiterInv, OwnLimiters
      <4> QED BY <2>2, <4>1
    <3> QED BY <1>5, <3>1 DEF BucketOf
  <2>4. BucketOf(a)' = BucketOf(a) - 1
    BY <1>1, <1>5, <2>2 DEF BucketOf
  <2>5. Buckets' = [Buckets EXCEPT ![a] = @ - 1]
    BY <1>1, <2>3, <2>4 DEF Buckets
  <2>6. Buckets' = [Buckets EXCEPT ![Clients[r].ip] = @ - 1] /\ Buckets[Clients[r].ip] > 0
    BY <1>2, <1>3, <1>6, <2>5
  <2>7. Clients' = [Clients EXCEPT ![r] = [Bucket!Away EXCEPT !.state = "passed"]]
    BY <1>4, <2>1
  <2>8. Bucket!Pass(r)
    BY <1>3, <2>6, <2>7 DEF Bucket!Pass, Buckets, Clients, BucketOf, ClientOf
  <2> QED BY <2>8
<1>7. CASE ~(tokens[l] > 0)
  <2>1. UNCHANGED tokens /\ Answer(r, "refused")
    BY <1>7 DEF Allow
  <2>2. Buckets[Clients[r].ip] = 0
    BY <1>2, <1>3, <1>7, Sizes
  <2>3. Clients' = [Clients EXCEPT ![r] = [Bucket!Away EXCEPT !.state = "refused"]]
    BY <1>4, <2>1
  <2>4. Buckets' = Buckets
    BY <1>5, <2>1 DEF Buckets, BucketOf
  <2>5. Bucket!Refuse(r)
    BY <1>3, <2>2, <2>3, <2>4 DEF Bucket!Refuse, Buckets, Clients, BucketOf, ClientOf
  <2> QED BY <2>5
<1> QED BY <1>6, <1>7

\* Looking up, or making, an entry is not noticed.
LEMMA GetLimiterStutters ==
    ASSUME LimiterInv, NEW r \in Requests, Look(r) \/ Stamp(r) \/ Add(r)
    PROVE  UNCHANGED <<Buckets, Clients>>
<1>0. LimiterTypeOK /\ Pending(r) /\ job[r] \in Jobs /\ job[r].ip \in Addresses /\ Entry(r) = ips[job[r].ip]
  BY JobAt DEF LimiterInv, Look, Stamp, Add, Pending, In, Entry
<1>1. ASSUME NEW l \in Limiters, Ask(r, l) PROVE \A q \in Requests : ClientOf(q)' = ClientOf(q)
  BY <1>0, <1>1, AskJob DEF ClientOf, Pending, In
<1>2. ASSUME Entry(r) # None, NEW n \in Nat, ips' = [ips EXCEPT ![job[r].ip].idle = n], UNCHANGED tokens
      PROVE  \A a \in Addresses : BucketOf(a)' = BucketOf(a)
  <2>1. /\ ips'[job[r].ip] # None /\ ips'[job[r].ip].limiter = Entry(r).limiter
        /\ \A b \in Addresses : b # job[r].ip => ips'[b] = ips[b]
    BY <1>0, <1>2, SeenAgain
  <2> QED BY <1>0, <1>2, <2>1 DEF BucketOf
<1>3. CASE Look(r)
  <2> DEFINE j == IF Entry(r) = None THEN [job[r] EXCEPT !.at = "add"]
                  ELSE [job[r] EXCEPT !.at = "stamp", !.limiter = Entry(r).limiter]
  <2>1. j.at \in {"add", "stamp"} /\ j.ip = job[r].ip
    BY <1>0 DEF Jobs
  <2>2. job' = [job EXCEPT ![r] = j] /\ UNCHANGED <<ips, tokens>>
    BY <1>3 DEF Look
  <2> HIDE DEF j
  <2>3. job'[r] = j /\ \A q \in Requests : q # r => job'[q] = job[q]
    BY <1>0, <2>2 DEF LimiterTypeOK
  <2>4. \A q \in Requests : ClientOf(q)' = ClientOf(q)
    BY <1>0, <2>1, <2>3 DEF ClientOf, Pending, In
  <2>5. \A a \in Addresses : BucketOf(a)' = BucketOf(a)
    BY <2>2 DEF BucketOf
  <2> QED BY <2>4, <2>5, Stutter
<1>4. CASE Stamp(r)
  <2>1. Entry(r) # None /\ job[r].stamp \in Nat /\ job[r].limiter \in Limiters
    <3>1. Holds(r) /\ job[r].stamp \in 0..MaxDelay /\ job[r].limiter \in Limiters
      BY <1>0, <1>4, JobAt DEF Stamp, Holds, In
    <3>2. job[r].stamp \in Nat
      BY <3>1, Sizes
    <3> QED BY <3>1, <3>2, HeldEntry
  <2> QED BY <1>1, <1>2, <1>4, <2>1, Stutter DEF Stamp
<1>5. CASE Add(r) /\ Entry(r) # None
  <2>1. Entry(r).limiter \in Limiters
    BY <1>0, <1>5, EntryType
  <2> QED BY <1>1, <1>2, <1>5, <2>1, Stutter DEF Add
<1>6. CASE Add(r) /\ Entry(r) = None
  <2> DEFINE e == [limiter |-> New, idle |-> 0]
  <2>1. /\ New \in Limiters /\ \A a \in Addresses : ips[a] # None => ips[a].limiter # New
    BY <1>6, NewType DEF Add, Unused
  <2>2. e \in Entries /\ e.limiter = New
    BY <2>1 DEF Entries
  <2>3. ips' = [ips EXCEPT ![job[r].ip] = e] /\ tokens' = [tokens EXCEPT ![New] = Burst] /\ Ask(r, New)
    BY <1>6 DEF Add
  <2> HIDE DEF e
  <2>4. ips'[job[r].ip] = e /\ e # None /\ \A b \in Addresses : b # job[r].ip => ips'[b] = ips[b]
    BY <1>0, <2>2, <2>3, Written, NoneType
  <2>5. tokens'[New] = Burst /\ \A k \in Limiters : k # New => tokens'[k] = tokens[k]
    BY <1>0, <2>1, <2>3 DEF LimiterTypeOK
  <2>6. ASSUME NEW a \in Addresses PROVE BucketOf(a)' = BucketOf(a)
    <3>1. CASE a = job[r].ip
      BY <1>0, <1>6, <2>2, <2>4, <2>5, <3>1 DEF BucketOf
    <3>2. CASE a # job[r].ip /\ ips[a] # None
      <4>1. ips'[a] = ips[a] /\ ips[a].limiter \in Limiters /\ ips[a].limiter # New
        BY <1>0, <2>1, <2>4, <3>2, EntryType
      <4> QED BY <2>5, <4>1 DEF BucketOf
    <3>3. CASE a # job[r].ip /\ ips[a] = None
      BY <2>4, <3>3 DEF BucketOf
    <3> QED BY <3>1, <3>2, <3>3
  <2> QED BY <1>1, <2>1, <2>3, <2>6, Stutter
<1> QED BY <1>3, <1>4, <1>5, <1>6

\* What is forgotten had a full bucket.
LEMMA SweepStutters ==
    ASSUME LimiterInv, Sweep PROVE UNCHANGED <<Buckets, Clients>>
<1>1. ASSUME NEW a \in Addresses PROVE BucketOf(a)' = BucketOf(a)
  <2>1. CASE Expired(a)
    <3>1. ips[a] # None /\ ips[a].idle > IdleTime
      BY <2>1 DEF Expired
    <3>2. ips[a].idle \in Nat /\ tokens[ips[a].limiter] \in 0..Burst
      BY <3>1, EntryType DEF LimiterInv
    <3>3. tokens[ips[a].limiter] = Burst \/ tokens[ips[a].limiter] >= Grown(ips[a].idle)
      BY <3>1 DEF LimiterInv, GrowsUnseen
    <3>4. Grown(ips[a].idle) \in Int /\ Grown(ips[a].idle) >= Burst
      BY <3>1, <3>2, GrownFull, GrownNext
    <3>5. tokens[ips[a].limiter] = Burst
      BY <3>2, <3>3, <3>4, Sizes
    <3> QED BY <2>1, <3>1, <3>5 DEF Sweep, BucketOf
  <2>2. CASE ~Expired(a)
    BY <2>2 DEF Sweep, BucketOf
  <2> QED BY <2>1, <2>2
<1>2. \A r \in Requests : ClientOf(r)' = ClientOf(r)
  BY DEF Sweep, ClientOf, Pending, In
<1> QED BY <1>1, <1>2, Stutter

LEMMA TickRefills ==
    ASSUME LimiterInv, Tick PROVE Bucket!Refill
<1>1. ASSUME NEW a \in Addresses PROVE BucketOf(a)' = Filled(BucketOf(a))
  <2>1. CASE ips[a] = None
    <3>1. Filled(Burst) = Burst
      BY Sizes DEF Filled
    <3> QED BY <2>1, <3>1, TickEntry DEF BucketOf
  <2>2. CASE ips[a] # None
    <3>1. ips[a].limiter \in Limiters
      BY <2>2, EntryType DEF LimiterInv
    <3>2. tokens'[ips[a].limiter] = Filled(tokens[ips[a].limiter])
      BY <3>1 DEF Tick
    <3> QED BY <2>2, <3>2, TickEntry DEF BucketOf
  <2> QED BY <2>1, <2>2
<1>2. \A r \in Requests : ClientOf(r)' = ClientOf(r)
  BY TickJob DEF ClientOf, Pending, In
<1>3. Clients' = Clients
  BY <1>2 DEF Clients
<1>4. Buckets' = [a \in Addresses |-> Filled(Buckets[a])]
  BY <1>1 DEF Buckets
<1>5. \A n : Filled(n) = Bucket!Filled(n)
  BY DEF Filled, Bucket!Filled
<1>6. Buckets' = [a \in Addresses |-> Bucket!Filled(Buckets[a])]
  BY <1>4, <1>5
<1> QED BY <1>3, <1>6 DEF Bucket!Refill, Buckets, Clients, BucketOf, ClientOf

LEMMA BucketStep ==
    ASSUME LimiterInv, load \in Workloads, [Next]_vars
    PROVE  Bucket!Next \/ UNCHANGED <<Buckets, Clients>>
<1>1. CASE LimiterNext
  BY <1>1, ArriveAsks, GetLimiterStutters, AllowAnswers, LeaveLeaves, SweepStutters, TickRefills
     DEF LimiterNext, Bucket!Next
<1>2. CASE UNCHANGED limiterVars
  BY <1>2 DEF limiterVars, Buckets, Clients, BucketOf, ClientOf, Pending, In
<1> QED BY <1>1, <1>2, LimiterSteps

\* RateLimitMiddleware serves each address as if it had a bucket of its own for
\* ever, whatever cleanupVisitors forgets and getLimiter makes anew.
THEOREM BucketsImplemented == Spec => BucketSpec
<1>1. ASSUME LimiterInv, load \in Workloads, [Next]_vars
      PROVE  [Bucket!Next]_<<Buckets, Clients>>
  BY <1>1, BucketStep
<1>2. LimiterInv /\ load \in Workloads /\ [Next]_vars => [Bucket!Next]_<<Buckets, Clients>>
  BY <1>1
<1>3. (LimiterInv /\ load \in Workloads) /\ [Next]_vars
      => [Bucket!Next]_<<Buckets, Clients>>
  BY <1>2
<1> QED BY <1>3, BucketInit, LimiterInvAlways, PTL
        DEF Spec, BucketSpec, Bucket!Spec, Buckets, Clients, BucketOf, ClientOf

-----------------------------------------------------------------------------
(* No address gets more than its rate, in any window. *)

\* A request that passes takes a token from the bucket of its address, and no
\* other step lets one pass or adds a token.
LEMMA PassesTake ==
    ASSUME LimiterInv, LimiterNext, ~Tick, NEW a \in Addresses
    PROVE  /\ Cardinality(LetPass(a)) \in Nat
           /\ Cardinality(LetPass(a)) + BucketOf(a)' <= BucketOf(a)
<1>1. BucketOf(a) \in Nat
  BY BucketSize
<1>2. ASSUME LetPass(a) = {}, BucketOf(a)' = BucketOf(a)
      PROVE  /\ Cardinality(LetPass(a)) \in Nat
             /\ Cardinality(LetPass(a)) + BucketOf(a)' <= BucketOf(a)
  BY <1>1, <1>2, FS_EmptySet
<1>3. ASSUME Buckets' = Buckets PROVE BucketOf(a)' = BucketOf(a)
  <2>1. Buckets'[a] = BucketOf(a)' /\ Buckets[a] = BucketOf(a)
    BY DEF Buckets
  <2> QED BY <1>3, <2>1
<1>4. ASSUME NEW r \in Requests, NEW b \in Addresses, Arrive(r, b)
      PROVE  LetPass(a) = {} /\ BucketOf(a)' = BucketOf(a)
  <2>1. \A q \in Requests : q # r => job'[q] = job[q]
    BY <1>4 DEF Arrive, LimiterInv, LimiterTypeOK
  <2> QED BY <1>4, <2>1 DEF Arrive, LetPass, In, BucketOf
<1>5. ASSUME NEW r \in Requests, Look(r) \/ Stamp(r) \/ Add(r)
      PROVE  LetPass(a) = {} /\ BucketOf(a)' = BucketOf(a)
  <2>1. UNCHANGED <<Buckets, Clients>>
    BY <1>5, GetLimiterStutters
  <2>2. ASSUME NEW q \in Requests, In(q, "allow"), job'[q].at = "passed" PROVE FALSE
    <3>1. Clients[q].state = "asking" /\ Clients'[q].state = "passed"
      BY <2>2 DEF Clients, ClientOf, Pending, In
    <3> QED BY <2>1, <3>1
  <2> QED BY <1>3, <2>1, <2>2 DEF LetPass
<1>6. ASSUME NEW r \in Requests, Leave(r)
      PROVE  LetPass(a) = {} /\ BucketOf(a)' = BucketOf(a)
  <2>1. \A q \in Requests : q # r => job'[q] = job[q]
    BY <1>6 DEF Leave, LimiterInv, LimiterTypeOK
  <2> QED BY <1>6, <2>1 DEF Leave, LetPass, In, BucketOf
<1>7. ASSUME Sweep PROVE LetPass(a) = {} /\ BucketOf(a)' = BucketOf(a)
  <2>1. UNCHANGED <<Buckets, Clients>>
    BY <1>7, SweepStutters
  <2> QED BY <1>3, <1>7, <2>1 DEF Sweep, LetPass, In
<1>8. ASSUME NEW r \in Requests, Allow(r)
      PROVE  /\ Cardinality(LetPass(a)) \in Nat
             /\ Cardinality(LetPass(a)) + BucketOf(a)' <= BucketOf(a)
  <2>1. \A q \in Requests : q # r => job'[q] = job[q]
    BY <1>8 DEF Allow, Answer, LimiterInv, LimiterTypeOK
  <2>2. LetPass(a) \subseteq {r}
    BY <2>1 DEF LetPass, In
  <2>3. Clients[r].ip = job[r].ip /\ (Clients'[r].state = "passed" <=> job'[r].at = "passed")
    BY DEF Clients, ClientOf, Pending, In
  <2>4. CASE Bucket!Refuse(r)
    <3>1. Buckets' = Buckets /\ Clients'[r].state = "refused"
      BY <2>4 DEF Bucket!Refuse, Bucket!Away, Buckets, Clients, BucketOf, ClientOf
    <3>2. LetPass(a) = {}
      BY <2>2, <2>3, <3>1 DEF LetPass
    <3> QED BY <1>2, <1>3, <3>1, <3>2
  <2>5. CASE Bucket!Pass(r)
    <3>1. Buckets' = [Buckets EXCEPT ![job[r].ip] = @ - 1]
      BY <2>3, <2>5 DEF Bucket!Pass, Buckets, Clients, BucketOf, ClientOf
    <3>2. BucketOf(a)' = IF job[r].ip = a THEN BucketOf(a) - 1 ELSE BucketOf(a)
      <4>1. Buckets'[a] = BucketOf(a)' /\ Buckets[a] = BucketOf(a) /\ a \in DOMAIN Buckets
        BY DEF Buckets
      <4> QED BY <3>1, <4>1
    <3>3. CASE job[r].ip = a /\ LetPass(a) = {r}
      <4>1. Cardinality(LetPass(a)) = 1
        BY <3>3, FS_Singleton
      <4> QED BY <1>1, <3>2, <3>3, <4>1
    <3>4. CASE LetPass(a) = {}
      BY <1>1, <3>2, <3>4, FS_EmptySet
    <3>5. job[r].ip # a => LetPass(a) = {}
      BY <2>2 DEF LetPass
    <3> QED BY <2>2, <3>3, <3>4, <3>5
  <2> QED BY <1>8, <2>4, <2>5, AllowAnswers
<1> QED BY <1>2, <1>4, <1>5, <1>6, <1>7, <1>8 DEF LimiterNext

\* A tick adds Rate tokens at most, and lets nothing pass.
LEMMA TickAdds ==
    ASSUME LimiterInv, Tick, NEW a \in Addresses
    PROVE  Cardinality(LetPass(a)) = 0 /\ BucketOf(a)' <= BucketOf(a) + Rate
<1>1. LetPass(a) = {}
  BY TickJob DEF LetPass, In
<1>2. Bucket!Refill
  BY TickRefills
<1>3. BucketOf(a)' = Bucket!Filled(BucketOf(a))
  BY <1>2 DEF Bucket!Refill, Buckets, BucketOf
<1>4. BucketOf(a)' <= BucketOf(a) + Rate
  BY <1>3, BucketSize, Sizes DEF Bucket!Filled
<1> QED BY <1>1, <1>4, FS_EmptySet

\* What passed in the window and what is left in the bucket come out of a burst
\* and the ticks of the window.
Measures ==
    /\ passed \in [Addresses -> Nat] /\ elapsed \in Nat
    /\ \A a \in Addresses : passed[a] + BucketOf(a) <= Burst + Rate * elapsed

LEMMA ReopenMeasures ==
    ASSUME LimiterInv', Reopen PROVE Measures'
<1>1. (\A a \in Addresses : BucketOf(a) \in Nat /\ BucketOf(a) <= Burst)'
  BY BucketSize, PTL
<1>2. Rate * 0 = 0
  BY Sizes
<1> QED BY <1>1, <1>2, Sizes DEF Reopen, Measures

LEMMA ContinueMeasures ==
    ASSUME LimiterInv, LimiterInv', Measures, LimiterNext \/ UNCHANGED limiterVars, Continue
    PROVE  Measures'
<1> DEFINE n(a) == Cardinality(LetPass(a))
<1>1. \A a \in Addresses : BucketOf(a) \in Nat /\ BucketOf(a)' \in Nat
  <2>1. (\A a \in Addresses : BucketOf(a) \in Nat /\ BucketOf(a) <= Burst)'
    BY BucketSize, PTL
  <2> QED BY <2>1, BucketSize
<1>2. passed' = [a \in Addresses |-> passed[a] + n(a)]
  BY DEF Continue
<1>3. \A a \in Addresses : passed[a] \in Nat /\ passed[a] + BucketOf(a) <= Burst + Rate * elapsed
  BY DEF Measures
<1> HIDE DEF n
<1>4. CASE Tick
  <2>1. elapsed' = elapsed + 1 /\ elapsed \in Nat
    BY <1>4 DEF Continue, Measures
  <2>2. Rate * elapsed' = Rate * elapsed + Rate /\ Rate * elapsed \in Nat
    BY <2>1, Sizes
  <2>3. \A a \in Addresses : n(a) = 0 /\ BucketOf(a)' <= BucketOf(a) + Rate
    BY <1>4, TickAdds DEF n
  <2> QED BY <1>1, <1>2, <1>3, <2>1, <2>2, <2>3, Sizes DEF Measures
<1>5. CASE ~Tick
  <2>1. elapsed' = elapsed /\ elapsed \in Nat /\ Rate * elapsed \in Nat
    BY <1>5, Sizes DEF Continue, Measures
  <2>2. ASSUME NEW a \in Addresses PROVE n(a) \in Nat /\ n(a) + BucketOf(a)' <= BucketOf(a)
    <3>1. CASE LimiterNext
      BY <1>5, <3>1, PassesTake DEF n
    <3>2. CASE UNCHANGED limiterVars
      <4>1. LetPass(a) = {} /\ BucketOf(a)' = BucketOf(a)
        BY <3>2 DEF limiterVars, LetPass, In, BucketOf
      <4> QED BY <1>1, <4>1, FS_EmptySet DEF n
    <3> QED BY <3>1, <3>2
  <2> QED BY <1>1, <1>2, <1>3, <2>1, <2>2, Sizes DEF Measures
<1> QED BY <1>4, <1>5

\* WithinRate: in any window an address gets at most a burst and its rate times
\* the window, for all rates, bursts, delays and numbers of concurrent requests,
\* though the map forgets the address and makes new limiters for it.
THEOREM NoAddressAboveRate == WindowSpec => []WithinRate
<1>1. WindowSpec => Spec
  <2>1. WindowInit => Init
    BY DEF WindowInit
  <2>2. [WindowNext]_<<vars, windowVars>> => [Next]_vars
    BY DEF WindowNext
  <2> QED BY <2>1, <2>2, PTL DEF WindowSpec, Spec
<1>2. ASSUME LimiterInv, WindowInit PROVE Measures
  BY <1>2, BucketSize, Sizes DEF WindowInit, Measures
<1>3. ASSUME LimiterInv, LimiterInv', load \in Workloads, Measures, [WindowNext]_<<vars, windowVars>>
      PROVE  Measures'
  <2>1. LimiterNext \/ UNCHANGED limiterVars
    BY <1>3, LimiterSteps DEF WindowNext
  <2>2. CASE Reopen
    BY <1>3, <2>2, ReopenMeasures
  <2>3. CASE Continue
    BY <1>3, <2>1, <2>3, ContinueMeasures
  <2>4. CASE UNCHANGED <<vars, windowVars>>
    BY <1>3, <2>4 DEF vars, windowVars, limiterVars, Measures, BucketOf
  <2> QED BY <1>3, <2>2, <2>3, <2>4 DEF WindowNext
<1>4. ASSUME LimiterInv, Measures PROVE WithinRate
  <2>1. PICK k \in Int : k = Rate * elapsed
    BY <1>4, Sizes DEF Measures
  <2>2. ASSUME NEW a \in Addresses PROVE passed[a] <= Burst + k
    <3>1. passed[a] \in Nat /\ passed[a] + BucketOf(a) <= Burst + k
      BY <1>4, <2>1 DEF Measures
    <3>2. BucketOf(a) \in Nat
      BY <1>4, BucketSize
    <3> QED BY <2>1, <3>1, <3>2, Sizes
  <2> QED BY <2>1, <2>2 DEF WithinRate
<1>5. LimiterInv /\ WindowInit => Measures
  BY <1>2
<1>6. LimiterInv /\ LimiterInv' /\ load \in Workloads /\ Measures /\ [WindowNext]_<<vars, windowVars>> => Measures'
  BY <1>3
<1>7. LimiterInv /\ Measures => WithinRate
  BY <1>4
<1> QED BY <1>1, <1>5, <1>6, <1>7, LimiterInvAlways, PTL DEF WindowSpec

-----------------------------------------------------------------------------
(* Registration and login. *)

Calls == [at : {"none", "register", "insert", "login", "service", "answered"},
          creds : Credentials, token : {NoUser} \cup Ids, header : {NoUser} \cup Ids]

UserTypeOK ==
    /\ users \in Seq(Credentials) /\ accepted \in Seq(Credentials)
    /\ call \in [Requests -> Calls]
    /\ issued \subseteq [creds : Credentials, id : Ids]
    /\ acted \subseteq [shown : Ids, user : Ids]
    /\ faults \in 0..MaxFaults /\ load \in Workloads

\* The unique index.
NamesUnique == \A i, j \in Ids : users[i].name = users[j].name => i = j

\* Who was answered 201 has a row.
AcceptedHaveRows == \A i \in DOMAIN accepted : \E k \in Ids : users[k] = accepted[i]

AcceptedOnce ==
    \A i, j \in DOMAIN accepted : accepted[i].name = accepted[j].name => i = j

IssuedForRows == \A i \in issued : users[i.id] = i.creds

\* The header a service reads was set from a token that was issued.
HeaderShown ==
    \A r \in Requests : call[r].at = "service" =>
        call[r].header = call[r].token /\ \E i \in issued : i.id = call[r].token

ActedOwned == \A x \in acted : x.user = x.shown /\ \E i \in issued : i.id = x.user

UserInv ==
    /\ UserTypeOK
    /\ NamesUnique
    /\ AcceptedHaveRows
    /\ AcceptedOnce
    /\ IssuedForRows
    /\ HeaderShown
    /\ ActedOwned

LEMMA NoCallType ==
    /\ NoCall.at = "none" /\ NoCall.creds \in Credentials
    /\ NoCall.token = NoUser /\ NoCall.header = NoUser /\ NoCall \in Calls
<1>1. (CHOOSE c \in Credentials : TRUE) \in Credentials
  BY CredentialsAssumption
<1> QED BY <1>1 DEF NoCall, Calls

LEMMA CallAt ==
    ASSUME UserTypeOK, NEW r \in Requests
    PROVE  call[r] \in Calls /\ Creds(r) \in Credentials
BY DEF UserTypeOK, Calls, Creds

\* Steps that write no row, accept nothing and issue nothing: one request moves,
\* and if to a service, then with a token that was issued.
LEMMA MoveKeeps ==
    ASSUME UserInv, UNCHANGED <<users, accepted, issued, acted, load>>,
           faults' \in 0..MaxFaults,
           NEW r \in Requests, NEW c \in Calls, call' = [call EXCEPT ![r] = c],
           c.at = "service" => c.header = c.token /\ \E i \in issued : i.id = c.token
    PROVE  UserInv'
<1>1. call' \in [Requests -> Calls] /\ call'[r] = c
      /\ \A q \in Requests : q # r => call'[q] = call[q]
  BY DEF UserInv, UserTypeOK
<1>2. Calls' = Calls /\ Ids' = Ids
  BY DEF Calls, Ids
<1>3. UserTypeOK'
  BY <1>1, <1>2 DEF UserInv, UserTypeOK
<1>4. NamesUnique' /\ AcceptedHaveRows' /\ AcceptedOnce' /\ IssuedForRows' /\ ActedOwned'
  BY <1>2 DEF UserInv, NamesUnique, AcceptedHaveRows, AcceptedOnce, IssuedForRows, ActedOwned
<1>5. HeaderShown'
  BY <1>1 DEF UserInv, HeaderShown
<1> QED BY <1>3, <1>4, <1>5 DEF UserInv

LEMMA FaultType ==
    ASSUME UserTypeOK, Fault \/ UNCHANGED faults PROVE faults' \in 0..MaxFaults
<1>1. MaxFaults \in Nat /\ faults \in 0..MaxFaults
  BY CredentialsAssumption DEF UserTypeOK
<1> QED BY <1>1 DEF Fault

LEMMA AnsweredCall ==
    ASSUME UserTypeOK, NEW r \in Requests, Finish(r)
    PROVE  \E c \in Calls : c.at = "answered" /\ call' = [call EXCEPT ![r] = c]
<1> DEFINE c == [NoCall EXCEPT !.at = "answered"]
<1>1. c \in Calls /\ c.at = "answered"
  BY NoCallType DEF Calls
<1> QED BY <1>1 DEF Finish

LEMMA CountKeeps ==
    ASSUME UserInv, NEW r \in Requests, Count(r), UNCHANGED <<acted, load>> PROVE UserInv'
<1>1. UserTypeOK /\ UNCHANGED <<users, accepted, issued>> /\ (Fault \/ UNCHANGED faults)
  BY DEF UserInv, Count
<1>2. faults' \in 0..MaxFaults
  BY <1>1, FaultType
<1>3. CASE Reaches(r, "insert")
  <2> DEFINE c == [call[r] EXCEPT !.at = "insert"]
  <2>1. c \in Calls /\ c.at = "insert"
    BY <1>1, CallAt DEF Calls
  <2>2. call' = [call EXCEPT ![r] = c]
    BY <1>3 DEF Reaches
  <2> HIDE DEF c
  <2> QED BY <1>1, <1>2, <2>1, <2>2, MoveKeeps
<1>4. CASE Finish(r)
  BY <1>1, <1>2, <1>4, AnsweredCall, MoveKeeps
<1> QED BY <1>3, <1>4 DEF Count

\* A row is added.
LEMMA NewRow ==
    ASSUME users \in Seq(Credentials), NEW c \in Credentials, users' = Append(users, c)
    PROVE  /\ users' \in Seq(Credentials)
           /\ Len(users) \in Nat /\ Len(users)' = Len(users) + 1
           /\ users'[Len(users) + 1] = c
           /\ \A i \in Ids : i \in Ids' /\ users'[i] = users[i]
           /\ \A i \in Ids' : i \in Ids \/ i = Len(users) + 1
<1>1. /\ users' \in Seq(Credentials) /\ Len(users') = Len(users) + 1 /\ Len(users) \in Nat
      /\ users'[Len(users) + 1] = c /\ \A i \in 1..Len(users) : users'[i] = users[i]
  BY AppendProperties
<1> QED BY <1>1 DEF Ids

LEMMA InsertKeeps ==
    ASSUME UserInv, NEW r \in Requests, Insert(r), UNCHANGED <<acted, load>> PROVE UserInv'
<1>0. UserTypeOK /\ UNCHANGED issued /\ (Fault \/ UNCHANGED faults)
  BY DEF UserInv, Insert
<1>1. faults' \in 0..MaxFaults
  BY <1>0, FaultType
<1>2. Creds(r) \in Credentials
  BY <1>0, CallAt
<1>3. PICK d \in Calls : d.at = "answered" /\ call' = [call EXCEPT ![r] = d]
  BY <1>0, AnsweredCall DEF Insert
<1>4. CASE UNCHANGED <<users, accepted>>
  BY <1>0, <1>1, <1>3, <1>4, MoveKeeps
<1>5. CASE /\ Row(Creds(r).name) = {} /\ users' = Append(users, Creds(r))
           /\ accepted' = Append(accepted, Creds(r)) \/ UNCHANGED accepted
  <2> DEFINE n == Len(users) + 1
  <2>1. /\ users' \in Seq(Credentials) /\ n \in Nat /\ n \notin Ids /\ n \in Ids'
        /\ users'[n] = Creds(r)
        /\ \A i \in Ids : i \in Ids' /\ users'[i] = users[i]
        /\ \A i \in Ids' : i \in Ids \/ i = n
    BY <1>0, <1>2, <1>5, NewRow DEF UserTypeOK, Ids
  <2> HIDE DEF n
  <2>2. \A i \in Ids : users[i].name # Creds(r).name
    BY <1>5 DEF Row
  <2>3. Ids \subseteq Ids'
    BY <2>1
  <2>4. /\ accepted \in Seq(Credentials) /\ accepted' \in Seq(Credentials)
        /\ \A i \in DOMAIN accepted : i \in DOMAIN accepted' /\ accepted'[i] = accepted[i]
        /\ \A i \in DOMAIN accepted' :
              i \in DOMAIN accepted \/ (i = Len(accepted) + 1 /\ accepted'[i] = Creds(r))
    <3>1. accepted \in Seq(Credentials)
      BY <1>0 DEF UserTypeOK
    <3>2. CASE accepted' = Append(accepted, Creds(r))
      BY <1>2, <3>1, <3>2, AppendProperties
    <3> QED BY <1>5, <3>1, <3>2
  <2>5. \A i \in DOMAIN accepted : accepted[i].name # Creds(r).name
    BY <2>2 DEF UserInv, AcceptedHaveRows
  <2>6. UserTypeOK'
    <3>1. call' \in [Requests -> Calls]
      BY <1>0, <1>3 DEF UserTypeOK
    <3>2. Calls \subseteq Calls'
      BY <2>3 DEF Calls
    <3>3. call' \in [Requests -> Calls']
      BY <3>1, <3>2
    <3>4. issued' \subseteq [creds : Credentials, id : Ids'] /\ acted' \subseteq [shown : Ids', user : Ids']
      BY <1>0, <2>3 DEF UserTypeOK
    <3> QED BY <1>0, <1>1, <2>1, <2>4, <3>3, <3>4 DEF UserTypeOK
  <2>7. NamesUnique'
    <3>1. NamesUnique
      BY DEF UserInv
    <3> QED BY <2>1, <2>2, <3>1 DEF NamesUnique
  <2>8. AcceptedHaveRows'
    <3>1. AcceptedHaveRows
      BY DEF UserInv
    <3> QED BY <2>1, <2>4, <3>1 DEF AcceptedHaveRows
  <2>9. AcceptedOnce'
    <3>1. AcceptedOnce
      BY DEF UserInv
    <3> QED BY <2>4, <2>5, <3>1 DEF AcceptedOnce
  <2>10. IssuedForRows'
    BY <1>0, <2>1 DEF UserInv, UserTypeOK, IssuedForRows
  <2>11. HeaderShown'
    BY <1>0, <1>3 DEF UserInv, HeaderShown, UserTypeOK
  <2>12. ActedOwned'
    BY <1>0 DEF UserInv, ActedOwned
  <2> QED BY <2>6, <2>7, <2>8, <2>9, <2>10, <2>11, <2>12 DEF UserInv
<1> QED BY <1>4, <1>5 DEF Insert

\* The row a token is issued for is that of the name and password presented.
LEMMA LoginKeeps ==
    ASSUME UserInv, NEW r \in Requests, Login(r), UNCHANGED <<acted, load>> PROVE UserInv'
<1>0. UserTypeOK /\ UNCHANGED <<users, accepted>> /\ (Fault \/ UNCHANGED faults)
  BY DEF UserInv, Login
<1>1. faults' \in 0..MaxFaults
  BY <1>0, FaultType
<1>2. PICK d \in Calls : d.at = "answered" /\ call' = [call EXCEPT ![r] = d]
  BY <1>0, AnsweredCall DEF Login
<1>3. CASE UNCHANGED issued
  BY <1>0, <1>1, <1>2, <1>3, MoveKeeps
<1>4. ASSUME NEW u \in Scanned(Creds(r).name), Matches(u, Creds(r).password),
             issued' = issued \cup {[creds |-> Creds(r), id |-> u.id]}
      PROVE  UserInv'
  <2>1. /\ Creds(r) \in Credentials /\ Creds(r).password # ""
        /\ Creds(r) = [name |-> Creds(r).name, password |-> Creds(r).password]
    BY <1>0, CallAt, CredentialsAssumption
  <2>2. Row(Creds(r).name) # {}
    <3>1. Row(Creds(r).name) = {} => u.password = ""
      <4> SUFFICES ASSUME Row(Creds(r).name) = {} PROVE u.password = ""
        OBVIOUS
      <4>1. u = [id |-> NoUser, password |-> ""]
        BY <1>4 DEF Scanned
      <4> QED BY <4>1
    <3>2. u.password = Creds(r).password
      BY <1>4 DEF Matches
    <3> QED BY <2>1, <3>1, <3>2
  <2>3. u.id \in Ids /\ users[u.id].name = Creds(r).name /\ users[u.id].password = Creds(r).password
    <3>1. PICK i \in Row(Creds(r).name) : u = [id |-> i, password |-> users[i].password]
      BY <2>2 DEF Scanned
    <3>2. u.id = i /\ u.password = users[i].password
      BY <3>1
    <3> QED BY <1>4, <3>1, <3>2 DEF Row, Matches
  <2>4. users[u.id] \in Credentials
    BY <1>0, <2>3 DEF UserTypeOK, Ids
  <2>5. users[u.id] = Creds(r)
    BY <2>1, <2>3, <2>4, CredentialsAssumption
  <2>6. Ids' = Ids /\ Calls' = Calls
    BY <1>0 DEF Ids, Calls
  <2>7. UserTypeOK'
    <3>1. [creds |-> Creds(r), id |-> u.id] \in [creds : Credentials, id : Ids]
      BY <2>1, <2>3
    <3>2. issued' \subseteq [creds : Credentials, id : Ids]
      BY <1>0, <1>4, <3>1 DEF UserTypeOK
    <3>3. call' \in [Requests -> Calls]
      BY <1>0, <1>2 DEF UserTypeOK
    <3> QED BY <1>0, <1>1, <2>6, <3>2, <3>3 DEF UserTypeOK
  <2>8. IssuedForRows'
    BY <1>0, <1>4, <2>5 DEF UserInv, IssuedForRows
  <2>9. NamesUnique' /\ AcceptedHaveRows' /\ AcceptedOnce'
    BY <1>0, <2>6 DEF UserInv, NamesUnique, AcceptedHaveRows, AcceptedOnce
  <2>10. HeaderShown'
    BY <1>0, <1>2, <1>4 DEF UserInv, HeaderShown, UserTypeOK
  <2>11. ActedOwned'
    BY <1>4 DEF UserInv, ActedOwned
  <2> QED BY <2>7, <2>8, <2>9, <2>10, <2>11 DEF UserInv
<1> QED BY <1>3, <1>4 DEF Login

LEMMA ForwardKeeps ==
    ASSUME UserInv, NEW r \in Requests, Forward(r) PROVE UserInv'
<1>0. /\ UserTypeOK /\ faults' \in 0..MaxFaults
      /\ UNCHANGED <<users, accepted, issued, acted, load>>
  BY DEF UserInv, UserTypeOK, Forward
<1>1. CASE ForwardAuth(r)
  <2>1. PICK s \in {"register", "login"}, k \in load.creds :
           call' = [call EXCEPT ![r] = [NoCall EXCEPT !.at = s, !.creds = k]]
    BY <1>1 DEF ForwardAuth
  <2> DEFINE c == [NoCall EXCEPT !.at = s, !.creds = k]
  <2>2. k \in Credentials
    BY <1>0, WorkloadsAssumption DEF UserTypeOK
  <2>3. c \in Calls /\ c.at = s
    BY <2>2, NoCallType DEF Calls
  <2> HIDE DEF c
  <2>4. call' = [call EXCEPT ![r] = c]
    BY <2>1 DEF c
  <2> QED BY <1>0, <2>3, <2>4, MoveKeeps
<1>2. ASSUME NEW t \in {i.id : i \in issued}, NEW x \in {NoUser} \cup Ids, ForwardUser(r, t, x)
      PROVE  UserInv'
  <2> DEFINE c == [NoCall EXCEPT !.at = "service", !.token = t, !.header = t]
  <2>1. t \in Ids /\ \E i \in issued : i.id = t
    BY <1>0 DEF UserTypeOK
  <2>2. c.header = t /\ c.token = t
    BY NoCallType DEF Calls
  <2>3. c \in Calls
    BY <2>1, NoCallType DEF Calls
  <2>4. call' = [call EXCEPT ![r] = c]
    BY <1>2 DEF ForwardUser
  <2> HIDE DEF c
  <2> QED BY <1>0, <2>1, <2>2, <2>3, <2>4, MoveKeeps
<1>3. CASE Finish(r)
  BY <1>0, <1>3, AnsweredCall, MoveKeeps
<1> QED BY <1>1, <1>2, <1>3 DEF Forward

LEMMA ReplyKeeps ==
    ASSUME UserInv, NEW r \in Requests, Reply(r) PROVE UserInv'
<1>1. /\ UserTypeOK /\ faults' \in 0..MaxFaults /\ call' = [call EXCEPT ![r] = NoCall]
      /\ UNCHANGED <<users, accepted, issued, acted, load>>
  BY DEF UserInv, UserTypeOK, Reply
<1> QED BY <1>1, NoCallType, MoveKeeps

\* A service acts for the user of the header, which is that of the token.
LEMMA RequireUserKeeps ==
    ASSUME UserInv, NEW r \in Requests, RequireUser(r) PROVE UserInv'
<1>0. /\ UserTypeOK /\ call[r] \in Calls /\ call[r].at = "service"
      /\ UNCHANGED <<users, accepted, issued, load, faults>> /\ Finish(r)
  BY CallAt DEF UserInv, RequireUser
<1>1. PICK d \in Calls : d.at = "answered" /\ call' = [call EXCEPT ![r] = d]
  BY <1>0, AnsweredCall
<1>2. call[r].header = call[r].token /\ \E i \in issued : i.id = call[r].token
  BY <1>0 DEF UserInv, HeaderShown
<1>3. call[r].token \in Ids
  BY <1>0, <1>2 DEF UserTypeOK
<1>4. Ids' = Ids /\ Calls' = Calls
  BY <1>0 DEF Ids, Calls
<1>5. acted' \subseteq acted \cup {[shown |-> call[r].token, user |-> call[r].token]}
  BY <1>2 DEF RequireUser
<1>6. UserTypeOK'
  <2>1. acted' \subseteq [shown : Ids, user : Ids]
    BY <1>0, <1>3, <1>5 DEF UserTypeOK
  <2>2. call' \in [Requests -> Calls]
    BY <1>0, <1>1 DEF UserTypeOK
  <2> QED BY <1>0, <1>4, <2>1, <2>2 DEF UserTypeOK
<1>7. NamesUnique' /\ AcceptedHaveRows' /\ AcceptedOnce' /\ IssuedForRows'
  BY <1>0, <1>4 DEF UserInv, NamesUnique, AcceptedHaveRows, AcceptedOnce, IssuedForRows
<1>8. HeaderShown'
  BY <1>0, <1>1 DEF UserInv, HeaderShown, UserTypeOK
<1>9. ActedOwned'
  BY <1>0, <1>2, <1>5 DEF UserInv, ActedOwned
<1> QED BY <1>6, <1>7, <1>8, <1>9 DEF UserInv

LEMMA UserInvStep ==
    ASSUME UserInv, [Next]_vars PROVE UserInv'
<1>1. ASSUME UNCHANGED <<userVars, load, acted>> PROVE UserInv'
  BY <1>1 DEF userVars, UserInv, UserTypeOK, Calls, Ids, NamesUnique, AcceptedHaveRows,
     AcceptedOnce, IssuedForRows, HeaderShown, ActedOwned
<1>2. ASSUME NEW r \in Requests, Advance(r) PROVE UserInv'
  <2>1. CASE Handle(r) /\ UNCHANGED <<limiterVars, load, acted>>
    BY <2>1, CountKeeps, InsertKeeps, LoginKeeps DEF Handle
  <2> QED BY <1>1, <1>2, <2>1, ForwardKeeps, RequireUserKeeps, ReplyKeeps DEF Advance, InLimiter
<1> QED BY <1>1, <1>2 DEF Next, InLimiter, vars

LEMMA UserInvInit == Init => UserInv
<1> SUFFICES ASSUME Init PROVE UserInv
  OBVIOUS
<1>1. /\ users = <<>> /\ accepted = <<>> /\ issued = {} /\ acted = {} /\ faults = 0
      /\ load \in Workloads /\ call = [r \in Requests |-> NoCall]
  BY DEF Init
<1>2. Ids = {} /\ DOMAIN accepted = {}
  BY <1>1 DEF Ids
<1>3. UserTypeOK
  <2>1. users \in Seq(Credentials) /\ accepted \in Seq(Credentials)
    BY <1>1
  <2>2. faults \in 0..MaxFaults
    <3>1. MaxFaults \in Nat
      BY CredentialsAssumption
    <3> QED BY <1>1, <3>1
  <2>3. call \in [Requests -> Calls]
    BY <1>1, NoCallType
  <2> QED BY <1>1, <2>1, <2>2, <2>3 DEF UserTypeOK
<1> QED BY <1>1, <1>2, <1>3, NoCallType DEF UserInv, NamesUnique, AcceptedHaveRows,
        AcceptedOnce, IssuedForRows, HeaderShown, ActedOwned

LEMMA UserInvAlways == Spec => []UserInv
<1> QED BY UserInvInit, UserInvStep, PTL DEF Spec

\* RegisterHandler accepts a name once, however registrations race and fail.
THEOREM RegisteredOnceAlways == Spec => []RegisteredOnce
<1>1. UserInv => RegisteredOnce
  <2> SUFFICES ASSUME UserInv PROVE RegisteredOnce
    OBVIOUS
  <2>1. ASSUME NEW i \in DOMAIN accepted
        PROVE  \E k \in Ids : Row(accepted[i].name) = {k} /\ users[k] = accepted[i]
    <3>1. PICK k \in Ids : users[k] = accepted[i]
      BY DEF UserInv, AcceptedHaveRows
    <3>2. Row(accepted[i].name) = {k}
      BY <3>1 DEF UserInv, NamesUnique, Row
    <3> QED BY <3>1, <3>2
  <2> QED BY <2>1 DEF RegisteredOnce, UserInv, AcceptedOnce
<1> QED BY <1>1, UserInvAlways, PTL

\* A service acts only for the user whose name and password bought the token.
THEOREM TokensOwnedAlways == Spec => []TokensAreOwned
<1>1. UserInv => TokensAreOwned
  BY DEF UserInv, UserTypeOK, IssuedForRows, ActedOwned, TokensAreOwned
<1> QED BY <1>1, UserInvAlways, PTL

\* Every variable stays in its domain.
THEOREM TypeAlways == Spec => []TypeOK
<1>1. LimiterInv /\ UserInv => TypeOK
  BY DEF LimiterInv, LimiterTypeOK, UserInv, UserTypeOK, Calls, TypeOK
<1> QED BY <1>1, LimiterInvAlways, UserInvAlways, PTL

=============================================================================
