------------------------------ MODULE UserApi -------------------------------
(***************************************************************************)
(* Registration and login, interaction/internal/api/user_api.go, one step  *)
(* per SQL statement, over the users table of storage/internal/model.  A   *)
(* row's id is its place in the table; a token is the id it was issued to. *)
(***************************************************************************)
EXTENDS Integers, Sequences

CONSTANTS
    Credentials, \* names and passwords clients register and log in with
    MaxFaults    \* bound on the number of failures

\* No password is empty (binding:"required").
ASSUME CredentialsAssumption ==
    /\ Credentials # {} /\ MaxFaults \in Nat
    /\ \A c \in Credentials :
          c = [name |-> c.name, password |-> c.password] /\ c.password # ""

NoUser == 0      \* the id of the zero row, and of an absent token or header

VARIABLES
    users,       \* the rows, username unique
    call,        \* for each request: what it asks, and where it is on its way
    faults,
    accepted,    \* history: registrations answered 201, in order
    issued       \* history: logins answered 200, with the id in the token

userVars == <<users, call, faults, accepted, issued>>

\* A request on its way to a handler; token and header are those of services
\* behind RequireUser.
NoCall == [at |-> "none", creds |-> CHOOSE c \in Credentials : TRUE,
           token |-> NoUser, header |-> NoUser]

Ids == 1..Len(users)
Row(n) == {i \in Ids : users[i].name = n}

Reaches(r, s) == call' = [call EXCEPT ![r].at = s]
Finish(r) == call' = [call EXCEPT ![r] = [NoCall EXCEPT !.at = "answered"]]
Creds(r) == call[r].creds
Fault == faults < MaxFaults /\ faults' = faults + 1

-----------------------------------------------------------------------------
(* RegisterHandler *)

\* Is the name taken?
Count(r) ==
    /\ call[r].at = "register"
    /\ \/ Row(Creds(r).name) = {} /\ Reaches(r, "insert") /\ UNCHANGED faults
       \/ Row(Creds(r).name) # {} /\ Finish(r) /\ UNCHANGED faults
       \/ Fault /\ Finish(r)
    /\ UNCHANGED <<users, accepted, issued>>

\* Mutant: there is no unique index.
InsertAlways(r) ==
    /\ call[r].at = "insert"
    /\ users' = Append(users, Creds(r))
    /\ accepted' = Append(accepted, Creds(r))
    /\ Finish(r)
    /\ UNCHANGED <<faults, issued>>

\* The unique index refuses a second row.  An error is answered 500, whether
\* or not the row is there.
Insert(r) ==
    /\ call[r].at = "insert"
    /\ \/ /\ Row(Creds(r).name) = {}
          /\ users' = Append(users, Creds(r))
          /\ \/ accepted' = Append(accepted, Creds(r)) /\ UNCHANGED faults
             \/ Fault /\ UNCHANGED accepted
       \/ Row(Creds(r).name) # {} /\ UNCHANGED <<users, accepted, faults>>
       \/ Fault /\ UNCHANGED <<users, accepted>>
    /\ Finish(r)
    /\ UNCHANGED issued

-----------------------------------------------------------------------------
(* LoginHandler *)

\* The row a SELECT scans into the variable; without one the variable keeps
\* its zero value, and Scan reports no error.
Scanned(n) == IF Row(n) = {} THEN {[id |-> NoUser, password |-> ""]}
              ELSE {[id |-> i, password |-> users[i].password] : i \in Row(n)}

\* Mutant: the password is only compared if there is a row.
MatchesFound(u, p) == u.id = NoUser \/ u.password = p

\* The zero row never matches, as no password is empty.
Matches(u, p) == u.password = p

Login(r) ==
    /\ call[r].at = "login"
    /\ \/ \E u \in Scanned(Creds(r).name) :
             /\ issued' = IF Matches(u, Creds(r).password)
                          THEN issued \cup {[creds |-> Creds(r), id |-> u.id]} ELSE issued
             /\ UNCHANGED faults
       \/ Fault /\ UNCHANGED issued
    /\ Finish(r)
    /\ UNCHANGED <<users, accepted>>

Handle(r) ==
    \/ Count(r)
    \/ Insert(r)
    \/ Login(r)

=============================================================================
