--------------------------- MODULE MCGatewayPath ----------------------------
(***************************************************************************)
(* Instance of the way through the gateway: requests from two addresses    *)
(* that need no account, or requests from one address about one name with  *)
(* two passwords, or about two names; windows are measured on one address. *)
(***************************************************************************)
EXTENDS RateWindow

CONSTANTS r1, r2, a1, a2

Cred(n, p) == [name |-> n, password |-> p]
AllCredentials == {Cred("ann", "p"), Cred("ann", "q"), Cred("bob", "p")}
OneAddress == [from |-> {a1}, creds |-> {}]
FourWorkloads ==
    {OneAddress,
     [from |-> {a1, a2}, creds |-> {}],
     [from |-> {a1}, creds |-> {Cred("ann", "p"), Cred("ann", "q")}],
     [from |-> {a1}, creds |-> {Cred("ann", "p"), Cred("bob", "p")}]}
OneAddressOnly == {OneAddress}

=============================================================================
