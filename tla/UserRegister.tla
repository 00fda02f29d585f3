----------------------------- MODULE UserRegister -----------------------------
(***************************************************************************)
(* What registration promises: whoever controls an address may ask for it  *)
(* any number of times, and one of the requests becomes its user, in one   *)
(* step and for good.  Registration implements it.                         *)
(***************************************************************************)
CONSTANTS Emails, Pendings, None

VARIABLES
    users,          \* the request each address was registered by
    address,        \* the address each request is for
    used            \* requests that became users

vars == <<users, address, used>>

Init ==
    /\ users = [e \in Emails |-> None]
    /\ address = [p \in Pendings |-> None]
    /\ used = {}

Ask(p, e) ==
    /\ address[p] = None
    /\ address' = [address EXCEPT ![p] = e]
    /\ UNCHANGED <<users, used>>

Register(p) ==
    /\ address[p] # None
    /\ users[address[p]] = None
    /\ users' = [users EXCEPT ![address[p]] = p]
    /\ used' = used \cup {p}
    /\ UNCHANGED address

Next == \E p \in Pendings : Register(p) \/ \E e \in Emails : Ask(p, e)

Spec == Init /\ [][Next]_vars
===============================================================================
