----------------------------- MODULE OneTimeCode -----------------------------
(***************************************************************************)
(* What the store promises of an authorization code: it is issued, spent,  *)
(* and traded for tokens at most once, by the one who spent it.  CodeStore *)
(* implements it.                                                          *)
(***************************************************************************)
EXTENDS Naturals

CONSTANT Codes

VARIABLES state, granted

vars == <<state, granted>>

Init ==
    /\ state = [c \in Codes |-> "unissued"]
    /\ granted = [c \in Codes |-> 0]

Issue(c) ==
    /\ state[c] = "unissued"
    /\ state' = [state EXCEPT ![c] = "live"]
    /\ UNCHANGED granted

Spend(c) ==
    /\ state[c] = "live"
    /\ state' = [state EXCEPT ![c] = "spent"]
    /\ UNCHANGED granted

Grant(c) ==
    /\ state[c] = "spent"
    /\ granted[c] = 0
    /\ granted' = [granted EXCEPT ![c] = 1]
    /\ UNCHANGED state

Next == \E c \in Codes : Issue(c) \/ Spend(c) \/ Grant(c)

Spec == Init /\ [][Next]_vars
===============================================================================
