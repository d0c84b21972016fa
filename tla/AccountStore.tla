------------------------------ MODULE AccountStore -----------------------------
(*****************************************************************************)
(* What the account switch promises: the runner has one account.  Only an      *)
(* account that was confirmed in its place becomes it; until the switch is     *)
(* settled a power loss leaves the old account or the new one, never a third.  *)
(*****************************************************************************)
CONSTANT Accounts

VARIABLES
    possible,    \* the accounts a restarted host may come up with
    confirmed    \* the account confirmed for a switch, if there is one

vars == <<possible, confirmed>>

Init ==
    /\ \E a \in Accounts : possible = {a}
    /\ confirmed = {}

Confirm(c) ==
    /\ confirmed' = {c}
    /\ UNCHANGED possible

\* The switch fails, or whoever makes it dies.
Withdraw ==
    /\ confirmed' = {}
    /\ UNCHANGED possible

Switch(a, c) ==
    /\ possible = {a} /\ c \in confirmed
    /\ possible' = {a, c}
    /\ confirmed' = {}

Settle(c) ==
    /\ c \in possible
    /\ possible' = {c}
    /\ confirmed' = {}

Next ==
    \/ \E c \in Accounts : Confirm(c) \/ Settle(c)
    \/ \E a, c \in Accounts : Switch(a, c)
    \/ Withdraw

Spec == Init /\ [][Next]_vars
================================================================================
