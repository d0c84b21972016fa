------------------------------- MODULE ServingGate ------------------------------
(*****************************************************************************)
(* What public-vpn-node promises of the gate through which its proxies send:   *)
(* it belongs to one OpenVPN child, it is open only while that child lives, a   *)
(* new owner finds it closed, and once shut it opens only for an owner that is  *)
(* ready again.  VpnRuntime keeps the promise with devices, routes and rules.   *)
(*****************************************************************************)
CONSTANTS Children, None

VARIABLES
    live,     \* serving children that run
    owner,    \* the child that the gate belongs to
    open      \* the proxies may use it

vars == <<live, owner, open>>

Init == live = {} /\ owner = None /\ open = FALSE

Start(c) ==
    /\ live' = live \cup {c}
    /\ UNCHANGED <<owner, open>>

\* The gate is handed to c, which may have been started for that.
Serve(c) ==
    /\ owner' = c /\ open' = FALSE
    /\ live' \in {live, live \cup {c}}

\* The owner's tunnel is ready.
Open ==
    /\ owner \in live
    /\ open' = TRUE
    /\ UNCHANGED <<live, owner>>

\* The gate is shut, whoever else ends with that; the owner may be forgotten.
Shut(ended) ==
    /\ live' = live \ ended
    /\ owner' \in {owner, None}
    /\ open' = FALSE

\* Children end; the gate does not outlive its owner.
End(ended) ==
    /\ live' = live \ ended
    /\ owner' = owner
    /\ open' = (open /\ owner \notin ended)

Next ==
    \/ Open
    \/ \E c \in Children : Start(c) \/ Serve(c)
    \/ \E ended \in SUBSET Children : Shut(ended) \/ End(ended)

Spec == Init /\ [][Next]_vars
================================================================================
