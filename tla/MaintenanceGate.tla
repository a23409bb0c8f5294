--------------------------- MODULE MaintenanceGate ---------------------------
(***************************************************************************)
(* What ServiceMaintenanceGate (websocket_gateway.py) promises, without    *)
(* threads, wake-ups or bridges: mutations hold the gate shared, at most   *)
(* one maintainer drains it, no mutation begins while somebody drains, and *)
(* the lease of a drain that is not forced is issued only once every       *)
(* mutation has ended.  Gateway.tla is shown to implement this module.     *)
(***************************************************************************)
EXTENDS FiniteSets

CONSTANTS Tokens,       \* mutation contexts
          Maintainers   \* threads that stop or restart the service

VARIABLES inside,       \* the mutations that hold the gate
          drainers,     \* the maintainers inside drain()
          exclusive     \* a lease was issued with no mutation inside

gate == <<inside, drainers, exclusive>>

Init == /\ inside = {}
        /\ drainers = {}
        /\ exclusive = FALSE

\* mutation() on entry: refused (no step) while a drain is under way.
Begin(t) == /\ drainers = {}
            /\ t \notin inside
            /\ inside' = inside \cup {t}
            /\ UNCHANGED <<drainers, exclusive>>

\* mutation() on exit: allowed at any time, also under a forced lease.
End(t) == /\ t \in inside
          /\ inside' = inside \ {t}
          /\ UNCHANGED <<drainers, exclusive>>

\* drain() takes the gate; its lease is exclusive at once if nobody is inside.
Claim(m) == /\ drainers = {}
            /\ drainers' = {m}
            /\ exclusive' \in {FALSE, inside = {}}
            /\ UNCHANGED inside

\* The drain that waited for the mutations to end gets its lease.
Settle == /\ drainers # {}
          /\ inside = {}
          /\ exclusive' = TRUE
          /\ UNCHANGED <<inside, drainers>>

Release == /\ drainers # {}
           /\ drainers' = {}
           /\ exclusive' = FALSE
           /\ UNCHANGED inside

Next == \/ \E t \in Tokens : Begin(t) \/ End(t)
        \/ \E m \in Maintainers : Claim(m)
        \/ Settle
        \/ Release

Spec == Init /\ [][Next]_gate

\* An exclusive lease excludes every mutation, and drains exclude each other.
Exclusion == /\ exclusive => inside = {} /\ drainers # {}
             /\ \A m, n \in drainers : m = n
=============================================================================
