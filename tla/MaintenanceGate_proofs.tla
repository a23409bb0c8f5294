------------------------ MODULE MaintenanceGate_proofs ------------------------
(***************************************************************************)
(* What the abstract gate promises, for any tokens and maintainers.        *)
(***************************************************************************)
EXTENDS MaintenanceGate, TLAPS

\* Exclusion is inductive: an exclusive lease excludes every mutation, and drains
\* exclude each other (ServiceMaintenanceGate.mutation and drain).
THEOREM GateExcludes == Spec => []Exclusion
<1>1. Init => Exclusion
  BY DEF Init, Exclusion
<1>2. Exclusion /\ [Next]_gate => Exclusion'
  <2> SUFFICES ASSUME Exclusion, [Next]_gate PROVE Exclusion'
    OBVIOUS
  <2> USE DEF Exclusion
  <2>1. ASSUME NEW t \in Tokens, Begin(t)
        PROVE  Exclusion'
    BY <2>1 DEF Begin
  <2>2. ASSUME NEW t \in Tokens, End(t)
        PROVE  Exclusion'
    BY <2>2 DEF End
  <2>3. ASSUME NEW m \in Maintainers, Claim(m)
        PROVE  Exclusion'
    BY <2>3 DEF Claim
  <2>4. CASE Settle
    BY <2>4 DEF Settle
  <2>5. CASE Release
    BY <2>5 DEF Release
  <2>6. CASE UNCHANGED gate
    BY <2>6 DEF gate
  <2> QED
    BY <2>1, <2>2, <2>3, <2>4, <2>5, <2>6 DEF Next
<1> QED
  BY <1>1, <1>2, PTL DEF Spec
=============================================================================
