---------------------------- MODULE Gateway_proofs ----------------------------
(***************************************************************************)
(* Proofs about Gateway, for every value of its constants.                 *)
(*                                                                         *)
(* Few of the actions touch the gate: GateSteps reduces every step to one  *)
(* of eight.  The inductive invariant of the gate, GateInv, is preserved   *)
(* by these, and they are the steps of the abstract gate; what the bridges *)
(* and threads do matters only to their own types.                         *)
(***************************************************************************)
EXTENDS Gateway, FiniteSetTheorems, TLAPS

-----------------------------------------------------------------------------
(* The steps of the gate.                                                  *)

\* The maintainer's steps that leave the gate alone.
Move(m) ==
  /\ UNCHANGED <<gateVars, force>>
  /\ \/ mpc[m] = "leased" /\ mpc' = [mpc EXCEPT ![m] = "terminating"]
     \/ mpc[m] = "leased" /\ mpc' = [mpc EXCEPT ![m] = "releasing"]
     \/ mpc[m] = "terminating" /\ mpc' = [mpc EXCEPT ![m] = "closing"]
     \/ mpc[m] = "closing" /\ mpc' = [mpc EXCEPT ![m] = "releasing"]

GateStep ==
  \/ UNCHANGED <<gateVars, mpc, force>>
  \/ UNCHANGED <<mpc, force>> /\ \E t \in Fresh : Enter(t)
  \/ UNCHANGED <<mpc, force>> /\ \E t \in Slots : Exit(t)
  \/ \E m \in Maintainers : \/ MaintainRequest(m) \/ MaintainClaim(m)
                            \/ MaintainSettle(m) \/ Move(m) \/ MaintainRelease(m)

\* The frontend pump touches the gate only to enter and to leave with a token.
LEMMA FrontIsGateStep ==
  ASSUME TypeOK, NEW b \in Bridges, Front(b)
  PROVE  GateStep
<1>1. ASSUME NEW k \in Keys \cup {NoKey}, FrontMutation(b, k)
      PROVE  GateStep
  BY <1>1 DEF FrontMutation, GateStep, otherVars, maintVars
<1>2. ASSUME NEW k \in Keys, FrontRead(b, k)
      PROVE  GateStep
  BY <1>2 DEF FrontRead, GateStep, otherVars, maintVars
<1>3. CASE FrontRegister(b)
  BY <1>3 DEF FrontRegister, GateStep, otherVars, maintVars
<1>4. CASE FrontSend(b)
  BY <1>4 DEF FrontSend, GateStep, otherVars, maintVars
<1>5. CASE FrontSendFails(b)
  BY <1>5 DEF FrontSendFails, GateStep, otherVars, maintVars
<1>6. CASE FrontExit(b)
  <2>1. fctx[b] \in Slots
    BY DEF TypeOK, BridgeTypeOK
  <2> QED
    BY <1>6, <2>1 DEF FrontExit, GateStep, otherVars, maintVars
<1>7. CASE FrontLeave(b)
  BY <1>7 DEF FrontLeave, GateStep, otherVars, maintVars
<1> QED
  BY <1>1, <1>2, <1>3, <1>4, <1>5, <1>6, <1>7 DEF Front

\* The backend pump touches the gate only to leave with an answered token.
LEMMA BackIsGateStep ==
  ASSUME TypeOK, NEW b \in Bridges, Back(b)
  PROVE  GateStep
<1>1. ASSUME NEW k \in Keys, BackRecv(b, k)
      PROVE  GateStep
  BY <1>1 DEF BackRecv, GateStep, otherVars, maintVars
<1>2. CASE BackExit(b)
  <2>1. bctx[b] \in Slots
    BY DEF TypeOK, BridgeTypeOK
  <2> QED
    BY <1>2, <2>1 DEF BackExit, GateStep, otherVars, maintVars
<1>3. CASE BackForward(b)
  BY <1>3 DEF BackForward, GateStep, otherVars, maintVars
<1>4. CASE BackLeave(b)
  BY <1>4 DEF BackLeave, GateStep, otherVars, maintVars
<1> QED
  BY <1>1, <1>2, <1>3, <1>4 DEF Back

\* A handler that closes its bridge touches the gate only to leave with a token.
LEMMA HandlerIsGateStep ==
  ASSUME TypeOK, NEW b \in Bridges, Handler(b)
  PROVE  GateStep
<1>1. CASE HandlerConnect(b)
  BY <1>1 DEF HandlerConnect, GateStep, otherVars, maintVars
<1>2. CASE HandlerRegister(b)
  BY <1>2 DEF HandlerRegister, GateStep, otherVars, maintVars
<1>3. CASE HandlerClose(b)
  BY <1>3 DEF HandlerClose, GateStep, otherVars, maintVars
<1>4. CASE CloseRelease(b)
  <2>1. drop[b] \subseteq Slots
    BY DEF TypeOK, BridgeTypeOK, Slots
  <2> QED
    BY <1>4, <2>1 DEF CloseRelease, GateStep, otherVars, maintVars
<1>5. CASE CloseDisconnect(b)
  BY <1>5 DEF CloseDisconnect, GateStep, otherVars, maintVars
<1>6. CASE HandlerRetire(b)
  BY <1>6 DEF HandlerRetire, GateStep, otherVars, maintVars
<1> QED
  BY <1>1, <1>2, <1>3, <1>4, <1>5, <1>6 DEF Handler

\* A worker mutation (client.mutation) enters and leaves, and nothing else.
LEMMA WorkIsGateStep ==
  ASSUME TypeOK, NEW w \in Workers, Work(w)
  PROVE  GateStep
<1>1. CASE WorkerEnter(w)
  BY <1>1 DEF WorkerEnter, GateStep, maintVars
<1>2. CASE WorkerCall(w)
  BY <1>2 DEF WorkerCall, GateStep, maintVars
<1>3. CASE WorkerLeave(w)
  <2>1. wctx[w] \in Slots
    BY DEF TypeOK, OtherTypeOK
  <2> QED
    BY <1>3, <2>1 DEF WorkerLeave, GateStep, maintVars
<1> QED
  BY <1>1, <1>2, <1>3 DEF Work

\* A maintainer drains, releases its lease, or leaves the gate alone.
LEMMA MaintainIsGateStep ==
  ASSUME NEW m \in Maintainers, Maintain(m)
  PROVE  GateStep
<1>1. CASE MaintainRequest(m) \/ MaintainClaim(m) \/ MaintainSettle(m)
           \/ MaintainRelease(m)
  BY <1>1 DEF GateStep
<1>2. CASE MaintainDecide(m)
  BY <1>2 DEF MaintainDecide, GateStep, Move
<1>3. CASE MaintainRefuse(m)
  BY <1>3 DEF MaintainRefuse, GateStep, Move
<1>4. CASE MaintainTerminate(m)
  BY <1>4 DEF MaintainTerminate, GateStep, Move
<1>5. ASSUME NEW b \in Bridges, MaintainClose(m, b)
      PROVE  GateStep
  BY <1>5 DEF MaintainClose, GateStep
<1>6. CASE MaintainTeardown(m)
  BY <1>6 DEF MaintainTeardown, GateStep, Move
<1> QED
  BY <1>1, <1>2, <1>3, <1>4, <1>5, <1>6 DEF Maintain

\* Clients and the upstream never touch the gate.
LEMMA EnvironmentIsGateStep ==
  ASSUME Environment
  PROVE  GateStep
<1>1. ASSUME NEW b \in Bridges, FrontDrop(b)
      PROVE  GateStep
  BY <1>1 DEF FrontDrop, GateStep, otherVars, maintVars
<1>2. ASSUME NEW b \in Bridges, NEW k \in Keys, UpstreamAnswer(b, k)
      PROVE  GateStep
  BY <1>2 DEF UpstreamAnswer, GateStep, maintVars
<1>3. ASSUME NEW w \in Workers, UpstreamReturn(w)
      PROVE  GateStep
  BY <1>3 DEF UpstreamReturn, GateStep, maintVars
<1>4. CASE TurnEnds
  BY <1>4 DEF TurnEnds, GateStep, maintVars
<1> QED
  BY <1>1, <1>2, <1>3, <1>4 DEF Environment

\* Of the many actions of the gateway only these five kinds reach the gate:
\* what is proved of GateStep is proved of Next.
LEMMA EveryStepIsGateStep ==
  ASSUME TypeOK, [Next]_vars
  PROVE  GateStep
<1>1. CASE UNCHANGED vars
  BY <1>1 DEF vars, GateStep, otherVars, maintVars
<1>2. CASE Next
  BY <1>2, FrontIsGateStep, BackIsGateStep, HandlerIsGateStep, WorkIsGateStep,
     MaintainIsGateStep, EnvironmentIsGateStep DEF Next
<1> QED
  BY <1>1, <1>2

-----------------------------------------------------------------------------
(* The inductive invariant of the gate.                                    *)

\* The counter counts the contexts that are inside.
Counted == IsFiniteSet(live) /\ active = Cardinality(live)

\* The gate is closed exactly while some maintainer is past its claim; one is.
OneDrainer ==
  /\ draining <=> Drainers # {}
  /\ \A m, n \in Drainers : m = n

\* The lease belongs to that maintainer, from the moment it is issued to its release,
\* and unless it was forced nothing is inside.
LeaseHeld ==
  /\ \A m \in Maintainers :
       /\ mpc[m] \in {"leased", "terminating", "closing"} => lease = m
       /\ mpc[m] = "settling" => ~force[m]
  /\ lease \in Maintainers =>
       /\ mpc[lease] \in {"leased", "terminating", "closing", "releasing"}
       /\ ~force[lease] => live = {}

\* Only maintainers whose condition is false sleep.
Awake ==
  \A m \in asleep : \/ mpc[m] = "claiming" /\ draining
                    \/ mpc[m] = "settling" /\ active # 0

GateInv == Counted /\ OneDrainer /\ LeaseHeld /\ Awake

\* The counter is zero exactly when no context is inside.
LEMMA CountedIsZero ==
  ASSUME Counted
  PROVE  active = 0 <=> live = {}
  BY FS_EmptySet DEF Counted

\* What a mutation's entry does to the counter.
LEMMA EnterCounts ==
  ASSUME GateTypeOK, Counted, NEW t \in Fresh, Enter(t)
  PROVE  Counted' /\ active' \in Nat /\ t \in Tokens \ live /\ live' = live \cup {t}
<1>1. t \in Tokens /\ t \notin live
  BY DEF Fresh, Referenced
<1>2. live' = live \cup {t} /\ active' = active + 1
  BY DEF Enter
<1>3. IsFiniteSet(live') /\ Cardinality(live') = Cardinality(live) + 1
  BY <1>1, <1>2, FS_AddElement DEF Counted
<1> QED
  BY <1>1, <1>2, <1>3 DEF Counted, GateTypeOK

\* And its exit: a second exit from the same context counts nothing.
LEMMA ExitCounts ==
  ASSUME GateTypeOK, Counted, NEW t, Exit(t)
  PROVE  Counted' /\ active' \in Nat /\ live' = live \ {t}
<1>1. live' = live \ {t} /\ active' = IF t \in live THEN active - 1 ELSE active
  BY DEF Exit
<1>2. /\ IsFiniteSet(live')
      /\ Cardinality(live') = IF t \in live THEN Cardinality(live) - 1
                              ELSE Cardinality(live)
  BY <1>1, FS_RemoveElement DEF Counted
<1>3. Cardinality(live') \in Nat
  BY <1>2, FS_CardinalityType
<1> QED
  BY <1>1, <1>2, <1>3 DEF Counted

\* A new gate is idle, and nobody waits for it.
LEMMA GateInvInit ==
  ASSUME Init
  PROVE  GateTypeOK /\ GateInv
<1>1. GateTypeOK
  BY DEF Init, GateTypeOK
<1>2. Counted
  BY FS_EmptySet DEF Init, Counted
<1>3. OneDrainer /\ LeaseHeld /\ Awake
  BY GatewayAssumption DEF Init, OneDrainer, Drainers, LeaseHeld, Awake, GatewayAssumption
<1> QED
  BY <1>1, <1>2, <1>3 DEF GateInv

\* The gate's invariant is inductive: one case per kind of gate step.
LEMMA GateInvStep ==
  ASSUME TypeOK, GateInv, GateStep
  PROVE  GateTypeOK' /\ GateInv'
<1> USE DEF GateInv
<1>1. /\ GateTypeOK
      /\ mpc \in [Maintainers -> MaintPCs]
      /\ force \in [Maintainers -> BOOLEAN]
  BY DEF TypeOK, OtherTypeOK
<1>2. CASE UNCHANGED <<gateVars, mpc, force>>
  BY <1>1, <1>2 DEF GateTypeOK, Counted, OneDrainer, Drainers, LeaseHeld, Awake, gateVars
<1>3. ASSUME UNCHANGED <<mpc, force>>, NEW t \in Fresh, Enter(t)
      PROVE  GateTypeOK' /\ GateInv'
  <2>1. /\ Counted' /\ active' \in Nat /\ t \in Tokens \ live
        /\ live' = live \cup {t} /\ active' = active + 1
        /\ ~draining /\ UNCHANGED <<draining, lease, asleep>>
    BY <1>1, <1>3, EnterCounts DEF Enter
  <2>2. Drainers = {} /\ Drainers' = Drainers
    BY <1>3, <2>1 DEF OneDrainer, Drainers
  <2>3. lease \notin Maintainers
    BY <2>2 DEF LeaseHeld, Drainers
  <2>4. OneDrainer' /\ LeaseHeld'
    BY <1>1, <1>3, <2>1, <2>2, <2>3 DEF OneDrainer, LeaseHeld
  <2>5. Awake' /\ GateTypeOK'
    BY <1>1, <1>3, <2>1 DEF Awake, GateTypeOK
  <2> QED
    BY <2>1, <2>4, <2>5
<1>4. ASSUME UNCHANGED <<mpc, force>>, NEW t \in Slots, Exit(t)
      PROVE  GateTypeOK' /\ GateInv'
  <2>1. /\ Counted' /\ active' \in Nat /\ live' = live \ {t}
        /\ UNCHANGED <<draining, lease>>
        /\ asleep' = {} \/ (asleep' = asleep /\ (active' # 0 \/ active' = active))
    BY <1>1, <1>4, ExitCounts DEF Exit
  <2>2. OneDrainer' /\ LeaseHeld'
    BY <1>4, <2>1 DEF OneDrainer, LeaseHeld, Drainers
  <2>3. Awake' /\ GateTypeOK'
    BY <1>1, <1>4, <2>1 DEF Awake, GateTypeOK
  <2> QED
    BY <2>1, <2>2, <2>3
<1>5. ASSUME NEW m \in Maintainers, MaintainRequest(m)
      PROVE  GateTypeOK' /\ GateInv'
  <2>1. /\ UNCHANGED gateVars /\ mpc[m] = "idle"
        /\ mpc' = [mpc EXCEPT ![m] = "claiming"]
        /\ \A n \in Maintainers \ {m} : force'[n] = force[n]
    BY <1>1, <1>5 DEF MaintainRequest
  <2>2. Drainers' = Drainers
    BY <1>1, <2>1 DEF Drainers
  <2>3. lease # m
    BY <2>1 DEF LeaseHeld
  <2> QED
    BY <1>1, <2>1, <2>2, <2>3
    DEF gateVars, GateTypeOK, Counted, OneDrainer, LeaseHeld, Awake
<1>6. ASSUME NEW m \in Maintainers, MaintainClaim(m)
      PROVE  GateTypeOK' /\ GateInv'
  <2>1. active = 0 <=> live = {}
    BY CountedIsZero
  <2>2. CASE draining
    BY <1>1, <1>6, <2>2
    DEF MaintainClaim, GateTypeOK, Counted, OneDrainer, Drainers, LeaseHeld, Awake
  <2>3. CASE ~draining
    <3>1. Drainers = {} /\ lease \notin Maintainers /\ mpc[m] = "claiming"
      BY <1>6, <2>3 DEF OneDrainer, LeaseHeld, Drainers, MaintainClaim
    <3>2. /\ draining' = TRUE /\ UNCHANGED <<active, live, force>>
          /\ \/ /\ active # 0 /\ ~force[m] /\ asleep' = asleep \cup {m}
                /\ lease' = lease /\ mpc' = [mpc EXCEPT ![m] = "settling"]
             \/ /\ active = 0 \/ force[m]
                /\ asleep' = asleep /\ lease' = m
                /\ mpc' = [mpc EXCEPT ![m] = "leased"]
      BY <1>6, <2>3 DEF MaintainClaim
    <3>3. Drainers' = {m}
      BY <1>1, <3>1, <3>2 DEF Drainers
    <3>4. OneDrainer'
      BY <3>2, <3>3 DEF OneDrainer
    <3>5. asleep = {}
      BY <1>1, <2>3, <3>1 DEF Awake, Drainers, GateTypeOK
    <3> QED
      BY <1>1, <2>1, <3>1, <3>2, <3>4, <3>5
      DEF GateTypeOK, Counted, LeaseHeld, Awake, Drainers
  <2> QED
    BY <2>2, <2>3
<1>7. ASSUME NEW m \in Maintainers, MaintainSettle(m)
      PROVE  GateTypeOK' /\ GateInv'
  <2>1. live = {}
    BY <1>7, CountedIsZero DEF MaintainSettle
  <2>2. /\ mpc[m] = "settling" /\ ~force[m] /\ m \notin asleep
        /\ UNCHANGED <<active, live, draining, asleep, force>>
        /\ lease' = m /\ mpc' = [mpc EXCEPT ![m] = "leased"]
    BY <1>7 DEF MaintainSettle, LeaseHeld
  <2>3. Drainers' = Drainers /\ Drainers = {m}
    BY <1>1, <2>2 DEF Drainers, OneDrainer
  <2> QED
    BY <1>1, <2>1, <2>2, <2>3
    DEF GateTypeOK, Counted, OneDrainer, LeaseHeld, Awake, Drainers
<1>8. ASSUME NEW m \in Maintainers, Move(m)
      PROVE  GateTypeOK' /\ GateInv'
  <2>1. Drainers' = Drainers
    BY <1>1, <1>8 DEF Move, Drainers
  <2> QED
    BY <1>1, <1>8, <2>1
    DEF Move, gateVars, GateTypeOK, Counted, OneDrainer, LeaseHeld, Awake
<1>9. ASSUME NEW m \in Maintainers, MaintainRelease(m)
      PROVE  GateTypeOK' /\ GateInv'
  <2>1. Drainers = {m}
    BY <1>9 DEF MaintainRelease, OneDrainer, Drainers
  <2>2. lease \in Maintainers => lease = m
    BY <2>1 DEF LeaseHeld, Drainers
  <2>3. /\ mpc' = [mpc EXCEPT ![m] = "idle"] /\ force' = [force EXCEPT ![m] = FALSE]
        /\ draining' = FALSE /\ asleep' = {} /\ UNCHANGED <<active, live>>
        /\ lease' \notin Maintainers /\ lease' \in {lease, NoLease}
    BY <1>9, <2>2, GatewayAssumption DEF MaintainRelease, GatewayAssumption
  <2>4. Drainers' = {}
    BY <1>1, <2>1, <2>3 DEF Drainers
  <2> QED
    BY <1>1, <2>1, <2>3, <2>4
    DEF GateTypeOK, Counted, OneDrainer, LeaseHeld, Awake, Drainers
<1> QED
  BY <1>2, <1>3, <1>4, <1>5, <1>6, <1>7, <1>8, <1>9 DEF GateStep

-----------------------------------------------------------------------------
(* Types of the bridges and of the threads around them.                    *)

\* The frontend pump keeps the types.
LEMMA FrontTypes ==
  ASSUME TypeOK, NEW b \in Bridges, Front(b)
  PROVE  BridgeTypeOK' /\ OtherTypeOK'
<1> USE DEF BridgeTypeOK, FrontPCs
<1>1. BridgeTypeOK /\ OtherTypeOK
  BY DEF TypeOK
<1>2. UNCHANGED otherVars => OtherTypeOK'
  BY <1>1 DEF OtherTypeOK, otherVars, workVars, coreVars, maintVars
<1>3. ASSUME NEW k \in Keys \cup {NoKey}, FrontMutation(b, k)
      PROVE  BridgeTypeOK' /\ OtherTypeOK'
  BY <1>1, <1>2, <1>3
  DEF FrontMutation, Fresh, Slots, backVars, closeVars, connVars
<1>4. ASSUME NEW k \in Keys, FrontRead(b, k)
      PROVE  BridgeTypeOK' /\ OtherTypeOK'
  BY <1>1, <1>2, <1>4 DEF FrontRead, Slots, backVars, closeVars, connVars
<1>5. CASE FrontRegister(b)
  BY <1>1, <1>2, <1>5 DEF FrontRegister, Slots, backVars, closeVars, connVars
<1>6. CASE FrontSend(b)
  <2>1. up' \in [Bridges -> [Keys -> {"idle", "mutation", "read", "answered"}]]
    <3>1. CASE fkey[b] = NoKey
      BY <1>1, <1>6, <3>1 DEF FrontSend
    <3>2. CASE fkey[b] # NoKey
      <4> DEFINE sent == IF fctx[b] = Read THEN "read" ELSE "mutation"
      <4>1. up' = [up EXCEPT ![b] = [up[b] EXCEPT ![fkey[b]] = sent]]
        BY <1>6, <3>2 DEF FrontSend
      <4>2. [up[b] EXCEPT ![fkey[b]] = sent]
              \in [Keys -> {"idle", "mutation", "read", "answered"}]
        BY <1>1
      <4> QED
        BY <1>1, <4>1, <4>2
    <3> QED
      BY <3>1, <3>2
  <2>2. /\ fpc' \in [Bridges -> FrontPCs] /\ fctx' \in [Bridges -> Slots]
        /\ fkey' \in [Bridges -> Keys \cup {NoKey}]
    BY <1>1, <1>6 DEF FrontSend, Slots
  <2> QED
    BY <1>1, <1>2, <1>6, <2>1, <2>2 DEF FrontSend, backVars, closeVars, connVars
<1>7. CASE FrontSendFails(b)
  <2>1. pending' \in [Bridges -> [Keys -> Slots]]
    BY <1>1, <1>7 DEF FrontSendFails, Slots
  <2>2. /\ fpc' \in [Bridges -> FrontPCs] /\ fctx' \in [Bridges -> Slots]
        /\ fkey' \in [Bridges -> Keys \cup {NoKey}]
    BY <1>1, <1>7 DEF FrontSendFails, Slots
  <2> QED
    BY <1>1, <1>2, <1>7, <2>1, <2>2 DEF FrontSendFails, backVars, closeVars, connVars
<1>8. CASE FrontExit(b)
  BY <1>1, <1>2, <1>8 DEF FrontExit, Slots, backVars, closeVars, connVars
<1>9. CASE FrontLeave(b)
  BY <1>1, <1>2, <1>9 DEF FrontLeave, backVars, closeVars
<1> QED
  BY <1>3, <1>4, <1>5, <1>6, <1>7, <1>8, <1>9 DEF Front

\* The backend pump keeps the types.
LEMMA BackTypes ==
  ASSUME TypeOK, NEW b \in Bridges, Back(b)
  PROVE  BridgeTypeOK' /\ OtherTypeOK'
<1> USE DEF BridgeTypeOK, BackPCs
<1>1. BridgeTypeOK /\ OtherTypeOK
  BY DEF TypeOK
<1>2. UNCHANGED otherVars => OtherTypeOK'
  BY <1>1 DEF OtherTypeOK, otherVars, workVars, coreVars, maintVars
<1>3. ASSUME NEW k \in Keys, BackRecv(b, k)
      PROVE  BridgeTypeOK' /\ OtherTypeOK'
  <2>1. bctx' \in [Bridges -> Slots] /\ bpc' \in [Bridges -> BackPCs]
    BY <1>1, <1>3 DEF BackRecv, Slots
  <2>2. /\ up' \in [Bridges -> [Keys -> {"idle", "mutation", "read", "answered"}]]
        /\ pending' \in [Bridges -> [Keys -> Slots]]
    BY <1>1, <1>3 DEF BackRecv, Slots
  <2> QED
    BY <1>1, <1>2, <1>3, <2>1, <2>2 DEF BackRecv, frontVars, closeVars, connVars
<1>4. CASE BackExit(b)
  BY <1>1, <1>2, <1>4 DEF BackExit, Slots, frontVars, closeVars, connVars
<1>5. CASE BackForward(b)
  BY <1>1, <1>2, <1>5 DEF BackForward, frontVars, closeVars, connVars
<1>6. CASE BackLeave(b)
  BY <1>1, <1>2, <1>6 DEF BackLeave, frontVars, closeVars
<1> QED
  BY <1>3, <1>4, <1>5, <1>6 DEF Back

\* Closing a bridge, by its handler or by the gateway.
LEMMA CloseTypes ==
  ASSUME BridgeTypeOK, NEW b \in Bridges,
         NEW who \in {"handler", "gateway", "forced"}, BeginClose(b, who)
  PROVE  /\ pending' \in [Bridges -> [Keys -> Slots]]
         /\ cpc' \in [Bridges -> {"open", "releasing", "closed"}]
         /\ closer' \in [Bridges -> {"nobody", "handler", "gateway", "forced"}]
         /\ drop' \in [Bridges -> SUBSET Tokens]
<1>1. {pending[b][k] : k \in Keys} \cap Tokens \in SUBSET Tokens
  OBVIOUS
<1>2. [k \in Keys |-> NoToken] \in [Keys -> Slots]
  BY DEF Slots
<1> QED
  BY <1>1, <1>2 DEF BridgeTypeOK, BeginClose

\* The connection handlers keep the types.
LEMMA HandlerTypes ==
  ASSUME TypeOK, NEW b \in Bridges, Handler(b)
  PROVE  BridgeTypeOK' /\ OtherTypeOK'
<1> USE DEF BridgeTypeOK, HandlerPCs
<1>1. BridgeTypeOK /\ OtherTypeOK
  BY DEF TypeOK
<1>2. UNCHANGED otherVars => OtherTypeOK'
  BY <1>1 DEF OtherTypeOK, otherVars, workVars, coreVars, maintVars
<1>3. CASE HandlerConnect(b)
  BY <1>1, <1>2, <1>3 DEF HandlerConnect, frontVars, backVars, closeVars
<1>4. CASE HandlerRegister(b)
  BY <1>1, <1>2, <1>4 DEF HandlerRegister, FrontPCs, BackPCs, closeVars, connVars
<1>5. CASE HandlerClose(b)
  <2>1. hpc' \in [Bridges -> HandlerPCs]
    BY <1>1, <1>5 DEF HandlerClose
  <2>2. /\ pending' \in [Bridges -> [Keys -> Slots]]
        /\ cpc' \in [Bridges -> {"open", "releasing", "closed"}]
        /\ closer' \in [Bridges -> {"nobody", "handler", "gateway", "forced"}]
        /\ drop' \in [Bridges -> SUBSET Tokens]
    <3>1. CASE BeginClose(b, "handler")
      BY <1>1, <3>1, CloseTypes
    <3>2. CASE UNCHANGED <<closeVars, pending>>
      BY <1>1, <3>2 DEF closeVars
    <3> QED
      BY <1>5, <3>1, <3>2 DEF HandlerClose
  <2> QED
    BY <1>1, <1>2, <1>5, <2>1, <2>2 DEF HandlerClose, frontVars, backVars, connVars
<1>6. CASE CloseRelease(b)
  BY <1>1, <1>2, <1>6 DEF CloseRelease, frontVars, backVars, connVars
<1>7. CASE CloseDisconnect(b)
  BY <1>1, <1>2, <1>7 DEF CloseDisconnect, frontVars, backVars
<1>8. CASE HandlerRetire(b)
  BY <1>1, <1>2, <1>8 DEF HandlerRetire, FrontPCs, BackPCs, Slots, connVars
<1> QED
  BY <1>3, <1>4, <1>5, <1>6, <1>7, <1>8 DEF Handler

\* The worker mutations keep the types.
LEMMA WorkTypes ==
  ASSUME TypeOK, NEW w \in Workers, Work(w)
  PROVE  BridgeTypeOK' /\ OtherTypeOK'
<1> USE DEF OtherTypeOK
<1>1. BridgeTypeOK /\ OtherTypeOK
  BY DEF TypeOK
<1>2. UNCHANGED bridgeVars => BridgeTypeOK'
  BY <1>1 DEF BridgeTypeOK, bridgeVars, frontVars, backVars, closeVars, connVars
<1>3. CASE WorkerEnter(w)
  BY <1>1, <1>2, <1>3 DEF WorkerEnter, Fresh, Slots, coreVars, maintVars
<1>4. CASE WorkerCall(w)
  BY <1>1, <1>2, <1>4 DEF WorkerCall, coreVars, maintVars
<1>5. CASE WorkerLeave(w)
  BY <1>1, <1>2, <1>5 DEF WorkerLeave, Slots, coreVars, maintVars
<1> QED
  BY <1>3, <1>4, <1>5 DEF Work

\* A maintainer keeps the types.
LEMMA MaintainTypes ==
  ASSUME TypeOK, NEW m \in Maintainers, Maintain(m)
  PROVE  BridgeTypeOK' /\ OtherTypeOK'
<1> USE DEF OtherTypeOK, MaintPCs
<1>1. BridgeTypeOK /\ OtherTypeOK
  BY DEF TypeOK
<1>2. UNCHANGED bridgeVars => BridgeTypeOK'
  BY <1>1 DEF BridgeTypeOK, bridgeVars, frontVars, backVars, closeVars, connVars
<1>3. CASE MaintainRequest(m)
  BY <1>1, <1>2, <1>3, GatewayAssumption
  DEF MaintainRequest, GatewayAssumption, workVars, coreVars
<1>4. CASE MaintainClaim(m)
  BY <1>1, <1>2, <1>4 DEF MaintainClaim, workVars, coreVars
<1>5. CASE MaintainSettle(m)
  BY <1>1, <1>2, <1>5 DEF MaintainSettle, workVars, coreVars
<1>6. CASE MaintainDecide(m)
  BY <1>1, <1>2, <1>6 DEF MaintainDecide, workVars, coreVars
<1>7. CASE MaintainRefuse(m)
  BY <1>1, <1>2, <1>7 DEF MaintainRefuse, workVars, coreVars
<1>8. CASE MaintainTerminate(m)
  BY <1>1, <1>2, <1>8 DEF MaintainTerminate, Registered, workVars, coreVars
<1>9. ASSUME NEW b \in Bridges, MaintainClose(m, b)
      PROVE  BridgeTypeOK' /\ OtherTypeOK'
  <2>1. OtherTypeOK'
    BY <1>1, <1>9 DEF MaintainClose, workVars, coreVars
  <2>2. /\ pending' \in [Bridges -> [Keys -> Slots]]
        /\ cpc' \in [Bridges -> {"open", "releasing", "closed"}]
        /\ closer' \in [Bridges -> {"nobody", "handler", "gateway", "forced"}]
        /\ drop' \in [Bridges -> SUBSET Tokens]
    <3>1. CASE BeginClose(b, IF force[m] THEN "forced" ELSE "gateway")
      BY <1>1, <3>1, CloseTypes
    <3>2. CASE UNCHANGED <<closeVars, pending>>
      BY <1>1, <3>2 DEF closeVars, BridgeTypeOK
    <3> QED
      BY <1>9, <3>1, <3>2 DEF MaintainClose
  <2> QED
    BY <1>1, <1>9, <2>1, <2>2
    DEF MaintainClose, BridgeTypeOK, frontVars, backVars, connVars
<1>10. CASE MaintainTeardown(m)
  <2>1. /\ turns' \subseteq {"tracked", "orphaned"}
        /\ wup' \in [Workers -> {"idle", "running", "answered"}]
        /\ upstream' \in BOOLEAN
        /\ bopen' \in [Bridges -> BOOLEAN]
        /\ up' \in [Bridges -> [Keys -> {"idle", "mutation", "read", "answered"}]]
    <3>1. CASE UNCHANGED <<upstream, turns, bopen, up, wup>>
      BY <1>1, <3>1 DEF BridgeTypeOK
    <3>2. CASE ~UNCHANGED <<upstream, turns, bopen, up, wup>>
      <4>1. /\ upstream' = FALSE /\ turns' = {}
            /\ bopen' = [b \in Bridges |-> FALSE]
            /\ up' = [b \in Bridges |-> [k \in Keys |->
                        IF up[b][k] = "answered" THEN "answered" ELSE "idle"]]
            /\ wup' = [w \in Workers |->
                        IF wup[w] = "answered" THEN "answered" ELSE "idle"]
        BY <1>10, <3>2 DEF MaintainTeardown
      <4>2. \A b \in Bridges :
              [k \in Keys |-> IF up[b][k] = "answered" THEN "answered" ELSE "idle"]
                \in [Keys -> {"idle", "mutation", "read", "answered"}]
        OBVIOUS
      <4> QED
        BY <4>1, <4>2
    <3> QED
      BY <3>1, <3>2
  <2>2. OtherTypeOK'
    BY <1>1, <1>10, <2>1 DEF MaintainTeardown
  <2> QED
    BY <1>1, <1>10, <2>1, <2>2
    DEF MaintainTeardown, BridgeTypeOK, frontVars, backVars, closeVars
<1>11. CASE MaintainRelease(m)
  BY <1>1, <1>2, <1>11 DEF MaintainRelease, workVars, coreVars
<1> QED
  BY <1>3, <1>4, <1>5, <1>6, <1>7, <1>8, <1>9, <1>10, <1>11 DEF Maintain

\* Clients and the upstream keep the types.
LEMMA EnvironmentTypes ==
  ASSUME TypeOK, Environment
  PROVE  BridgeTypeOK' /\ OtherTypeOK'
<1>1. BridgeTypeOK /\ OtherTypeOK
  BY DEF TypeOK
<1>2. ASSUME NEW b \in Bridges, FrontDrop(b)
      PROVE  BridgeTypeOK' /\ OtherTypeOK'
  BY <1>1, <1>2 DEF FrontDrop, BridgeTypeOK, OtherTypeOK, frontVars, backVars,
                    closeVars, otherVars, workVars, coreVars, maintVars
<1>3. ASSUME NEW b \in Bridges, NEW k \in Keys, UpstreamAnswer(b, k)
      PROVE  BridgeTypeOK' /\ OtherTypeOK'
  <2>1. /\ up' \in [Bridges -> [Keys -> {"idle", "mutation", "read", "answered"}]]
        /\ turns' \subseteq {"tracked", "orphaned"}
    BY <1>1, <1>3 DEF UpstreamAnswer, MayStartTurn, BridgeTypeOK, OtherTypeOK
  <2> QED
    BY <1>1, <1>3, <2>1 DEF UpstreamAnswer, BridgeTypeOK, OtherTypeOK, frontVars,
                            backVars, closeVars, connVars, workVars, maintVars
<1>4. ASSUME NEW w \in Workers, UpstreamReturn(w)
      PROVE  BridgeTypeOK' /\ OtherTypeOK'
  <2>1. /\ wup' \in [Workers -> {"idle", "running", "answered"}]
        /\ turns' \subseteq {"tracked", "orphaned"}
    BY <1>1, <1>4 DEF UpstreamReturn, MayStartTurn, OtherTypeOK
  <2> QED
    BY <1>1, <1>4, <2>1 DEF UpstreamReturn, BridgeTypeOK, OtherTypeOK, bridgeVars,
                            frontVars, backVars, closeVars, connVars, maintVars
<1>5. CASE TurnEnds
  BY <1>1, <1>5 DEF TurnEnds, BridgeTypeOK, OtherTypeOK, bridgeVars, frontVars,
                    backVars, closeVars, connVars, workVars, maintVars
<1> QED
  BY <1>2, <1>3, <1>4, <1>5 DEF Environment

-----------------------------------------------------------------------------
(* The invariants.                                                         *)

IInv == TypeOK /\ GateInv

\* The inductive invariant holds initially.
LEMMA IInvInit == Init => IInv
<1> SUFFICES ASSUME Init PROVE IInv
  OBVIOUS
<1>1. BridgeTypeOK
  BY DEF Init, BridgeTypeOK, FrontPCs, BackPCs, HandlerPCs, Slots
<1>2. OtherTypeOK
  BY DEF Init, OtherTypeOK, MaintPCs, Slots
<1> QED
  BY <1>1, <1>2, GateInvInit DEF IInv, TypeOK

\* Every step keeps the inductive invariant.
LEMMA IInvStep == IInv /\ [Next]_vars => IInv'
<1> SUFFICES ASSUME IInv, [Next]_vars PROVE IInv'
  OBVIOUS
<1>1. TypeOK /\ GateInv
  BY DEF IInv
<1>2. GateTypeOK' /\ GateInv'
  BY <1>1, EveryStepIsGateStep, GateInvStep
<1>3. CASE UNCHANGED vars
  BY <1>1, <1>2, <1>3
  DEF IInv, TypeOK, BridgeTypeOK, OtherTypeOK, vars, bridgeVars, frontVars, backVars,
      closeVars, connVars, otherVars, workVars, coreVars, maintVars
<1>4. CASE Next
  <2>1. BridgeTypeOK' /\ OtherTypeOK'
    BY <1>1, <1>4, FrontTypes, BackTypes, HandlerTypes, WorkTypes, MaintainTypes,
       EnvironmentTypes DEF Next
  <2> QED
    BY <1>2, <2>1 DEF IInv, TypeOK
<1> QED
  BY <1>3, <1>4

\* Hence it always holds.
LEMMA Invariance == Spec => []IInv
  BY IInvInit, IInvStep, PTL DEF Spec

\* Every variable keeps its type; in particular the counter of the gate is never
\* negative, however contexts are left twice.
THEOREM TypeCorrect == Spec => []TypeOK
<1>1. IInv => TypeOK
  BY DEF IInv
<1> QED
  BY <1>1, Invariance, PTL

\* The counter equals the number of contexts inside: no interleaving of responses,
\* failed sends, disconnects and closes makes it drift (mutation, drain).
THEOREM CounterIsExact == Spec => []Counted
<1>1. IInv => Counted
  BY DEF IInv, GateInv
<1> QED
  BY <1>1, Invariance, PTL

\* Whoever holds the lease excludes every other maintainer and, unless it was forced,
\* every mutation, and authorize() accepts the lease until it is released.
THEOREM LeaseIsExclusive == Spec => []LeaseExclusive
<1>1. IInv => LeaseExclusive
  <2> SUFFICES ASSUME IInv PROVE LeaseExclusive
    OBVIOUS
  <2>1. Counted /\ OneDrainer /\ LeaseHeld
    BY DEF IInv, GateInv
  <2>2. ASSUME NEW m \in Maintainers, NEW n \in Maintainers,
               {mpc[m], mpc[n]} \cap {"idle", "claiming"} = {}
        PROVE  m = n
    BY <2>1, <2>2 DEF OneDrainer, Drainers
  <2>3. ASSUME NEW m \in Maintainers, mpc[m] \in {"leased", "terminating", "closing"}
        PROVE  Authorized(m) /\ (~force[m] => live = {})
    <3>1. lease = m /\ (~force[m] => live = {})
      BY <2>1, <2>3 DEF LeaseHeld
    <3>2. draining
      BY <2>1, <2>3 DEF OneDrainer, Drainers
    <3> QED
      BY <2>1, <3>1, <3>2, CountedIsZero DEF Authorized
  <2> QED
    BY <2>2, <2>3 DEF LeaseExclusive
<1> QED
  BY <1>1, Invariance, PTL

\* No maintainer sleeps in drain() on a condition that has become false.
THEOREM NoWakeupIsLost == Spec => []NoLostWakeup
<1>1. IInv => NoLostWakeup
  BY DEF IInv, GateInv, Awake, NoLostWakeup
<1> QED
  BY <1>1, Invariance, PTL

-----------------------------------------------------------------------------
(* The gate implements the abstract one.                                   *)

Excl == lease # NoLease /\ ~force[lease]

\* The gateway starts where the abstract gate starts.
LEMMA GateInitRefined == Init => Gate!Init
  BY DEF Init, Gate!Init, Drainers

\* Every step of the gateway is a step of the abstract gate or none at all.
LEMMA StepRefined == IInv /\ [Next]_vars => [Gate!Next]_Gate!gate
<1> SUFFICES ASSUME IInv, [Next]_vars PROVE [Gate!Next]_Gate!gate
  OBVIOUS
<1>1. /\ TypeOK /\ Counted /\ OneDrainer /\ LeaseHeld
      /\ mpc \in [Maintainers -> MaintPCs]
      /\ force \in [Maintainers -> BOOLEAN]
      /\ lease \in Maintainers \cup {NoLease} /\ NoLease \notin Maintainers
  BY GatewayAssumption
  DEF IInv, GateInv, TypeOK, OtherTypeOK, GateTypeOK, GatewayAssumption
<1>2. GateStep
  BY <1>1, EveryStepIsGateStep
<1>3. CASE UNCHANGED <<gateVars, mpc, force>>
  BY <1>3 DEF Gate!gate, Drainers, gateVars
<1>4. ASSUME UNCHANGED <<mpc, force>>, NEW t \in Fresh, Enter(t)
      PROVE  Gate!Next
  <2>1. t \in Tokens \ live
    BY DEF Fresh, Referenced
  <2>2. Drainers = {} /\ Drainers' = {}
    BY <1>1, <1>4 DEF Enter, OneDrainer, Drainers
  <2>3. Gate!Begin(t)
    BY <1>4, <2>1, <2>2 DEF Enter, Gate!Begin
  <2> QED
    BY <2>1, <2>3 DEF Gate!Next
<1>5. ASSUME UNCHANGED <<mpc, force>>, NEW t \in Slots, Exit(t)
      PROVE  [Gate!Next]_Gate!gate
  <2>1. live' = live \ {t} /\ UNCHANGED <<Drainers, Excl>>
    BY <1>5 DEF Exit, Drainers, Excl
  <2>2. CASE t \in live
    <3>1. t \in Tokens
      BY <1>1, <2>2 DEF TypeOK, GateTypeOK
    <3>2. Gate!End(t)
      BY <2>1, <2>2 DEF Gate!End, Excl
    <3> QED
      BY <3>1, <3>2 DEF Gate!Next
  <2>3. CASE t \notin live
    BY <2>1, <2>3 DEF Gate!gate, Excl
  <2> QED
    BY <2>2, <2>3
<1>6. ASSUME NEW m \in Maintainers, MaintainRequest(m)
      PROVE  UNCHANGED Gate!gate
  <2>1. lease # m /\ UNCHANGED <<live, lease>>
    BY <1>1, <1>6 DEF MaintainRequest, LeaseHeld, gateVars
  <2>2. /\ UNCHANGED Drainers
        /\ \A n \in Maintainers \ {m} : force'[n] = force[n]
    BY <1>1, <1>6 DEF MaintainRequest, Drainers
  <2> QED
    BY <1>1, <2>1, <2>2 DEF Gate!gate
<1>7. ASSUME NEW m \in Maintainers, MaintainClaim(m)
      PROVE  [Gate!Next]_Gate!gate
  <2>1. CASE draining
    BY <1>7, <2>1 DEF MaintainClaim, Drainers, Gate!gate
  <2>2. CASE ~draining
    <3>1. Drainers = {} /\ lease = NoLease /\ mpc[m] = "claiming"
      BY <1>1, <1>7, <2>2 DEF OneDrainer, LeaseHeld, Drainers, MaintainClaim
    <3>2. /\ UNCHANGED <<live, force>>
          /\ \/ lease' = lease /\ mpc' = [mpc EXCEPT ![m] = "settling"]
             \/ /\ active = 0 \/ force[m]
                /\ lease' = m
                /\ mpc' = [mpc EXCEPT ![m] = "leased"]
      BY <1>7, <2>2 DEF MaintainClaim
    <3>3. Drainers' = {m}
      BY <1>1, <3>1, <3>2 DEF Drainers
    <3>4. Excl' \in {FALSE, live = {}}
      BY <1>1, <3>1, <3>2, CountedIsZero DEF Excl
    <3>5. Gate!Claim(m)
      BY <3>1, <3>2, <3>3, <3>4 DEF Gate!Claim, Excl
    <3> QED
      BY <3>5 DEF Gate!Next
  <2> QED
    BY <2>1, <2>2
<1>8. ASSUME NEW m \in Maintainers, MaintainSettle(m)
      PROVE  Gate!Next
  <2>1. live = {} /\ ~force[m] /\ m # NoLease
    BY <1>1, <1>8, CountedIsZero DEF MaintainSettle, LeaseHeld
  <2>2. /\ UNCHANGED <<live, force>> /\ lease' = m
        /\ mpc[m] = "settling" /\ mpc' = [mpc EXCEPT ![m] = "leased"]
    BY <1>8 DEF MaintainSettle
  <2>3. m \in Drainers /\ Drainers' = Drainers
    BY <1>1, <2>2 DEF Drainers
  <2>4. Gate!Settle
    BY <2>1, <2>2, <2>3 DEF Gate!Settle
  <2> QED
    BY <2>4 DEF Gate!Next
<1>9. ASSUME NEW m \in Maintainers, Move(m)
      PROVE  UNCHANGED Gate!gate
  <2>1. UNCHANGED Drainers
    BY <1>1, <1>9 DEF Move, Drainers
  <2> QED
    BY <1>9, <2>1 DEF Move, gateVars, Gate!gate
<1>10. ASSUME NEW m \in Maintainers, MaintainRelease(m)
       PROVE  Gate!Next
  <2>1. Drainers = {m}
    BY <1>1, <1>10 DEF MaintainRelease, OneDrainer, Drainers
  <2>2. lease' = NoLease /\ UNCHANGED live
    BY <1>1, <1>10, <2>1 DEF MaintainRelease, LeaseHeld, Drainers
  <2>3. Drainers' = {}
    BY <1>1, <1>10, <2>1 DEF MaintainRelease, Drainers
  <2>4. Gate!Release
    BY <2>1, <2>2, <2>3 DEF Gate!Release
  <2> QED
    BY <2>4 DEF Gate!Next
<1> QED
  BY <1>2, <1>3, <1>4, <1>5, <1>6, <1>7, <1>8, <1>9, <1>10 DEF GateStep

\* Bridges, pumps, broker threads and maintainers together behave as the abstract
\* gate: a mutation enters only while nobody drains, drains exclude each other, and
\* a lease that is not forced is issued only when every mutation has left.
THEOREM GateIsImplemented == Spec => GateRefined
  BY GateInitRefined, StepRefined, Invariance, PTL DEF Spec, GateRefined, Gate!Spec
=============================================================================
