------------------------------- MODULE Gateway -------------------------------
(***************************************************************************)
(* The shared-service gateway: ServiceMaintenanceGate and WebSocketGateway *)
(* (websocket_gateway.py), the broker mutations that take the same gate    *)
(* (broker.py), MaintenanceCoordinator (broker.py) and the teardown it     *)
(* authorizes (service.py).                                                *)
(*                                                                         *)
(* Each bridge has three threads: the handler that connects the backend,   *)
(* waits for the frontend pump and closes the bridge; the frontend pump,   *)
(* which takes a mutation token before it forwards a request; and the      *)
(* backend pump, which gives the token back when the response arrives.  A  *)
(* token is one entered `mutation` context manager; leaving it a second    *)
(* time has no effect, as for any exhausted generator.  The gate's         *)
(* condition variable is modelled with its sleepers, so a missing wake-up  *)
(* shows.                                                                  *)
(*                                                                         *)
(* Not modelled: what the frames say, faults sent back to a frontend, and  *)
(* frames that neither register a request nor take a token (responses to   *)
(* server requests, reads without an id).  Sends do not block.             *)
(***************************************************************************)
EXTENDS Integers, FiniteSets

CONSTANTS Bridges,      \* slots for frontend connections, reused when retired
          Keys,         \* JSON-RPC request ids of a frontend
          Workers,      \* broker threads that run a mutation
          Maintainers,  \* threads inside MaintenanceCoordinator._maintain
          ForceModes,   \* the values of `force` a maintainer may ask for
          Tokens,       \* mutation contexts, recycled when nothing refers to them
          Read,         \* _READ_PENDING: registered, holds no token
          NoToken, NoKey, NoLease

ASSUME GatewayAssumption ==
  /\ IsFiniteSet(Tokens)
  /\ Read \notin Tokens /\ NoToken \notin Tokens /\ Read # NoToken
  /\ NoKey \notin Keys
  /\ NoLease \notin Maintainers
  /\ ForceModes \subseteq BOOLEAN

VARIABLES
  active,    \* _active_mutations
  live,      \* the contexts entered and not yet left
  draining,  \* _draining
  lease,     \* _lease: the maintainer it was issued to
  asleep,    \* maintainers in _condition.wait()
  fpc,       \* frontend pump: what it is about to do
  fctx,      \* its local `context` (or Read)
  fkey,      \* its local `key`
  bpc,       \* backend pump
  bctx,      \* the context it popped from pending
  hpc,       \* handler thread of the connection
  pending,   \* bridge.pending
  cpc,       \* progress of _close_bridge: open, releasing, closed
  closer,    \* the thread that runs it
  drop,      \* its local snapshot of the pending tokens
  fopen,     \* the frontend connection is open
  bopen,     \* the backend connection is open
  up,        \* what the Codex child does with a forwarded request
  wpc,       \* broker thread
  wctx,      \* its context
  wup,       \* its upstream call
  turns,     \* active upstream turns, by the standing of the request behind them
  upstream,  \* the Codex child is alive
  link,      \* the broker's own CodexConnection is open
  stopping,  \* _stopping; the gateway no longer accepts connections
  mpc,       \* maintainer thread
  force,     \* its `force` argument
  mode,      \* why it terminates: forced, stopping, clean
  todo       \* the bridges WebSocketGateway.close has still to close

gateVars  == <<active, live, draining, lease, asleep>>
frontVars == <<fpc, fctx, fkey>>
backVars  == <<bpc, bctx>>
closeVars == <<cpc, closer, drop>>
connVars  == <<fopen, bopen>>
workVars  == <<wpc, wctx, wup>>
coreVars  == <<turns, upstream, link>>
maintVars == <<stopping, mpc, force, mode, todo>>
bridgeVars == <<frontVars, backVars, hpc, pending, closeVars, connVars, up>>
otherVars == <<workVars, coreVars, maintVars>>
vars == <<gateVars, bridgeVars, otherVars>>

Slots == Tokens \cup {Read, NoToken}

\* "sending" covers the call of backend.send; "exiting" and "unwinding" are the
\* two context exits, after a notification was sent and after a send failed.
FrontPCs == {"off", "recv", "admitted", "sending", "exiting", "unwinding",
             "leaving", "done"}
BackPCs  == {"off", "recv", "exiting", "forwarding", "done"}
HandlerPCs == {"none", "connected", "joining", "left"}
MaintPCs == {"idle", "claiming", "settling", "leased", "terminating",
             "closing", "releasing"}

GateTypeOK ==
  /\ active \in Nat /\ live \subseteq Tokens
  /\ draining \in BOOLEAN /\ lease \in Maintainers \cup {NoLease}
  /\ asleep \subseteq Maintainers

BridgeTypeOK ==
  /\ fpc \in [Bridges -> FrontPCs] /\ fctx \in [Bridges -> Slots]
  /\ fkey \in [Bridges -> Keys \cup {NoKey}]
  /\ bpc \in [Bridges -> BackPCs] /\ bctx \in [Bridges -> Slots]
  /\ hpc \in [Bridges -> HandlerPCs]
  /\ pending \in [Bridges -> [Keys -> Slots]]
  /\ cpc \in [Bridges -> {"open", "releasing", "closed"}]
  /\ closer \in [Bridges -> {"nobody", "handler", "gateway", "forced"}]
  /\ drop \in [Bridges -> SUBSET Tokens]
  /\ fopen \in [Bridges -> BOOLEAN] /\ bopen \in [Bridges -> BOOLEAN]
  /\ up \in [Bridges -> [Keys -> {"idle", "mutation", "read", "answered"}]]

OtherTypeOK ==
  /\ wpc \in [Workers -> {"idle", "entered", "calling"}]
  /\ wctx \in [Workers -> Slots]
  /\ wup \in [Workers -> {"idle", "running", "answered"}]
  /\ turns \subseteq {"tracked", "orphaned"}
  /\ upstream \in BOOLEAN /\ link \in BOOLEAN /\ stopping \in BOOLEAN
  /\ mpc \in [Maintainers -> MaintPCs] /\ force \in [Maintainers -> BOOLEAN]
  /\ mode \in [Maintainers -> {"none", "forced", "stopping", "clean"}]
  /\ todo \subseteq Bridges

TypeOK == GateTypeOK /\ BridgeTypeOK /\ OtherTypeOK

Init ==
  /\ active = 0 /\ live = {} /\ draining = FALSE /\ lease = NoLease /\ asleep = {}
  /\ fpc = [b \in Bridges |-> "off"] /\ fctx = [b \in Bridges |-> NoToken]
  /\ fkey = [b \in Bridges |-> NoKey]
  /\ bpc = [b \in Bridges |-> "off"] /\ bctx = [b \in Bridges |-> NoToken]
  /\ hpc = [b \in Bridges |-> "none"]
  /\ pending = [b \in Bridges |-> [k \in Keys |-> NoToken]]
  /\ cpc = [b \in Bridges |-> "open"] /\ closer = [b \in Bridges |-> "nobody"]
  /\ drop = [b \in Bridges |-> {}]
  /\ fopen = [b \in Bridges |-> FALSE] /\ bopen = [b \in Bridges |-> FALSE]
  /\ up = [b \in Bridges |-> [k \in Keys |-> "idle"]]
  /\ wpc = [w \in Workers |-> "idle"] /\ wctx = [w \in Workers |-> NoToken]
  /\ wup = [w \in Workers |-> "idle"]
  /\ turns = {} /\ upstream = TRUE /\ link = TRUE /\ stopping = FALSE
  /\ mpc = [m \in Maintainers |-> "idle"] /\ force = [m \in Maintainers |-> FALSE]
  /\ mode = [m \in Maintainers |-> "none"] /\ todo = {}

-----------------------------------------------------------------------------
(* The gate.                                                               *)

\* Contexts some thread or some bridge still refers to.
Referenced ==
  live \cup {fctx[b] : b \in Bridges} \cup {bctx[b] : b \in Bridges}
       \cup {wctx[w] : w \in Workers} \cup (UNION {drop[b] : b \in Bridges})
       \cup {pending[b][k] : b \in Bridges, k \in Keys}

\* A new context object: one nobody refers to.
Fresh == Tokens \ Referenced

\* Mutants of Enter: without the refusal, and without the count.
EnterUngated(t) ==
  /\ active' = active + 1
  /\ live' = live \cup {t}
  /\ UNCHANGED <<draining, lease, asleep>>

EnterUncounted(t) ==
  /\ ~draining
  /\ live' = live \cup {t}
  /\ UNCHANGED <<active, draining, lease, asleep>>

\* mutation().__enter__: refused with ServiceBusyError while draining.
Enter(t) ==
  /\ ~draining
  /\ active' = active + 1
  /\ live' = live \cup {t}
  /\ UNCHANGED <<draining, lease, asleep>>

\* Mutant: the last mutation leaves without notify_all.
ExitSilently(t) ==
  /\ live' = live \ {t}
  /\ active' = IF t \in live THEN active - 1 ELSE active
  /\ UNCHANGED <<draining, lease, asleep>>

\* mutation().__exit__: the last one out wakes every sleeper.
Exit(t) ==
  /\ live' = live \ {t}
  /\ active' = IF t \in live THEN active - 1 ELSE active
  /\ asleep' = IF t \in live /\ active' = 0 THEN {} ELSE asleep
  /\ UNCHANGED <<draining, lease>>

-----------------------------------------------------------------------------
(* The frontend pump: _pump_frontend and _forward_frontend.                *)

\* A mutating frame passes the duplicate check and enters the gate.
FrontMutation(b, k) ==
  /\ fpc[b] = "recv" /\ fopen[b]
  /\ k \in Keys => pending[b][k] = NoToken
  /\ \E t \in Fresh : Enter(t) /\ fctx' = [fctx EXCEPT ![b] = t]
  /\ fkey' = [fkey EXCEPT ![b] = k]
  /\ fpc' = [fpc EXCEPT ![b] = IF k = NoKey THEN "sending" ELSE "admitted"]
  /\ UNCHANGED <<backVars, hpc, pending, closeVars, connVars, up, otherVars>>

\* thread/list, thread/read or turn/interrupt with an id: registered, ungated.
FrontRead(b, k) ==
  /\ fpc[b] = "recv" /\ fopen[b]
  /\ pending[b][k] = NoToken
  /\ pending' = [pending EXCEPT ![b][k] = Read]
  /\ fctx' = [fctx EXCEPT ![b] = Read]
  /\ fkey' = [fkey EXCEPT ![b] = k]
  /\ fpc' = [fpc EXCEPT ![b] = "sending"]
  /\ UNCHANGED <<gateVars, backVars, hpc, closeVars, connVars, up, otherVars>>

\* Mutant: the frame is sent without the token being registered.
FrontRegisterLate(b) ==
  /\ fpc[b] = "admitted"
  /\ fpc' = [fpc EXCEPT ![b] = "sending"]
  /\ UNCHANGED <<gateVars, fctx, fkey, backVars, hpc, pending, closeVars, connVars,
                 up, otherVars>>

\* The token is published in bridge.pending before the frame is sent.
FrontRegister(b) ==
  /\ fpc[b] = "admitted"
  /\ pending' = [pending EXCEPT ![b][fkey[b]] = fctx[b]]
  /\ fpc' = [fpc EXCEPT ![b] = "sending"]
  /\ UNCHANGED <<gateVars, fctx, fkey, backVars, hpc, closeVars, connVars, up,
                 otherVars>>

\* Mutant: the mutation ends when the request is sent, not when it is answered.
FrontSendAndExit(b) ==
  /\ fpc[b] = "sending" /\ bopen[b]
  /\ fpc' = [fpc EXCEPT ![b] = IF fctx[b] = Read THEN "recv" ELSE "exiting"]
  /\ fctx' = [fctx EXCEPT ![b] = IF @ = Read THEN NoToken ELSE @]
  /\ fkey' = [fkey EXCEPT ![b] = NoKey]
  /\ up' = IF fkey[b] = NoKey THEN up
           ELSE [up EXCEPT ![b][fkey[b]] = IF fctx[b] = Read THEN "read" ELSE "mutation"]
  /\ UNCHANGED <<gateVars, backVars, hpc, pending, closeVars, connVars, otherVars>>

FrontSend(b) ==
  /\ fpc[b] = "sending" /\ bopen[b]
  /\ IF fkey[b] = NoKey
     THEN /\ fpc' = [fpc EXCEPT ![b] = "exiting"]
          /\ UNCHANGED <<fctx, fkey, up>>
     ELSE /\ up' = [up EXCEPT ![b][fkey[b]] =
                      IF fctx[b] = Read THEN "read" ELSE "mutation"]
          /\ fpc' = [fpc EXCEPT ![b] = "recv"]
          /\ fctx' = [fctx EXCEPT ![b] = NoToken]
          /\ fkey' = [fkey EXCEPT ![b] = NoKey]
  /\ UNCHANGED <<gateVars, backVars, hpc, pending, closeVars, connVars, otherVars>>

\* Mutant: a failed send unregisters without the identity check.
RetainedAlways(b) == fkey[b] \in Keys

\* The bridge's entry is still the one this thread registered.
Retained(b) == fkey[b] \in Keys /\ pending[b][fkey[b]] = fctx[b]

\* backend.send raises: unregister, and leave the context only if it was ours.
FrontSendFails(b) ==
  /\ fpc[b] = "sending" /\ ~bopen[b]
  /\ pending' = IF Retained(b) THEN [pending EXCEPT ![b][fkey[b]] = NoToken]
                               ELSE pending
  /\ IF fctx[b] # Read /\ (Retained(b) \/ fkey[b] = NoKey)
     THEN /\ fpc' = [fpc EXCEPT ![b] = "unwinding"]
          /\ UNCHANGED fctx
     ELSE /\ fpc' = [fpc EXCEPT ![b] = "leaving"]
          /\ fctx' = [fctx EXCEPT ![b] = NoToken]
  /\ fkey' = [fkey EXCEPT ![b] = NoKey]
  /\ UNCHANGED <<gateVars, backVars, hpc, closeVars, connVars, up, otherVars>>

FrontExit(b) ==
  /\ fpc[b] \in {"exiting", "unwinding"}
  /\ Exit(fctx[b])
  /\ fctx' = [fctx EXCEPT ![b] = NoToken]
  /\ fpc' = [fpc EXCEPT ![b] = IF @ = "exiting" THEN "recv" ELSE "leaving"]
  /\ UNCHANGED <<fkey, backVars, hpc, pending, closeVars, connVars, up, otherVars>>

\* recv raises on a closed frontend, or a send raised: `finally` closes the backend.
FrontLeave(b) ==
  /\ fpc[b] = "leaving" \/ (fpc[b] = "recv" /\ ~fopen[b])
  /\ fpc' = [fpc EXCEPT ![b] = "done"]
  /\ bopen' = [bopen EXCEPT ![b] = FALSE]
  /\ UNCHANGED <<gateVars, fctx, fkey, backVars, hpc, pending, closeVars, fopen,
                 up, otherVars>>

-----------------------------------------------------------------------------
(* The backend pump: _pump_backend.                                        *)

\* A response pops its request.  A frame already received is still read from
\* a connection that has since been closed.
BackRecv(b, k) ==
  /\ bpc[b] = "recv" /\ up[b][k] = "answered"
  /\ up' = [up EXCEPT ![b][k] = "idle"]
  /\ pending' = [pending EXCEPT ![b][k] = NoToken]
  /\ IF pending[b][k] \in Tokens
     THEN /\ bctx' = [bctx EXCEPT ![b] = pending[b][k]]
          /\ bpc' = [bpc EXCEPT ![b] = "exiting"]
     ELSE /\ bpc' = [bpc EXCEPT ![b] = "forwarding"]
          /\ UNCHANGED bctx
  /\ UNCHANGED <<gateVars, frontVars, hpc, closeVars, connVars, otherVars>>

BackExit(b) ==
  /\ bpc[b] = "exiting"
  /\ Exit(bctx[b])
  /\ bctx' = [bctx EXCEPT ![b] = NoToken]
  /\ bpc' = [bpc EXCEPT ![b] = "forwarding"]
  /\ UNCHANGED <<frontVars, hpc, pending, closeVars, connVars, up, otherVars>>

\* frontend.send: a closed frontend ends the pump.
BackForward(b) ==
  /\ bpc[b] = "forwarding"
  /\ bpc' = [bpc EXCEPT ![b] = IF fopen[b] THEN "recv" ELSE "done"]
  /\ UNCHANGED <<gateVars, frontVars, bctx, hpc, pending, closeVars, connVars,
                 up, otherVars>>

\* Mutant: the backend pump ends without closing the frontend.
BackLeaveOnly(b) ==
  /\ bpc[b] = "recv" /\ ~bopen[b]
  /\ bpc' = [bpc EXCEPT ![b] = "done"]
  /\ UNCHANGED <<gateVars, frontVars, bctx, hpc, pending, closeVars, connVars, up,
                 otherVars>>

\* recv raises on a closed backend; `finally` closes the frontend.
BackLeave(b) ==
  /\ bpc[b] = "recv" /\ ~bopen[b]
  /\ bpc' = [bpc EXCEPT ![b] = "done"]
  /\ fopen' = [fopen EXCEPT ![b] = FALSE]
  /\ UNCHANGED <<gateVars, frontVars, bctx, hpc, pending, closeVars, bopen, up,
                 otherVars>>

-----------------------------------------------------------------------------
(* The handler thread, _close_bridge and the peers.                        *)

\* _bridge_values: a bridge is in it from its registration until it is closed.
Registered == {b \in Bridges : hpc[b] \in {"joining", "left"} /\ cpc[b] # "closed"}

\* A frontend is accepted and its backend connected; not registered yet, so a
\* concurrent WebSocketGateway.close does not see it.
HandlerConnect(b) ==
  /\ hpc[b] = "none" /\ ~stopping /\ upstream
  /\ hpc' = [hpc EXCEPT ![b] = "connected"]
  /\ fopen' = [fopen EXCEPT ![b] = TRUE]
  /\ bopen' = [bopen EXCEPT ![b] = TRUE]
  /\ UNCHANGED <<gateVars, frontVars, backVars, pending, closeVars, up, otherVars>>

\* The bridge is registered and both pumps are started.
HandlerRegister(b) ==
  /\ hpc[b] = "connected"
  /\ hpc' = [hpc EXCEPT ![b] = "joining"]
  /\ fpc' = [fpc EXCEPT ![b] = "recv"]
  /\ bpc' = [bpc EXCEPT ![b] = "recv"]
  /\ UNCHANGED <<gateVars, fctx, fkey, bctx, pending, closeVars, connVars, up,
                 otherVars>>

\* Mutant: the pending tokens are cleared but not taken.
BeginCloseForgets(b, who) ==
  /\ cpc[b] = "open"
  /\ cpc' = [cpc EXCEPT ![b] = "releasing"]
  /\ closer' = [closer EXCEPT ![b] = who]
  /\ pending' = [pending EXCEPT ![b] = [k \in Keys |-> NoToken]]
  /\ UNCHANGED drop

\* _close_bridge up to the end of its critical section.
BeginClose(b, who) ==
  /\ cpc[b] = "open"
  /\ cpc' = [cpc EXCEPT ![b] = "releasing"]
  /\ closer' = [closer EXCEPT ![b] = who]
  /\ drop' = [drop EXCEPT ![b] = {pending[b][k] : k \in Keys} \cap Tokens]
  /\ pending' = [pending EXCEPT ![b] = [k \in Keys |-> NoToken]]

\* The frontend pump ended.  The handler closes the bridge, unless the gateway
\* already does, and stops waiting for the backend pump after a second.
HandlerClose(b) ==
  /\ hpc[b] = "joining" /\ fpc[b] = "done"
  /\ hpc' = [hpc EXCEPT ![b] = "left"]
  /\ \/ BeginClose(b, "handler")
     \/ cpc[b] # "open" /\ UNCHANGED <<closeVars, pending>>
  /\ UNCHANGED <<gateVars, frontVars, backVars, connVars, up, otherVars>>

\* The closing thread leaves the contexts it took, one at a time.
CloseRelease(b) ==
  /\ cpc[b] = "releasing" /\ drop[b] # {}
  /\ \E t \in drop[b] : Exit(t) /\ drop' = [drop EXCEPT ![b] = @ \ {t}]
  /\ UNCHANGED <<frontVars, backVars, hpc, pending, cpc, closer, connVars, up,
                 otherVars>>

\* Only then it closes both connections and forgets the bridge.
CloseDisconnect(b) ==
  /\ cpc[b] = "releasing" /\ drop[b] = {}
  /\ cpc' = [cpc EXCEPT ![b] = "closed"]
  /\ fopen' = [fopen EXCEPT ![b] = FALSE]
  /\ bopen' = [bopen EXCEPT ![b] = FALSE]
  /\ UNCHANGED <<gateVars, frontVars, backVars, hpc, pending, closer, drop, up,
                 otherVars>>

\* All threads of the bridge are gone: the slot may serve another frontend.
\* (A bound of the model: not while its last requests still run upstream, and
\* not when it left a token behind.)
HandlerRetire(b) ==
  /\ hpc[b] = "left" /\ fpc[b] = "done" /\ bpc[b] = "done" /\ cpc[b] = "closed"
  /\ \A k \in Keys : up[b][k] # "mutation" /\ pending[b][k] \notin live
  /\ hpc' = [hpc EXCEPT ![b] = "none"]
  /\ fpc' = [fpc EXCEPT ![b] = "off"]
  /\ bpc' = [bpc EXCEPT ![b] = "off"]
  /\ cpc' = [cpc EXCEPT ![b] = "open"]
  /\ closer' = [closer EXCEPT ![b] = "nobody"]
  /\ pending' = [pending EXCEPT ![b] = [k \in Keys |-> NoToken]]
  /\ up' = [up EXCEPT ![b] = [k \in Keys |-> "idle"]]
  /\ UNCHANGED <<gateVars, fctx, fkey, bctx, drop, connVars, otherVars>>

\* The frontend goes away.
FrontDrop(b) ==
  /\ hpc[b] \in {"connected", "joining"} /\ fopen[b]
  /\ fopen' = [fopen EXCEPT ![b] = FALSE]
  /\ UNCHANGED <<gateVars, frontVars, backVars, hpc, pending, closeVars, bopen,
                 up, otherVars>>

-----------------------------------------------------------------------------
(* The Codex child: it executes requests whether or not anybody waits.     *)

\* A mutation may start a turn (turn/start).  The turn is "tracked" if the
\* bridge or broker call of the request still held the gate for it.
MayStartTurn(standing) == turns' \in {turns, turns \cup {standing}}

UpstreamAnswer(b, k) ==
  /\ up[b][k] \in {"mutation", "read"}
  /\ up' = [up EXCEPT ![b][k] = IF bopen[b] THEN "answered" ELSE "idle"]
  /\ IF up[b][k] = "mutation"
     THEN MayStartTurn(IF cpc[b] = "open" THEN "tracked" ELSE "orphaned")
     ELSE UNCHANGED turns
  /\ UNCHANGED <<gateVars, frontVars, backVars, hpc, pending, closeVars,
                 connVars, workVars, upstream, link, maintVars>>

UpstreamReturn(w) ==
  /\ wup[w] = "running"
  /\ wup' = [wup EXCEPT ![w] = IF wpc[w] = "calling" THEN "answered" ELSE "idle"]
  /\ MayStartTurn(IF wpc[w] = "calling" THEN "tracked" ELSE "orphaned")
  /\ UNCHANGED <<gateVars, bridgeVars, wpc, wctx, upstream, link, maintVars>>

TurnEnds ==
  /\ \E s \in turns : turns' = turns \ {s}
  /\ UNCHANGED <<gateVars, bridgeVars, workVars, upstream, link, maintVars>>

-----------------------------------------------------------------------------
(* A broker operation: `with self._gate.mutation(...)` around an upstream  *)
(* call.                                                                   *)

WorkerEnter(w) ==
  /\ wpc[w] = "idle" /\ wup[w] = "idle"
  /\ \E t \in Fresh : Enter(t) /\ wctx' = [wctx EXCEPT ![w] = t]
  /\ wpc' = [wpc EXCEPT ![w] = "entered"]
  /\ UNCHANGED <<bridgeVars, wup, coreVars, maintVars>>

WorkerCall(w) ==
  /\ wpc[w] = "entered" /\ link
  /\ wpc' = [wpc EXCEPT ![w] = "calling"]
  /\ wup' = [wup EXCEPT ![w] = "running"]
  /\ UNCHANGED <<gateVars, bridgeVars, wctx, coreVars, maintVars>>

\* The operation returns, faults before its call, or its call times out; the
\* upstream call goes on after a timeout.
WorkerLeave(w) ==
  /\ wpc[w] \in {"entered", "calling"}
  /\ Exit(wctx[w])
  /\ wctx' = [wctx EXCEPT ![w] = NoToken]
  /\ wpc' = [wpc EXCEPT ![w] = "idle"]
  /\ wup' = [wup EXCEPT ![w] = IF @ = "answered" THEN "idle" ELSE @]
  /\ UNCHANGED <<bridgeVars, coreVars, maintVars>>

-----------------------------------------------------------------------------
(* MaintenanceCoordinator._maintain inside gate.drain(force).              *)

MaintainRequest(m) ==
  /\ mpc[m] = "idle"
  /\ \E f \in ForceModes : force' = [force EXCEPT ![m] = f]
  /\ mpc' = [mpc EXCEPT ![m] = "claiming"]
  /\ UNCHANGED <<gateVars, bridgeVars, workVars, coreVars, stopping, mode, todo>>

\* drain(): sleep while another maintainer drains; then close the gate and, in
\* the same critical section, get the lease or sleep until the mutations end.
MaintainClaim(m) ==
  /\ mpc[m] = "claiming" /\ m \notin asleep
  /\ \/ /\ draining
        /\ asleep' = asleep \cup {m}
        /\ UNCHANGED <<draining, lease, mpc>>
     \/ /\ ~draining /\ active # 0 /\ ~force[m]
        /\ draining' = TRUE
        /\ asleep' = asleep \cup {m}
        /\ mpc' = [mpc EXCEPT ![m] = "settling"]
        /\ UNCHANGED lease
     \/ /\ ~draining /\ (active = 0 \/ force[m])
        /\ draining' = TRUE
        /\ lease' = m
        /\ mpc' = [mpc EXCEPT ![m] = "leased"]
        /\ UNCHANGED asleep
  /\ UNCHANGED <<active, live, bridgeVars, workVars, coreVars, stopping, force,
                 mode, todo>>

\* Mutant: the lease is issued without waiting for the mutations to end.
MaintainSettleAtOnce(m) ==
  /\ mpc[m] = "settling"
  /\ lease' = m
  /\ asleep' = asleep \ {m}
  /\ mpc' = [mpc EXCEPT ![m] = "leased"]
  /\ UNCHANGED <<active, live, draining, bridgeVars, workVars, coreVars, stopping,
                 force, mode, todo>>

\* Woken with the gate closed: nothing can have entered since.
MaintainSettle(m) ==
  /\ mpc[m] = "settling" /\ m \notin asleep
  /\ active = 0
  /\ lease' = m
  /\ mpc' = [mpc EXCEPT ![m] = "leased"]
  /\ UNCHANGED <<active, live, draining, asleep, bridgeVars, workVars, coreVars,
                 stopping, force, mode, todo>>

\* Mutant: the inventory is not looked at.
MaintainDecideBlindly(m) ==
  /\ mpc[m] = "leased"
  /\ mode' = [mode EXCEPT ![m] = IF force[m] THEN "forced"
                                 ELSE IF stopping THEN "stopping" ELSE "clean"]
  /\ mpc' = [mpc EXCEPT ![m] = "terminating"]
  /\ UNCHANGED <<gateVars, bridgeVars, workVars, coreVars, stopping, force, todo>>

\* A forced maintenance terminates whatever the inventory says, or without
\* one; a second stop of a service that is stopping skips the inventory; else
\* the inventory must be empty.
MaintainDecide(m) ==
  /\ mpc[m] = "leased"
  /\ force[m] \/ stopping \/ turns = {}
  /\ mode' = [mode EXCEPT ![m] = IF force[m] THEN "forced"
                                 ELSE IF stopping THEN "stopping" ELSE "clean"]
  /\ mpc' = [mpc EXCEPT ![m] = "terminating"]
  /\ UNCHANGED <<gateVars, bridgeVars, workVars, coreVars, stopping, force, todo>>

\* Active threads, or no inventory: refused.  And the registry may be unreadable, which
\* ends any maintenance but a forced one that finds mutations inside.
MaintainRefuse(m) ==
  /\ mpc[m] = "leased"
  /\ force[m] => active = 0
  /\ mpc' = [mpc EXCEPT ![m] = "releasing"]
  /\ UNCHANGED <<gateVars, bridgeVars, workVars, coreVars, stopping, force, mode,
                 todo>>

\* authorize(lease): a live drain lease of this gate, current, and no mutation
\* inside unless it was forced.
Authorized(m) == lease = m /\ draining /\ (active = 0 \/ force[m])

\* terminate_owned: authorize, then _terminate_resources sets _stopping and
\* WebSocketGateway.close takes its snapshot of the bridges.
MaintainTerminate(m) ==
  /\ mpc[m] = "terminating" /\ Authorized(m)
  /\ stopping' = TRUE
  /\ todo' = Registered
  /\ mpc' = [mpc EXCEPT ![m] = "closing"]
  /\ UNCHANGED <<gateVars, bridgeVars, workVars, coreVars, force, mode>>

\* One _close_bridge after the other; a bridge its handler closes is skipped.
MaintainClose(m, b) ==
  /\ mpc[m] = "closing" /\ b \in todo
  /\ \A c \in todo : cpc[c] = "releasing" => closer[c] = "handler"
  /\ \/ /\ BeginClose(b, IF force[m] THEN "forced" ELSE "gateway")
        /\ UNCHANGED todo
     \/ /\ cpc[b] # "open"
        /\ todo' = todo \ {b}
        /\ UNCHANGED <<closeVars, pending>>
  /\ UNCHANGED <<gateVars, frontVars, backVars, hpc, connVars, up, workVars,
                 coreVars, stopping, mpc, force, mode>>

\* The broker's connection is closed and the process group of the Codex child
\* terminated; that may fail (OwnedTeardownError) and leave the child alive.
MaintainTeardown(m) ==
  /\ mpc[m] = "closing" /\ todo = {}
  /\ link' = FALSE
  /\ \/ /\ upstream' = FALSE
        /\ turns' = {}
        /\ bopen' = [b \in Bridges |-> FALSE]
        /\ up' = [b \in Bridges |-> [k \in Keys |->
                    IF up[b][k] = "answered" THEN "answered" ELSE "idle"]]
        /\ wup' = [w \in Workers |-> IF wup[w] = "answered" THEN "answered" ELSE "idle"]
     \/ UNCHANGED <<upstream, turns, bopen, up, wup>>
  /\ mpc' = [mpc EXCEPT ![m] = "releasing"]
  /\ UNCHANGED <<gateVars, frontVars, backVars, hpc, pending, closeVars, fopen,
                 wpc, wctx, stopping, force, mode, todo>>

\* drain()'s finally: the lease expires, the gate reopens, every sleeper wakes.
MaintainRelease(m) ==
  /\ mpc[m] = "releasing"
  /\ lease' = IF lease = m THEN NoLease ELSE lease
  /\ draining' = FALSE
  /\ asleep' = {}
  /\ mpc' = [mpc EXCEPT ![m] = "idle"]
  /\ force' = [force EXCEPT ![m] = FALSE]
  /\ mode' = [mode EXCEPT ![m] = "none"]
  /\ UNCHANGED <<active, live, bridgeVars, workVars, coreVars, stopping, todo>>

-----------------------------------------------------------------------------

Front(b) == \/ \E k \in Keys \cup {NoKey} : FrontMutation(b, k)
            \/ \E k \in Keys : FrontRead(b, k)
            \/ FrontRegister(b) \/ FrontSend(b) \/ FrontSendFails(b)
            \/ FrontExit(b) \/ FrontLeave(b)

Back(b) == \/ \E k \in Keys : BackRecv(b, k)
           \/ BackExit(b) \/ BackForward(b) \/ BackLeave(b)

Handler(b) == \/ HandlerConnect(b) \/ HandlerRegister(b) \/ HandlerClose(b)
              \/ CloseRelease(b) \/ CloseDisconnect(b) \/ HandlerRetire(b)

Maintain(m) == \/ MaintainRequest(m) \/ MaintainClaim(m) \/ MaintainSettle(m)
               \/ MaintainDecide(m) \/ MaintainRefuse(m) \/ MaintainTerminate(m)
               \/ \E b \in Bridges : MaintainClose(m, b)
               \/ MaintainTeardown(m) \/ MaintainRelease(m)

Work(w) == WorkerEnter(w) \/ WorkerCall(w) \/ WorkerLeave(w)

Environment == \/ \E b \in Bridges : FrontDrop(b)
               \/ \E b \in Bridges, k \in Keys : UpstreamAnswer(b, k)
               \/ \E w \in Workers : UpstreamReturn(w)
               \/ TurnEnds

Next == \/ \E b \in Bridges : Front(b) \/ Back(b) \/ Handler(b)
        \/ \E w \in Workers : Work(w)
        \/ \E m \in Maintainers : Maintain(m)
        \/ Environment

Spec == Init /\ [][Next]_vars

-----------------------------------------------------------------------------
(* Fairness.  Threads that can take a step take it (they are OS threads    *)
(* that block only where an action has a guard); the Codex child answers   *)
(* what it was asked, and answers are read in the order of the connection, *)
(* so none is overtaken forever (strong fairness of BackRecv).  Nothing    *)
(* obliges frontends to connect, send or leave                             *)
(* (FrontMutation, FrontRead, HandlerConnect, FrontDrop), brokers to be    *)
(* called, or maintainers to ask.                                          *)

FrontOwnSteps(b) == \/ FrontRegister(b) \/ FrontSend(b) \/ FrontSendFails(b)
                    \/ FrontExit(b) \/ FrontLeave(b)
HandlerOwnSteps(b) == \/ HandlerRegister(b) \/ HandlerClose(b) \/ CloseRelease(b)
                      \/ CloseDisconnect(b) \/ HandlerRetire(b)
MaintainOwnSteps(m) == \/ MaintainClaim(m) \/ MaintainSettle(m) \/ MaintainDecide(m)
                       \/ MaintainRefuse(m) \/ MaintainTerminate(m)
                       \/ \E b \in Bridges : MaintainClose(m, b)
                       \/ MaintainTeardown(m) \/ MaintainRelease(m)

Fairness ==
  /\ \A b \in Bridges : /\ WF_vars(FrontOwnSteps(b)) /\ WF_vars(Back(b))
                        /\ WF_vars(HandlerOwnSteps(b))
  /\ \A b \in Bridges, k \in Keys : /\ WF_vars(UpstreamAnswer(b, k))
                                     /\ SF_vars(BackRecv(b, k))
  /\ \A w \in Workers : /\ WF_vars(WorkerCall(w) \/ WorkerLeave(w))
                        /\ WF_vars(UpstreamReturn(w))
  /\ \A m \in Maintainers : WF_vars(MaintainOwnSteps(m))

FairSpec == Spec /\ Fairness

-----------------------------------------------------------------------------
(* Properties.                                                             *)

\* The threads and bridges that will still leave context t: a broker operation,
\* a frontend pump that has not handed it over, a backend pump that popped it,
\* a closing thread that took it, a bridge not yet closed.
Hands(t) ==
  {<<"worker", w>> : w \in {w \in Workers : wctx[w] = t}}
  \cup {<<"frontend", b>> : b \in {b \in Bridges :
          /\ fctx[b] = t
          /\ \/ fpc[b] \in {"admitted", "exiting", "unwinding"}
             \/ fpc[b] = "sending" /\ fkey[b] = NoKey}}
  \cup {<<"backend", b>> : b \in {b \in Bridges : bctx[b] = t}}
  \cup {<<"closer", b>> : b \in {b \in Bridges : t \in drop[b]}}
  \cup {<<"pending", p>> : p \in {p \in Bridges \X Keys :
          cpc[p[1]] = "open" /\ pending[p[1]][p[2]] = t}}

\* Context t was registered on a bridge after a forced stop had taken and cleared
\* that bridge's pending table: nobody will ever leave it.
Stranded(t) == \E b \in Bridges, k \in Keys :
                 /\ cpc[b] # "open" /\ closer[b] = "forced"
                 /\ pending[b][k] = t

\* Every mutation counted by the gate will be ended by exactly one thread, whatever
\* the order of responses, disconnects, send failures and closes; only a forced
\* stop can strand one.  (mutation, _forward_frontend, _pump_backend, _close_bridge)
TokensHeld ==
  /\ active = Cardinality(live)
  /\ \A t \in live : \/ Cardinality(Hands(t)) = 1
                     \/ Hands(t) = {} /\ Stranded(t)

\* "A backend-first close must not strand the frontend pump or its mutation tokens"
\* (websocket_gateway.py:464), taken of every close.
NoStrandedTokens == \A t \in live : Hands(t) # {}

\* A request that was forwarded on a bridge still open stays registered, with a live
\* token if it is a mutation, until its response is popped: a fast response cannot
\* outrun the accounting (websocket_gateway.py:407).
ForwardedIsRegistered ==
  \A b \in Bridges, k \in Keys : cpc[b] = "open" =>
    /\ up[b][k] = "mutation" => pending[b][k] \in live
    /\ up[b][k] = "read" => pending[b][k] = Read

\* The maintenance lock: whoever is past the claim excludes every other maintainer
\* and, unless forced, every mutation; and authorize() never refuses the lease it is
\* shown, so a maintainer that decided to terminate does.  (drain, authorize)
LeaseExclusive ==
  /\ \A m, n \in Maintainers :
       {mpc[m], mpc[n]} \cap {"idle", "claiming"} = {} => m = n
  /\ \A m \in Maintainers : mpc[m] \in {"leased", "terminating", "closing"} =>
       Authorized(m) /\ (~force[m] => live = {})

\* No maintainer sleeps on a condition that has become false: every change that can
\* end a wait in drain() notifies.  (mutation and drain, notify_all)
NoLostWakeup ==
  \A m \in asleep : /\ mpc[m] = "claiming" => draining
                    /\ mpc[m] = "settling" => active # 0

\* The service is not torn down over a running turn by a stop that is not forced: a
\* turn whose start was still accounted for when it began is never active between an
\* empty inventory and the teardown.  (_maintain, "refused" when threads are active)
CleanStopSparesTurns ==
  \A m \in Maintainers :
    mode[m] = "clean" /\ mpc[m] \in {"terminating", "closing"} => "tracked" \notin turns

\* With a lease that is not forced, whatever the gate admitted and Codex still executes
\* was given up by its requester, whose bridge was closed or whose broker call timed
\* out.  ("settle forwarded work before maintenance inventory", websocket_gateway.py:87,
\* is more than this: the release of a disconnected frontend's work is deliberate,
\* test_frontend_disconnect_releases_inflight_mutation)
SettledUnlessAbandoned ==
  lease # NoLease /\ ~force[lease] =>
    /\ \A b \in Bridges, k \in Keys : up[b][k] = "mutation" => cpc[b] # "open"
    /\ \A w \in Workers : wup[w] = "running" => wpc[w] = "idle"

\* The threads, wake-ups and bridges together implement the abstract gate.
Drainers == {m \in Maintainers : mpc[m] \notin {"idle", "claiming"}}
Gate == INSTANCE MaintenanceGate
          WITH inside <- live, drainers <- Drainers,
               exclusive <- (lease # NoLease /\ ~force[lease])
GateRefined == Gate!Spec

\* A drain that is not forced always comes to its end: mutations in flight are
\* answered, time out or lose their bridge, and each of these wakes the maintainer.
DrainEnds == draining ~> ~draining

\* Once the Codex child is terminated every bridge is closed and all its threads end,
\* also a bridge registered after WebSocketGateway.close took its snapshot.
BridgesUnwind == ~upstream ~> \A b \in Bridges : hpc[b] = "none"
=============================================================================
