------------------------- MODULE GatewayTokens_proofs -------------------------
(***************************************************************************)
(* Proofs about Gateway, for every value of its constants: who leaves each *)
(* mutation context.                                                       *)
(*                                                                         *)
(* A context passes from hand to hand: the frontend pump that entered it,  *)
(* the pending table of the bridge, then the backend pump that pops the    *)
(* answer or the thread that closes the bridge; or it stays with one       *)
(* broker operation.  Owned says that a context inside the gate is in      *)
(* exactly one of these places and any other in none.  What the threads of *)
(* one bridge may do at the same time is in BridgeOK, and the safety       *)
(* invariants of the gateway follow from these and from the invariant of   *)
(* the gate (Gateway_proofs).                                              *)
(***************************************************************************)
EXTENDS Gateway_proofs

-----------------------------------------------------------------------------
(* The places a context can be in.                                         *)

InWork(t)    == {w \in Workers : wctx[w] = t}
InFront(t)   == {b \in Bridges :
                   /\ fctx[b] = t
                   /\ \/ fpc[b] \in {"admitted", "exiting", "unwinding"}
                      \/ fpc[b] = "sending" /\ fkey[b] = NoKey}
InBack(t)    == {b \in Bridges : bctx[b] = t}
InDrop(t)    == {b \in Bridges : t \in drop[b]}
InPending(t) == {p \in Bridges \X Keys : pending[p[1]][p[2]] = t}

Unheld(t) == /\ InWork(t) = {} /\ InFront(t) = {} /\ InBack(t) = {}
             /\ InDrop(t) = {} /\ InPending(t) = {}

HeldOnce(t) ==
  \/ /\ \E w \in Workers : InWork(t) = {w}
     /\ InFront(t) = {} /\ InBack(t) = {} /\ InDrop(t) = {} /\ InPending(t) = {}
  \/ /\ \E b \in Bridges : InFront(t) = {b}
     /\ InWork(t) = {} /\ InBack(t) = {} /\ InDrop(t) = {} /\ InPending(t) = {}
  \/ /\ \E b \in Bridges : InBack(t) = {b}
     /\ InWork(t) = {} /\ InFront(t) = {} /\ InDrop(t) = {} /\ InPending(t) = {}
  \/ /\ \E b \in Bridges : InDrop(t) = {b}
     /\ InWork(t) = {} /\ InFront(t) = {} /\ InBack(t) = {} /\ InPending(t) = {}
  \/ /\ \E p \in Bridges \X Keys : InPending(t) = {p}
     /\ InWork(t) = {} /\ InFront(t) = {} /\ InBack(t) = {} /\ InDrop(t) = {}

Owned == \A t \in Tokens : IF t \in live THEN HeldOnce(t) ELSE Unheld(t)

-----------------------------------------------------------------------------
(* What the threads of one bridge may do at the same time.                 *)

\* The locals of the two pumps follow their program counters.
PumpOK(b) ==
  /\ fpc[b] \in {"off", "recv", "leaving", "done"} => fctx[b] = NoToken
  /\ fpc[b] \in {"admitted", "exiting", "unwinding"} => fctx[b] \in Tokens
  /\ fpc[b] = "sending" =>
       fctx[b] \in (IF fkey[b] = NoKey THEN Tokens ELSE Tokens \cup {Read})
  /\ fpc[b] = "admitted" => fkey[b] \in Keys /\ pending[b][fkey[b]] = NoToken
  /\ bpc[b] = "exiting" <=> bctx[b] # NoToken
  /\ bctx[b] # Read
  /\ cpc[b] # "releasing" => drop[b] = {}

\* The life of a bridge, and who closes it.  The gateway closes one only inside a
\* drain, so while no context is inside and before any can enter.
LifeOK(b) ==
  /\ hpc[b] \in {"none", "connected"} => fpc[b] = "off" /\ bpc[b] = "off"
  /\ hpc[b] = "none" => ~fopen[b] /\ (cpc[b] # "open" => stopping)
  /\ hpc[b] = "connected" => cpc[b] = "open"
  /\ hpc[b] = "left" => fpc[b] = "done" /\ cpc[b] # "open"
  /\ cpc[b] = "closed" => ~fopen[b]
  /\ cpc[b] = "open" <=> closer[b] = "nobody"
  /\ closer[b] = "handler" => fpc[b] = "done"
  /\ closer[b] = "gateway" => fpc[b] # "admitted"
  /\ closer[b] = "gateway" /\ cpc[b] = "releasing" =>
       \E m \in Maintainers : mpc[m] = "closing" /\ ~force[m] /\ b \in todo

\* Only after a forced close can a context be registered that nobody will leave.
ClosedOK(b) ==
  closer[b] \in {"handler", "gateway"} => \A k \in Keys : pending[b][k] \notin Tokens

\* On an open bridge what is forwarded is registered, and one request of a key at a time.
OpenOK(b) ==
  cpc[b] = "open" =>
    /\ fkey[b] \in Keys /\ fpc[b] \in {"admitted", "sending"} => up[b][fkey[b]] = "idle"
    /\ fkey[b] \in Keys /\ fpc[b] = "sending" => pending[b][fkey[b]] = fctx[b]
    /\ \A k \in Keys : /\ up[b][k] = "mutation" => pending[b][k] \in Tokens
                       /\ up[b][k] = "read" => pending[b][k] = Read
                       /\ up[b][k] = "answered" => pending[b][k] # NoToken

BridgeOK(b) == PumpOK(b) /\ LifeOK(b) /\ ClosedOK(b) /\ OpenOK(b)

\* The context of a broker operation is that of its `with` block.
WorkOK == \A w \in Workers : (wpc[w] = "idle" <=> wctx[w] = NoToken) /\ wctx[w] # Read

TokenInv == Owned /\ WorkOK /\ \A b \in Bridges : BridgeOK(b)

\* Once the gateway closes bridges none is connected any more.
StopOK ==
  \A m \in Maintainers :
    mpc[m] = "closing" => stopping /\ \A b \in todo : hpc[b] # "connected"

\* A stop that found the inventory empty is not forced, and no turn was started on
\* behalf of anybody since.
CleanOK ==
  \A m \in Maintainers :
    mode[m] = "clean" /\ mpc[m] \in {"terminating", "closing"} =>
      ~force[m] /\ "tracked" \notin turns

GatewayInv == IInv /\ TokenInv /\ StopOK /\ CleanOK

-----------------------------------------------------------------------------
(* Lemmas about ownership.                                                 *)

\* Whatever thread or table refers to a context, that context is inside.
LEMMA HeldIsLive ==
  ASSUME Owned, NEW t \in Tokens, ~Unheld(t)
  PROVE  t \in live /\ HeldOnce(t)
  BY DEF Owned

\* Who has a context is the only one that has it.
LEMMA WorkHas ==
  ASSUME Owned, NEW t \in Tokens, NEW w \in Workers, wctx[w] = t
  PROVE  /\ t \in live /\ InWork(t) = {w} /\ InFront(t) = {} /\ InBack(t) = {}
         /\ InDrop(t) = {} /\ InPending(t) = {}
<1>1. w \in InWork(t)
  BY DEF InWork
<1> QED
  BY <1>1, HeldIsLive DEF Unheld, HeldOnce

LEMMA FrontHas ==
  ASSUME Owned, NEW t \in Tokens, NEW b, b \in InFront(t)
  PROVE  /\ t \in live /\ InFront(t) = {b} /\ InWork(t) = {} /\ InBack(t) = {}
         /\ InDrop(t) = {} /\ InPending(t) = {}
  BY HeldIsLive DEF Unheld, HeldOnce

LEMMA BackHas ==
  ASSUME Owned, NEW t \in Tokens, NEW b \in Bridges, bctx[b] = t
  PROVE  /\ t \in live /\ InBack(t) = {b} /\ InWork(t) = {} /\ InFront(t) = {}
         /\ InDrop(t) = {} /\ InPending(t) = {}
<1>1. b \in InBack(t)
  BY DEF InBack
<1> QED
  BY <1>1, HeldIsLive DEF Unheld, HeldOnce

LEMMA DropHas ==
  ASSUME Owned, NEW t \in Tokens, NEW b \in Bridges, t \in drop[b]
  PROVE  /\ t \in live /\ InDrop(t) = {b} /\ InWork(t) = {} /\ InFront(t) = {}
         /\ InBack(t) = {} /\ InPending(t) = {}
<1>1. b \in InDrop(t)
  BY DEF InDrop
<1> QED
  BY <1>1, HeldIsLive DEF Unheld, HeldOnce

LEMMA PendingHas ==
  ASSUME Owned, NEW t \in Tokens, NEW b \in Bridges, NEW k \in Keys, pending[b][k] = t
  PROVE  /\ t \in live /\ InWork(t) = {} /\ InFront(t) = {} /\ InBack(t) = {}
         /\ InDrop(t) = {} /\ InPending(t) = {<<b, k>>}
         /\ \A c \in Bridges, l \in Keys : pending[c][l] = t <=> c = b /\ l = k
<1>1. <<b, k>> \in InPending(t)
  BY DEF InPending
<1>2. InPending(t) # {}
  BY <1>1
<1>3. t \in live /\ HeldOnce(t)
  BY <1>2, HeldIsLive DEF Unheld
<1>4. PICK p : InPending(t) = {p}
  BY <1>2, <1>3 DEF HeldOnce
<1>5. InPending(t) = {<<b, k>>}
  BY <1>1, <1>4
<1>6. ASSUME NEW c \in Bridges, NEW l \in Keys, pending[c][l] = t
      PROVE  c = b /\ l = k
  <2>1. <<c, l>> \in InPending(t)
    BY <1>6 DEF InPending
  <2> QED
    BY <1>5, <2>1
<1> QED
  BY <1>2, <1>3, <1>5, <1>6 DEF HeldOnce

\* A new context is in no place.
LEMMA FreshIsUnheld ==
  ASSUME NEW t \in Fresh
  PROVE  /\ t \in Tokens /\ t \notin live
         /\ Unheld(t)
         /\ \A b \in Bridges : fctx[b] # t /\ bctx[b] # t /\ t \notin drop[b]
         /\ \A b \in Bridges, k \in Keys : pending[b][k] # t
         /\ \A w \in Workers : wctx[w] # t
<1>1. t \in Tokens /\ t \notin Referenced
  BY DEF Fresh
<1>2. /\ t \notin live
      /\ t \notin {fctx[b] : b \in Bridges}
      /\ t \notin {bctx[b] : b \in Bridges}
      /\ t \notin {wctx[w] : w \in Workers}
      /\ t \notin UNION {drop[b] : b \in Bridges}
      /\ t \notin {pending[b][k] : b \in Bridges, k \in Keys}
  BY <1>1 DEF Referenced
<1>3. /\ \A b \in Bridges : fctx[b] # t /\ bctx[b] # t /\ t \notin drop[b]
      /\ \A b \in Bridges, k \in Keys : pending[b][k] # t
      /\ \A w \in Workers : wctx[w] # t
  BY <1>2
<1>4. InPending(t) = {}
  BY <1>3 DEF InPending
<1>5. InWork(t) = {} /\ InFront(t) = {} /\ InBack(t) = {} /\ InDrop(t) = {}
  BY <1>3 DEF InWork, InFront, InBack, InDrop
<1> QED
  BY <1>1, <1>2, <1>3, <1>4, <1>5 DEF Unheld

\* The five places of a context are what they were.
Stays(t) == /\ InWork(t)' = InWork(t) /\ InFront(t)' = InFront(t)
            /\ InBack(t)' = InBack(t) /\ InDrop(t)' = InDrop(t)
            /\ InPending(t)' = InPending(t)

\* The pending tables as a set of places: one entry, and none.
LEMMA PendingOnce ==
  ASSUME NEW P, NEW t, NEW b \in Bridges, NEW k \in Keys,
         \A c \in Bridges, l \in Keys : P[c][l] = t <=> c = b /\ l = k
  PROVE  {p \in Bridges \X Keys : P[p[1]][p[2]] = t} = {<<b, k>>}
<1>1. ASSUME NEW p \in Bridges \X Keys, P[p[1]][p[2]] = t
      PROVE  p = <<b, k>>
  BY <1>1
<1>2. <<b, k>> \in {p \in Bridges \X Keys : P[p[1]][p[2]] = t}
  OBVIOUS
<1> QED
  BY <1>1, <1>2

LEMMA PendingNowhere ==
  ASSUME NEW P, NEW t
  PROVE  {p \in Bridges \X Keys : P[p[1]][p[2]] = t} = {}
           <=> \A c \in Bridges, l \in Keys : P[c][l] # t
<1>1. ASSUME NEW c \in Bridges, NEW l \in Keys, P[c][l] = t
      PROVE  <<c, l>> \in {p \in Bridges \X Keys : P[p[1]][p[2]] = t}
  BY <1>1
<1> QED
  BY <1>1

\* A step that moves nothing, or that hands each context it moves to one place.
LEMMA OwnedMove ==
  ASSUME Owned, live' = live,
         \A t \in Tokens : Stays(t) \/ (t \in live /\ HeldOnce(t)')
  PROVE  Owned'
<1>1. ASSUME NEW t \in Tokens, Stays(t)
      PROVE  HeldOnce(t)' = HeldOnce(t) /\ Unheld(t)' = Unheld(t)
  BY <1>1 DEF Stays, HeldOnce, Unheld
<1> QED
  BY <1>1 DEF Owned

\* A step that only the frontend pumps notice.
LEMMA OwnedSame ==
  ASSUME Owned, UNCHANGED <<live, wctx, bctx, drop, pending>>,
         \A u \in Tokens : InFront(u)' = InFront(u)
  PROVE  Owned'
<1>1. \A u \in Tokens : Stays(u)
  BY DEF Stays, InWork, InBack, InDrop, InPending
<1> QED
  BY <1>1, OwnedMove

\* A context enters into one place.
LEMMA OwnedEnter ==
  ASSUME Owned, NEW t \in Tokens, live' = live \cup {t}, HeldOnce(t)',
         \A u \in Tokens \ {t} : Stays(u)
  PROVE  Owned'
<1>1. ASSUME NEW u \in Tokens, Stays(u)
      PROVE  HeldOnce(u)' = HeldOnce(u) /\ Unheld(u)' = Unheld(u)
  BY <1>1 DEF Stays, HeldOnce, Unheld
<1> QED
  BY <1>1 DEF Owned

\* A context is left by the only place that has it.
LEMMA OwnedExit ==
  ASSUME Owned, NEW t \in Tokens, live' = live \ {t}, Unheld(t)',
         \A u \in Tokens \ {t} : Stays(u)
  PROVE  Owned'
<1>1. ASSUME NEW u \in Tokens, Stays(u)
      PROVE  HeldOnce(u)' = HeldOnce(u) /\ Unheld(u)' = Unheld(u)
  BY <1>1 DEF Stays, HeldOnce, Unheld
<1> QED
  BY <1>1 DEF Owned

-----------------------------------------------------------------------------
(* Lemmas about bridges.                                                   *)

\* The step leaves bridge c alone.
Untouched(c) ==
  /\ fpc'[c] = fpc[c] /\ fctx'[c] = fctx[c] /\ fkey'[c] = fkey[c]
  /\ bpc'[c] = bpc[c] /\ bctx'[c] = bctx[c] /\ hpc'[c] = hpc[c]
  /\ pending'[c] = pending[c] /\ cpc'[c] = cpc[c] /\ closer'[c] = closer[c]
  /\ drop'[c] = drop[c] /\ fopen'[c] = fopen[c] /\ up'[c] = up[c]

LEMMA UntouchedBridge ==
  ASSUME NEW c, BridgeOK(c), Untouched(c), UNCHANGED <<stopping, mpc, force, todo>>
  PROVE  BridgeOK(c)'
<1>1. PumpOK(c)'
  BY DEF BridgeOK, PumpOK, Untouched
<1>2. LifeOK(c)'
  BY DEF BridgeOK, LifeOK, Untouched
<1>3. ClosedOK(c)' /\ OpenOK(c)'
  BY DEF BridgeOK, ClosedOK, OpenOK, Untouched
<1> QED
  BY <1>1, <1>2, <1>3 DEF BridgeOK

\* What the proofs below use of the assumptions and of the invariants.
LEMMA TokenFacts ==
  ASSUME IInv, TokenInv, NEW b \in Bridges
  PROVE  /\ BridgeTypeOK /\ Owned /\ WorkOK /\ BridgeOK(b)
         /\ \A c \in Bridges : BridgeOK(c)
         /\ NoKey \notin Keys /\ NoToken \notin Tokens
         /\ Read \notin Tokens /\ Read # NoToken
  BY GatewayAssumption DEF IInv, TypeOK, TokenInv, GatewayAssumption

-----------------------------------------------------------------------------
(* The frontend pump.                                                      *)

\* FrontMutation: the pump holds the context it enters.
LEMMA FrontMutationKeeps ==
  ASSUME IInv, TokenInv, NEW b \in Bridges, NEW k \in Keys \cup {NoKey},
         FrontMutation(b, k)
  PROVE  TokenInv'
<1>1. /\ BridgeTypeOK /\ Owned /\ WorkOK /\ BridgeOK(b)
      /\ NoKey \notin Keys /\ NoToken \notin Tokens /\ Read # NoToken
  BY TokenFacts
<1>2. PICK t \in Fresh : Enter(t) /\ fctx' = [fctx EXCEPT ![b] = t]
  BY DEF FrontMutation
<1>3. /\ fctx'[b] = t /\ fkey'[b] = k /\ fpc[b] = "recv" /\ fopen[b]
      /\ fpc'[b] = IF k = NoKey THEN "sending" ELSE "admitted"
      /\ k \in Keys => pending[b][k] = NoToken
      /\ UNCHANGED <<bpc, bctx, hpc, pending, cpc, closer, drop, fopen, bopen, up,
                     wpc, wctx, stopping, mpc, force, todo>>
      /\ live' = live \cup {t} /\ ~draining
      /\ \A c \in Bridges \ {b} : /\ fpc'[c] = fpc[c] /\ fctx'[c] = fctx[c]
                                  /\ fkey'[c] = fkey[c]
  BY <1>1, <1>2 DEF FrontMutation, Enter, BridgeTypeOK, backVars, closeVars, connVars,
                    otherVars, workVars, maintVars
<1>4. ASSUME NEW c \in Bridges \ {b}
      PROVE  BridgeOK(c)'
  BY <1>3, UntouchedBridge DEF Untouched, TokenInv
<1>5. BridgeOK(b)'
  <2>1. \A m \in Maintainers : mpc[m] # "closing"
    BY <1>3 DEF IInv, GateInv, OneDrainer, Drainers
  <2>2. t \in Tokens
    BY FreshIsUnheld
  <2>3. closer[b] \notin {"handler", "gateway"}
    BY <1>1, <1>3, <2>1 DEF BridgeOK, LifeOK, BridgeTypeOK
  <2>4. PumpOK(b)'
    BY <1>1, <1>3, <2>2 DEF BridgeOK, PumpOK
  <2>5. LifeOK(b)'
    BY <1>1, <1>3, <2>3 DEF BridgeOK, LifeOK
  <2>6. ClosedOK(b)' /\ OpenOK(b)'
    BY <1>1, <1>3, <2>2, <2>3 DEF BridgeOK, ClosedOK, OpenOK, BridgeTypeOK
  <2> QED
    BY <2>4, <2>5, <2>6 DEF BridgeOK
<1>6. Owned'
  <2>1. /\ t \in Tokens /\ Unheld(t)
        /\ \A c \in Bridges : fctx[c] # t
    BY FreshIsUnheld
  <2>2. \A u : /\ InWork(u)' = InWork(u) /\ InBack(u)' = InBack(u)
               /\ InDrop(u)' = InDrop(u) /\ InPending(u)' = InPending(u)
    BY <1>3 DEF InWork, InBack, InDrop, InPending
  <2>3. InFront(t)' = {b}
    BY <1>3, <2>1 DEF InFront
  <2>4. \A u \in Tokens \ {t} : InFront(u)' = InFront(u)
    BY <1>3 DEF InFront
  <2>5. HeldOnce(t)'
    BY <2>1, <2>2, <2>3 DEF HeldOnce, Unheld
  <2> QED
    BY <1>1, <1>3, <2>1, <2>2, <2>4, <2>5, OwnedEnter DEF Stays
<1>7. WorkOK'
  BY <1>1, <1>3 DEF WorkOK
<1> QED
  BY <1>4, <1>5, <1>6, <1>7 DEF TokenInv

\* FrontRead: a read takes no context.
LEMMA FrontReadKeeps ==
  ASSUME IInv, TokenInv, NEW b \in Bridges, NEW k \in Keys, FrontRead(b, k)
  PROVE  TokenInv'
<1>1. /\ BridgeTypeOK /\ Owned /\ WorkOK /\ BridgeOK(b)
      /\ NoKey \notin Keys /\ NoToken \notin Tokens
      /\ Read \notin Tokens /\ Read # NoToken
  BY TokenFacts
<1>2. /\ fctx'[b] = Read /\ fkey'[b] = k /\ fpc[b] = "recv" /\ fpc'[b] = "sending"
      /\ pending[b][k] = NoToken
      /\ pending'[b] = [pending[b] EXCEPT ![k] = Read]
      /\ UNCHANGED <<live, bpc, bctx, hpc, cpc, closer, drop, fopen, bopen, up, wpc,
                     wctx, stopping, mpc, force, todo>>
      /\ \A c \in Bridges \ {b} : /\ fpc'[c] = fpc[c] /\ fctx'[c] = fctx[c]
                                  /\ fkey'[c] = fkey[c] /\ pending'[c] = pending[c]
  BY <1>1 DEF FrontRead, BridgeTypeOK, gateVars, backVars, closeVars, connVars, otherVars,
              workVars, maintVars
<1>3. /\ pending'[b][k] = Read
      /\ \A l \in Keys \ {k} : pending'[b][l] = pending[b][l]
  BY <1>1, <1>2 DEF BridgeTypeOK
<1>4. ASSUME NEW c \in Bridges \ {b}
      PROVE  BridgeOK(c)'
  BY <1>2, UntouchedBridge DEF Untouched, TokenInv
<1>5. BridgeOK(b)'
  <2>1. PumpOK(b)' /\ LifeOK(b)'
    BY <1>1, <1>2 DEF BridgeOK, PumpOK, LifeOK
  <2>2. ClosedOK(b)'
    BY <1>1, <1>2, <1>3 DEF BridgeOK, ClosedOK
  <2>3. OpenOK(b)'
    BY <1>1, <1>2, <1>3 DEF BridgeOK, OpenOK, BridgeTypeOK
  <2> QED
    BY <2>1, <2>2, <2>3 DEF BridgeOK
<1>6. Owned'
  <2> SUFFICES ASSUME NEW u \in Tokens PROVE Stays(u)
    BY <1>1, <1>2, OwnedMove
  <2>1. /\ InWork(u)' = InWork(u) /\ InBack(u)' = InBack(u)
        /\ InDrop(u)' = InDrop(u)
    BY <1>2 DEF InWork, InBack, InDrop
  <2>2. InFront(u)' = InFront(u)
    BY <1>1, <1>2 DEF InFront
  <2>3. \A c \in Bridges, l \in Keys : pending'[c][l] = u <=> pending[c][l] = u
    BY <1>1, <1>2, <1>3
  <2>4. InPending(u)' = InPending(u)
    BY <2>3 DEF InPending
  <2> QED
    BY <2>1, <2>2, <2>4 DEF Stays
<1>7. WorkOK'
  BY <1>1, <1>2 DEF WorkOK
<1> QED
  BY <1>4, <1>5, <1>6, <1>7 DEF TokenInv

\* FrontRegister: the pump hands its context to the pending table.
LEMMA FrontRegisterKeeps ==
  ASSUME IInv, TokenInv, NEW b \in Bridges, FrontRegister(b)
  PROVE  TokenInv'
<1>0. PICK t, k : t = fctx[b] /\ k = fkey[b]
  OBVIOUS
<1>1. /\ BridgeTypeOK /\ Owned /\ WorkOK /\ BridgeOK(b)
      /\ NoKey \notin Keys /\ NoToken \notin Tokens
      /\ Read \notin Tokens /\ Read # NoToken
  BY TokenFacts
<1>2. /\ fpc[b] = "admitted" /\ fpc'[b] = "sending"
      /\ pending'[b] = [pending[b] EXCEPT ![k] = t]
      /\ UNCHANGED <<live, fctx, fkey, bpc, bctx, hpc, cpc, closer, drop, fopen, bopen,
                     up, wpc, wctx, stopping, mpc, force, todo>>
      /\ \A c \in Bridges \ {b} : fpc'[c] = fpc[c] /\ pending'[c] = pending[c]
  BY <1>0, <1>1 DEF FrontRegister, BridgeTypeOK, gateVars, backVars, closeVars, connVars,
              otherVars, workVars, maintVars
<1>3. k \in Keys /\ t \in Tokens /\ pending[b][k] = NoToken
  BY <1>0, <1>1, <1>2 DEF BridgeOK, PumpOK
<1>4. /\ pending'[b][k] = t
      /\ \A l \in Keys \ {k} : pending'[b][l] = pending[b][l]
  BY <1>1, <1>2, <1>3 DEF BridgeTypeOK
<1>5. ASSUME NEW c \in Bridges \ {b}
      PROVE  BridgeOK(c)'
  BY <1>2, UntouchedBridge DEF Untouched, TokenInv
<1>6. BridgeOK(b)'
  <2>1. PumpOK(b)' /\ LifeOK(b)'
    BY <1>0, <1>1, <1>2, <1>3 DEF BridgeOK, PumpOK, LifeOK
  <2>2. closer[b] \notin {"handler", "gateway"}
    BY <1>1, <1>2 DEF BridgeOK, LifeOK
  <2>3. ClosedOK(b)'
    BY <1>2, <2>2 DEF ClosedOK
  <2>4. OpenOK(b)'
    BY <1>0, <1>1, <1>2, <1>3, <1>4 DEF BridgeOK, OpenOK, BridgeTypeOK
  <2> QED
    BY <2>1, <2>3, <2>4 DEF BridgeOK
<1>7. Owned'
  <2>1. \A u : /\ InWork(u)' = InWork(u) /\ InBack(u)' = InBack(u)
               /\ InDrop(u)' = InDrop(u)
    BY <1>2 DEF InWork, InBack, InDrop
  <2>2. b \in InFront(t)
    BY <1>0, <1>2 DEF InFront
  <2>3. /\ t \in live /\ InFront(t) = {b} /\ InWork(t) = {} /\ InBack(t) = {}
        /\ InDrop(t) = {} /\ InPending(t) = {}
    BY <1>1, <1>3, <2>2, FrontHas
  <2>4. InFront(t)' = {}
    BY <1>0, <1>1, <1>2, <1>3, <2>3 DEF InFront
  <2>5. InPending(t)' = {<<b, k>>}
    <3>1. \A c \in Bridges, l \in Keys : pending[c][l] # t
      BY <2>3, PendingNowhere DEF InPending
    <3>2. \A c \in Bridges, l \in Keys : pending'[c][l] = t <=> c = b /\ l = k
      <4>1. ASSUME NEW c \in Bridges \ {b}, NEW l \in Keys
            PROVE  pending'[c][l] # t
        BY <1>2, <3>1
      <4>2. ASSUME NEW l \in Keys \ {k}
            PROVE  pending'[b][l] # t
        BY <1>4, <3>1
      <4> QED
        BY <1>4, <4>1, <4>2
    <3> QED
      BY <1>3, <3>2, PendingOnce DEF InPending
  <2>6. HeldOnce(t)'
    <3>1. <<b, k>> \in Bridges \X Keys
      BY <1>3
    <3> QED
      BY <2>1, <2>3, <2>4, <2>5, <3>1 DEF HeldOnce
  <2>7. ASSUME NEW u \in Tokens \ {t}
        PROVE  Stays(u)
    <3>1. InFront(u)' = InFront(u)
      BY <1>0, <1>2 DEF InFront
    <3>2. \A c \in Bridges, l \in Keys : pending'[c][l] = u <=> pending[c][l] = u
      BY <1>1, <1>2, <1>3, <1>4
    <3>3. InPending(u)' = InPending(u)
      BY <3>2 DEF InPending
    <3> QED
      BY <2>1, <3>1, <3>3 DEF Stays
  <2> QED
    BY <1>1, <1>2, <1>3, <2>3, <2>6, <2>7, OwnedMove
<1>8. WorkOK'
  BY <1>1, <1>2 DEF WorkOK
<1> QED
  BY <1>5, <1>6, <1>7, <1>8 DEF TokenInv

\* FrontSend: a notification's context stays with the pump, a request's is no longer
\* the pump's business.
LEMMA FrontSendKeeps ==
  ASSUME IInv, TokenInv, NEW b \in Bridges, FrontSend(b)
  PROVE  TokenInv'
<1>1. /\ BridgeTypeOK /\ Owned /\ WorkOK /\ BridgeOK(b)
      /\ NoKey \notin Keys /\ NoToken \notin Tokens
      /\ Read \notin Tokens /\ Read # NoToken
  BY TokenFacts
<1>2. /\ fpc[b] = "sending" /\ fpc'[b] = IF fkey[b] = NoKey THEN "exiting" ELSE "recv"
      /\ fkey'[b] = NoKey /\ fctx'[b] = IF fkey[b] = NoKey THEN fctx[b] ELSE NoToken
      /\ UNCHANGED <<live, pending, bpc, bctx, hpc, cpc, closer, drop, fopen, bopen,
                     wpc, wctx, stopping, mpc, force, todo>>
      /\ \A c \in Bridges \ {b} : /\ fpc'[c] = fpc[c] /\ fctx'[c] = fctx[c]
                                  /\ fkey'[c] = fkey[c] /\ up'[c] = up[c]
  BY <1>1 DEF FrontSend, BridgeTypeOK, gateVars, backVars, closeVars, connVars,
              otherVars, workVars, maintVars
<1>3. /\ \A l \in Keys \ {fkey[b]} : up'[b][l] = up[b][l]
      /\ fkey[b] \in Keys => up'[b][fkey[b]] = IF fctx[b] = Read THEN "read"
                                              ELSE "mutation"
  BY <1>1 DEF FrontSend, BridgeTypeOK
<1>4. fctx[b] \in (IF fkey[b] = NoKey THEN Tokens ELSE Tokens \cup {Read})
  BY <1>1, <1>2 DEF BridgeOK, PumpOK
<1>5. ASSUME NEW c \in Bridges \ {b}
      PROVE  BridgeOK(c)'
  BY <1>2, UntouchedBridge DEF Untouched, TokenInv
<1>6. BridgeOK(b)'
  <2>1. PumpOK(b)' /\ LifeOK(b)' /\ ClosedOK(b)'
    BY <1>1, <1>2, <1>4 DEF BridgeOK, PumpOK, LifeOK, ClosedOK
  <2>2. ASSUME cpc[b] = "open", NEW l \in Keys
        PROVE  /\ up'[b][l] = "mutation" => pending[b][l] \in Tokens
               /\ up'[b][l] = "read" => pending[b][l] = Read
               /\ up'[b][l] = "answered" => pending[b][l] # NoToken
    <3>1. CASE l = fkey[b]
      <4>1. pending[b][l] = fctx[b]
        BY <1>1, <1>2, <2>2, <3>1 DEF BridgeOK, OpenOK
      <4> QED
        BY <1>1, <1>3, <1>4, <3>1, <4>1
    <3>2. CASE l # fkey[b]
      BY <1>1, <1>3, <2>2, <3>2 DEF BridgeOK, OpenOK
    <3> QED
      BY <3>1, <3>2
  <2>3. OpenOK(b)'
    BY <1>1, <1>2, <2>2 DEF OpenOK
  <2> QED
    BY <2>1, <2>3 DEF BridgeOK
<1>7. Owned'
  <2>1. \A u \in Tokens : InFront(u)' = InFront(u)
    BY <1>1, <1>2 DEF InFront
  <2> QED
    BY <1>1, <1>2, <2>1, OwnedSame
<1>8. WorkOK'
  BY <1>1, <1>2 DEF WorkOK
<1> QED
  BY <1>5, <1>6, <1>7, <1>8 DEF TokenInv

\* FrontSendFails: the pump takes its context back only if the table still had it.
LEMMA FrontSendFailsKeeps ==
  ASSUME IInv, TokenInv, NEW b \in Bridges, FrontSendFails(b)
  PROVE  TokenInv'
<1>0. PICK t, k : t = fctx[b] /\ k = fkey[b]
  OBVIOUS
<1>1. /\ BridgeTypeOK /\ Owned /\ WorkOK /\ BridgeOK(b)
      /\ NoKey \notin Keys /\ NoToken \notin Tokens
      /\ Read \notin Tokens /\ Read # NoToken
  BY TokenFacts
<1>2. /\ fpc[b] = "sending" /\ fkey'[b] = NoKey
      /\ UNCHANGED <<live, bpc, bctx, hpc, cpc, closer, drop, fopen, bopen, up,
                     wpc, wctx, stopping, mpc, force, todo>>
      /\ \A c \in Bridges \ {b} : /\ fpc'[c] = fpc[c] /\ fctx'[c] = fctx[c]
                                  /\ fkey'[c] = fkey[c] /\ pending'[c] = pending[c]
      /\ \/ fpc'[b] = "unwinding" /\ fctx'[b] = t
         \/ fpc'[b] = "leaving" /\ fctx'[b] = NoToken
  BY <1>0, <1>1 DEF FrontSendFails, BridgeTypeOK, gateVars, backVars, closeVars, connVars,
              otherVars, workVars, maintVars
<1>3. t \in (IF k = NoKey THEN Tokens ELSE Tokens \cup {Read}) /\ k \in Keys \cup {NoKey}
  BY <1>0, <1>1, <1>2 DEF BridgeOK, PumpOK, BridgeTypeOK
<1>4. \A l \in Keys : pending'[b][l] = pending[b][l] \/ (l = k /\ pending'[b][l] = NoToken)
  BY <1>0, <1>1 DEF FrontSendFails, Retained, BridgeTypeOK
<1>5. ASSUME NEW c \in Bridges \ {b}
      PROVE  BridgeOK(c)'
  BY <1>2, UntouchedBridge DEF Untouched, TokenInv
<1>6. BridgeOK(b)'
  <2>1. fpc'[b] = "unwinding" => t \in Tokens
    BY <1>0, <1>1, <1>3 DEF FrontSendFails, BridgeTypeOK
  <2>2. PumpOK(b)' /\ LifeOK(b)'
    BY <1>1, <1>2, <2>1 DEF BridgeOK, PumpOK, LifeOK
  <2>3. ClosedOK(b)'
    BY <1>1, <1>2, <1>4 DEF BridgeOK, ClosedOK
  <2>4. cpc[b] = "open" /\ k \in Keys => up[b][k] = "idle"
    BY <1>0, <1>1, <1>2 DEF BridgeOK, OpenOK
  <2>5. OpenOK(b)'
    BY <1>1, <1>2, <1>4, <2>4 DEF BridgeOK, OpenOK
  <2> QED
    BY <2>2, <2>3, <2>5 DEF BridgeOK
<1>7. Owned'
  <2>1. \A u : /\ InWork(u)' = InWork(u) /\ InBack(u)' = InBack(u)
               /\ InDrop(u)' = InDrop(u)
    BY <1>2 DEF InWork, InBack, InDrop
  <2>2. CASE Retained(b) /\ t # Read
    <3>1. /\ k \in Keys /\ t \in Tokens /\ pending[b][k] = t
          /\ fpc'[b] = "unwinding" /\ fctx'[b] = t
      BY <1>0, <1>1, <1>3, <2>2 DEF FrontSendFails, Retained, BridgeTypeOK
    <3>2. /\ t \in live /\ InWork(t) = {} /\ InFront(t) = {} /\ InBack(t) = {}
          /\ InDrop(t) = {}
          /\ \A c \in Bridges, l \in Keys : pending[c][l] = t <=> c = b /\ l = k
      BY <1>1, <3>1, PendingHas
    <3>3. /\ pending'[b][k] = NoToken
          /\ \A l \in Keys \ {k} : pending'[b][l] = pending[b][l]
      BY <1>0, <1>1, <2>2, <3>1 DEF FrontSendFails, BridgeTypeOK
    <3>4. InPending(t)' = {}
      <4>1. \A c \in Bridges, l \in Keys : pending'[c][l] # t
        BY <1>1, <1>2, <3>1, <3>2, <3>3
      <4> QED
        BY <4>1, PendingNowhere DEF InPending
    <3>5. InFront(t)' = {b}
      BY <1>2, <3>1, <3>2 DEF InFront
    <3>6. HeldOnce(t)'
      BY <2>1, <3>2, <3>4, <3>5 DEF HeldOnce
    <3>7. ASSUME NEW u \in Tokens \ {t}
          PROVE  Stays(u)
      <4>1. InFront(u)' = InFront(u)
        BY <1>0, <1>1, <1>2, <3>1 DEF InFront
      <4>2. \A c \in Bridges, l \in Keys : pending'[c][l] = u <=> pending[c][l] = u
        BY <1>1, <1>2, <3>1, <3>3
      <4>3. InPending(u)' = InPending(u)
        BY <4>2 DEF InPending
      <4> QED
        BY <2>1, <4>1, <4>3 DEF Stays
    <3> QED
      BY <1>1, <1>2, <3>1, <3>2, <3>6, <3>7, OwnedMove
  <2>3. CASE ~Retained(b) \/ t = Read
    <3>1. ASSUME NEW u \in Tokens
          PROVE  InFront(u)' = InFront(u)
      <4>1. \/ k = NoKey /\ fpc'[b] = "unwinding" /\ fctx'[b] = t
            \/ k # NoKey /\ fpc'[b] = "leaving"
        BY <1>0, <1>1, <1>3, <2>3 DEF FrontSendFails, Retained, BridgeTypeOK
      <4> QED
        BY <1>0, <1>1, <1>2, <4>1 DEF InFront
    <3>2. ASSUME NEW u \in Tokens
          PROVE  InPending(u)' = InPending(u)
      <4>1. CASE ~Retained(b)
        BY <4>1 DEF FrontSendFails, InPending
      <4>2. CASE Retained(b) /\ t = Read
        <5>1. k \in Keys /\ pending[b][k] = Read
          BY <1>0, <4>2 DEF Retained
        <5>2. \A c \in Bridges, l \in Keys : pending'[c][l] = u <=> pending[c][l] = u
          BY <1>1, <1>2, <1>4, <5>1
        <5> QED
          BY <5>2 DEF InPending
      <4> QED
        BY <2>3, <4>1, <4>2
    <3> QED
      BY <1>1, <1>2, <2>1, <3>1, <3>2, OwnedMove DEF Stays
  <2> QED
    BY <2>2, <2>3
<1>8. WorkOK'
  BY <1>1, <1>2 DEF WorkOK
<1> QED
  BY <1>5, <1>6, <1>7, <1>8 DEF TokenInv

\* FrontExit: the pump leaves the context it holds.
LEMMA FrontExitKeeps ==
  ASSUME IInv, TokenInv, NEW b \in Bridges, FrontExit(b)
  PROVE  TokenInv'
<1>0. PICK t : t = fctx[b]
  OBVIOUS
<1>1. /\ BridgeTypeOK /\ Owned /\ WorkOK /\ BridgeOK(b)
      /\ NoKey \notin Keys /\ NoToken \notin Tokens
      /\ Read \notin Tokens /\ Read # NoToken
  BY TokenFacts
<1>2. /\ fpc[b] \in {"exiting", "unwinding"} /\ fpc'[b] \in {"recv", "leaving"}
      /\ fctx'[b] = NoToken /\ live' = live \ {t}
      /\ UNCHANGED <<fkey, pending, bpc, bctx, hpc, cpc, closer, drop, fopen, bopen, up,
                     wpc, wctx, stopping, mpc, force, todo>>
      /\ \A c \in Bridges \ {b} : fpc'[c] = fpc[c] /\ fctx'[c] = fctx[c]
  BY <1>0, <1>1 DEF FrontExit, Exit, BridgeTypeOK, backVars, closeVars, connVars,
              otherVars, workVars, maintVars
<1>3. t \in Tokens
  BY <1>0, <1>1, <1>2 DEF BridgeOK, PumpOK
<1>4. ASSUME NEW c \in Bridges \ {b}
      PROVE  BridgeOK(c)'
  BY <1>2, UntouchedBridge DEF Untouched, TokenInv
<1>5. BridgeOK(b)'
  BY <1>1, <1>2 DEF BridgeOK, PumpOK, LifeOK, ClosedOK, OpenOK
<1>6. Owned'
  <2>1. b \in InFront(t)
    BY <1>0, <1>2 DEF InFront
  <2>2. /\ InFront(t) = {b} /\ InWork(t) = {} /\ InBack(t) = {}
        /\ InDrop(t) = {} /\ InPending(t) = {}
    BY <1>1, <1>3, <2>1, FrontHas
  <2>3. \A u : /\ InWork(u)' = InWork(u) /\ InBack(u)' = InBack(u)
               /\ InDrop(u)' = InDrop(u) /\ InPending(u)' = InPending(u)
    BY <1>2 DEF InWork, InBack, InDrop, InPending
  <2>4. InFront(t)' = {}
    BY <1>1, <1>2, <1>3, <2>2 DEF InFront
  <2>5. \A u \in Tokens \ {t} : InFront(u)' = InFront(u)
    BY <1>0, <1>1, <1>2 DEF InFront
  <2>6. Unheld(t)'
    BY <2>2, <2>3, <2>4 DEF Unheld
  <2> QED
    BY <1>1, <1>2, <1>3, <2>3, <2>5, <2>6, OwnedExit DEF Stays
<1>7. WorkOK'
  BY <1>1, <1>2 DEF WorkOK
<1> QED
  BY <1>4, <1>5, <1>6, <1>7 DEF TokenInv

\* FrontLeave: the pump has nothing to leave.
LEMMA FrontLeaveKeeps ==
  ASSUME IInv, TokenInv, NEW b \in Bridges, FrontLeave(b)
  PROVE  TokenInv'
<1>1. /\ BridgeTypeOK /\ Owned /\ WorkOK /\ BridgeOK(b) /\ NoToken \notin Tokens
  BY TokenFacts
<1>2. /\ fpc[b] \in {"leaving", "recv"} /\ fpc'[b] = "done"
      /\ UNCHANGED <<live, fctx, fkey, pending, bpc, bctx, hpc, cpc, closer, drop, fopen,
                     up, wpc, wctx, stopping, mpc, force, todo>>
      /\ \A c \in Bridges \ {b} : fpc'[c] = fpc[c]
  BY <1>1 DEF FrontLeave, BridgeTypeOK, gateVars, backVars, closeVars, otherVars, workVars,
              maintVars
<1>3. ASSUME NEW c \in Bridges \ {b}
      PROVE  BridgeOK(c)'
  BY <1>2, UntouchedBridge DEF Untouched, TokenInv
<1>4. BridgeOK(b)'
  BY <1>1, <1>2 DEF BridgeOK, PumpOK, LifeOK, ClosedOK, OpenOK
<1>5. \A u \in Tokens : InFront(u)' = InFront(u)
  BY <1>1, <1>2 DEF InFront
<1> QED
  BY <1>1, <1>2, <1>3, <1>4, <1>5, OwnedSame DEF TokenInv, WorkOK

-----------------------------------------------------------------------------
(* The backend pump.                                                       *)

\* BackRecv: the pump takes the context out of the table.
LEMMA BackRecvKeeps ==
  ASSUME IInv, TokenInv, NEW b \in Bridges, NEW k \in Keys, BackRecv(b, k)
  PROVE  TokenInv'
<1>0. PICK t : t = pending[b][k]
  OBVIOUS
<1>1. /\ BridgeTypeOK /\ Owned /\ WorkOK /\ BridgeOK(b)
      /\ NoKey \notin Keys /\ NoToken \notin Tokens
      /\ Read \notin Tokens /\ Read # NoToken
  BY TokenFacts
<1>2. /\ bpc[b] = "recv" /\ up[b][k] = "answered"
      /\ \/ t \in Tokens /\ bctx'[b] = t /\ bpc'[b] = "exiting"
         \/ t \notin Tokens /\ bctx' = bctx /\ bpc'[b] = "forwarding"
      /\ UNCHANGED <<live, fpc, fctx, fkey, hpc, cpc, closer, drop, fopen, bopen,
                     wpc, wctx, stopping, mpc, force, todo>>
      /\ \A c \in Bridges \ {b} : /\ bpc'[c] = bpc[c] /\ bctx'[c] = bctx[c]
                                  /\ up'[c] = up[c] /\ pending'[c] = pending[c]
  BY <1>0, <1>1 DEF BackRecv, BridgeTypeOK, gateVars, frontVars, closeVars, connVars,
              otherVars, workVars, maintVars
<1>3. /\ pending'[b][k] = NoToken /\ up'[b][k] = "idle"
      /\ \A l \in Keys \ {k} : pending'[b][l] = pending[b][l] /\ up'[b][l] = up[b][l]
  BY <1>1 DEF BackRecv, BridgeTypeOK
<1>4. bctx[b] = NoToken
  BY <1>1, <1>2 DEF BridgeOK, PumpOK
<1>5. ASSUME NEW c \in Bridges \ {b}
      PROVE  BridgeOK(c)'
  BY <1>2, UntouchedBridge DEF Untouched, TokenInv
<1>6. BridgeOK(b)'
  <2>1. PumpOK(b)' /\ LifeOK(b)'
    BY <1>1, <1>2, <1>3, <1>4 DEF BridgeOK, PumpOK, LifeOK
  <2>2. ClosedOK(b)'
    BY <1>1, <1>2, <1>3 DEF BridgeOK, ClosedOK
  <2>3. OpenOK(b)'
    BY <1>1, <1>2, <1>3 DEF BridgeOK, OpenOK
  <2> QED
    BY <2>1, <2>2, <2>3 DEF BridgeOK
<1>7. Owned'
  <2>1. \A u : /\ InWork(u)' = InWork(u) /\ InFront(u)' = InFront(u)
               /\ InDrop(u)' = InDrop(u)
    BY <1>2 DEF InWork, InFront, InDrop
  <2>2. ASSUME NEW u \in Tokens, u # t
        PROVE  Stays(u)
    <3>1. InBack(u)' = InBack(u)
      BY <1>1, <1>2, <1>4, <2>2 DEF InBack
    <3>2. \A c \in Bridges, l \in Keys : pending'[c][l] = u <=> pending[c][l] = u
      BY <1>0, <1>1, <1>2, <1>3, <2>2
    <3>3. InPending(u)' = InPending(u)
      BY <3>2 DEF InPending
    <3> QED
      BY <2>1, <3>1, <3>3 DEF Stays
  <2>3. ASSUME t \in Tokens
        PROVE  t \in live /\ HeldOnce(t)'
    <3>1. /\ t \in live /\ InWork(t) = {} /\ InFront(t) = {} /\ InBack(t) = {}
          /\ InDrop(t) = {}
          /\ \A c \in Bridges, l \in Keys : pending[c][l] = t <=> c = b /\ l = k
      BY <1>0, <1>1, <2>3, PendingHas
    <3>2. InPending(t)' = {}
      <4>1. \A c \in Bridges, l \in Keys : pending'[c][l] # t
        BY <1>1, <1>2, <1>3, <2>3, <3>1
      <4> QED
        BY <4>1, PendingNowhere DEF InPending
    <3>3. InBack(t)' = {b}
      BY <1>2, <2>3, <3>1 DEF InBack
    <3> QED
      BY <2>1, <3>1, <3>2, <3>3 DEF HeldOnce
  <2> QED
    BY <1>1, <1>2, <2>2, <2>3, OwnedMove
<1>8. WorkOK'
  BY <1>1, <1>2 DEF WorkOK
<1> QED
  BY <1>5, <1>6, <1>7, <1>8 DEF TokenInv

\* BackExit: the pump leaves the context it popped.
LEMMA BackExitKeeps ==
  ASSUME IInv, TokenInv, NEW b \in Bridges, BackExit(b)
  PROVE  TokenInv'
<1>0. PICK t : t = bctx[b]
  OBVIOUS
<1>1. /\ BridgeTypeOK /\ Owned /\ WorkOK /\ BridgeOK(b) /\ NoToken \notin Tokens
      /\ Read # NoToken
  BY TokenFacts
<1>2. /\ bpc[b] = "exiting" /\ bpc'[b] = "forwarding"
      /\ bctx'[b] = NoToken /\ live' = live \ {t}
      /\ UNCHANGED <<fpc, fctx, fkey, pending, hpc, cpc, closer, drop, fopen, bopen, up,
                     wpc, wctx, stopping, mpc, force, todo>>
      /\ \A c \in Bridges \ {b} : bpc'[c] = bpc[c] /\ bctx'[c] = bctx[c]
  BY <1>0, <1>1 DEF BackExit, Exit, BridgeTypeOK, frontVars, closeVars, connVars,
              otherVars, workVars, maintVars
<1>3. t \in Tokens
  BY <1>0, <1>1, <1>2 DEF BridgeOK, PumpOK, BridgeTypeOK, Slots
<1>4. ASSUME NEW c \in Bridges \ {b}
      PROVE  BridgeOK(c)'
  BY <1>2, UntouchedBridge DEF Untouched, TokenInv
<1>5. BridgeOK(b)'
  BY <1>1, <1>2 DEF BridgeOK, PumpOK, LifeOK, ClosedOK, OpenOK
<1>6. Owned'
  <2>1. /\ InBack(t) = {b} /\ InWork(t) = {} /\ InFront(t) = {}
        /\ InDrop(t) = {} /\ InPending(t) = {}
    BY <1>0, <1>1, <1>3, BackHas
  <2>2. \A u : /\ InWork(u)' = InWork(u) /\ InFront(u)' = InFront(u)
               /\ InDrop(u)' = InDrop(u) /\ InPending(u)' = InPending(u)
    BY <1>2 DEF InWork, InFront, InDrop, InPending
  <2>3. InBack(t)' = {}
    BY <1>1, <1>2, <1>3, <2>1 DEF InBack
  <2>4. \A u \in Tokens \ {t} : InBack(u)' = InBack(u)
    BY <1>0, <1>1, <1>2 DEF InBack
  <2>5. Unheld(t)'
    BY <2>1, <2>2, <2>3 DEF Unheld
  <2> QED
    BY <1>1, <1>2, <1>3, <2>2, <2>4, <2>5, OwnedExit DEF Stays
<1>7. WorkOK'
  BY <1>1, <1>2 DEF WorkOK
<1> QED
  BY <1>4, <1>5, <1>6, <1>7 DEF TokenInv

\* The other steps of the backend pump move nothing.
LEMMA BackMovesKeep ==
  ASSUME IInv, TokenInv, NEW b \in Bridges, BackForward(b) \/ BackLeave(b)
  PROVE  TokenInv'
<1>1. /\ BridgeTypeOK /\ Owned /\ WorkOK /\ BridgeOK(b)
  BY TokenFacts
<1>2. /\ bpc[b] \in {"forwarding", "recv"} /\ bpc'[b] \in {"recv", "done"}
      /\ fopen'[b] \in {fopen[b], FALSE}
      /\ UNCHANGED <<live, fpc, fctx, fkey, pending, bctx, hpc, cpc, closer, drop, up,
                     wpc, wctx, stopping, mpc, force, todo>>
      /\ \A c \in Bridges \ {b} : bpc'[c] = bpc[c] /\ fopen'[c] = fopen[c]
  BY <1>1 DEF BackForward, BackLeave, BridgeTypeOK, gateVars, frontVars, closeVars,
              connVars, otherVars, workVars, maintVars
<1>3. ASSUME NEW c \in Bridges \ {b}
      PROVE  BridgeOK(c)'
  BY <1>2, UntouchedBridge DEF Untouched, TokenInv
<1>4. BridgeOK(b)'
  BY <1>1, <1>2 DEF BridgeOK, PumpOK, LifeOK, ClosedOK, OpenOK
<1>5. \A u \in Tokens : InFront(u)' = InFront(u)
  BY <1>1, <1>2 DEF InFront
<1> QED
  BY <1>1, <1>2, <1>3, <1>4, <1>5, OwnedSame DEF TokenInv, WorkOK

-----------------------------------------------------------------------------
(* The handler, and the thread that closes the bridge.                     *)

\* HandlerConnect and HandlerRegister move nothing.
LEMMA HandlerMovesKeep ==
  ASSUME IInv, TokenInv, NEW b \in Bridges, HandlerConnect(b) \/ HandlerRegister(b)
  PROVE  TokenInv'
<1>1. /\ BridgeTypeOK /\ Owned /\ WorkOK /\ BridgeOK(b) /\ NoToken \notin Tokens
  BY TokenFacts
<1>2. /\ \/ /\ hpc[b] = "none" /\ hpc'[b] = "connected" /\ ~stopping
            /\ fpc'[b] = fpc[b] /\ bpc'[b] = bpc[b]
         \/ /\ hpc[b] = "connected" /\ hpc'[b] = "joining" /\ fopen'[b] = fopen[b]
            /\ fpc'[b] = "recv" /\ bpc'[b] = "recv"
      /\ UNCHANGED <<live, fctx, fkey, pending, bctx, cpc, closer, drop, up,
                     wpc, wctx, stopping, mpc, force, todo>>
      /\ \A c \in Bridges \ {b} : /\ bpc'[c] = bpc[c] /\ fopen'[c] = fopen[c]
                                  /\ fpc'[c] = fpc[c] /\ hpc'[c] = hpc[c]
  BY <1>1 DEF HandlerConnect, HandlerRegister, BridgeTypeOK, gateVars, frontVars, backVars,
              closeVars, connVars, otherVars, workVars, maintVars
<1>3. ASSUME NEW c \in Bridges \ {b}
      PROVE  BridgeOK(c)'
  BY <1>2, UntouchedBridge DEF Untouched, TokenInv
<1>4. BridgeOK(b)'
  <2>1. PumpOK(b)' /\ ClosedOK(b)' /\ OpenOK(b)'
    BY <1>1, <1>2 DEF BridgeOK, PumpOK, LifeOK, ClosedOK, OpenOK
  <2>2. LifeOK(b)'
    BY <1>1, <1>2 DEF BridgeOK, LifeOK
  <2> QED
    BY <2>1, <2>2 DEF BridgeOK
<1>5. \A u \in Tokens : InFront(u)' = InFront(u)
  BY <1>1, <1>2 DEF InFront, BridgeOK, LifeOK
<1> QED
  BY <1>1, <1>2, <1>3, <1>4, <1>5, OwnedSame DEF TokenInv, WorkOK

\* _close_bridge takes every context of the table into its snapshot.
LEMMA BeginCloseOwned ==
  ASSUME BridgeTypeOK, Owned, NEW b \in Bridges, NEW who, BeginClose(b, who),
         drop[b] = {}, NoToken \notin Tokens,
         UNCHANGED <<live, fpc, fctx, fkey, bctx, wctx>>
  PROVE  Owned'
<1>1. /\ \A k \in Keys : pending'[b][k] = NoToken
      /\ drop'[b] = {pending[b][k] : k \in Keys} \cap Tokens
      /\ \A c \in Bridges \ {b} : pending'[c] = pending[c] /\ drop'[c] = drop[c]
  BY DEF BeginClose, BridgeTypeOK
<1>2. \A u : /\ InWork(u)' = InWork(u) /\ InFront(u)' = InFront(u)
             /\ InBack(u)' = InBack(u)
  BY DEF InWork, InFront, InBack
<1>3. ASSUME NEW t \in Tokens, NEW k \in Keys, pending[b][k] = t
      PROVE  t \in live /\ HeldOnce(t)'
  <2>1. /\ t \in live /\ InWork(t) = {} /\ InFront(t) = {} /\ InBack(t) = {}
        /\ InDrop(t) = {}
        /\ \A c \in Bridges, l \in Keys : pending[c][l] = t <=> c = b /\ l = k
    BY <1>3, PendingHas
  <2>2. InPending(t)' = {}
    <3>1. \A c \in Bridges, l \in Keys : pending'[c][l] # t
      BY <1>1, <2>1
    <3> QED
      BY <3>1, PendingNowhere DEF InPending
  <2>3. InDrop(t)' = {b}
    <3>1. t \in drop'[b]
      BY <1>1, <1>3
    <3>2. \A c \in Bridges \ {b} : t \notin drop'[c]
      BY <1>1, <2>1 DEF InDrop
    <3> QED
      BY <3>1, <3>2 DEF InDrop
  <2> QED
    BY <1>2, <2>1, <2>2, <2>3 DEF HeldOnce
<1>4. ASSUME NEW t \in Tokens, \A k \in Keys : pending[b][k] # t
      PROVE  Stays(t)
  <2>1. \A c \in Bridges, l \in Keys : pending'[c][l] = t <=> pending[c][l] = t
    BY <1>1, <1>4
  <2>2. InPending(t)' = InPending(t)
    BY <2>1 DEF InPending
  <2>3. t \notin drop'[b]
    BY <1>1, <1>4
  <2>4. InDrop(t)' = InDrop(t)
    BY <1>1, <2>3 DEF InDrop
  <2> QED
    BY <1>2, <2>2, <2>4 DEF Stays
<1> QED
  BY <1>3, <1>4, OwnedMove

\* HandlerClose: the frontend pump has ended, so nothing can be registered any more.
LEMMA HandlerCloseKeeps ==
  ASSUME IInv, TokenInv, NEW b \in Bridges, HandlerClose(b)
  PROVE  TokenInv'
<1>1. /\ BridgeTypeOK /\ Owned /\ WorkOK /\ BridgeOK(b) /\ NoToken \notin Tokens
  BY TokenFacts
<1>2. /\ hpc[b] = "joining" /\ hpc'[b] = "left" /\ fpc[b] = "done"
      /\ UNCHANGED <<live, fpc, fctx, fkey, bpc, bctx, fopen, bopen, up, wpc, wctx,
                     stopping, mpc, force, todo>>
      /\ \A c \in Bridges \ {b} : hpc'[c] = hpc[c]
  BY <1>1 DEF HandlerClose, BridgeTypeOK, gateVars, frontVars, backVars, connVars,
              otherVars, workVars, maintVars
<1>3. CASE BeginClose(b, "handler")
  <2>1. /\ cpc'[b] = "releasing" /\ closer'[b] = "handler" /\ cpc[b] = "open"
        /\ \A k \in Keys : pending'[b][k] = NoToken
        /\ \A c \in Bridges \ {b} : /\ pending'[c] = pending[c] /\ drop'[c] = drop[c]
                                    /\ cpc'[c] = cpc[c] /\ closer'[c] = closer[c]
    BY <1>1, <1>3 DEF BeginClose, BridgeTypeOK
  <2>2. ASSUME NEW c \in Bridges \ {b}
        PROVE  BridgeOK(c)'
    BY <1>2, <2>1, UntouchedBridge DEF Untouched, TokenInv
  <2>3. PumpOK(b)' /\ LifeOK(b)'
    BY <1>1, <1>2, <2>1 DEF BridgeOK, PumpOK, LifeOK
  <2>4. ClosedOK(b)' /\ OpenOK(b)'
    BY <1>1, <2>1 DEF ClosedOK, OpenOK
  <2>5. drop[b] = {}
    BY <1>1, <2>1 DEF BridgeOK, PumpOK
  <2>6. Owned'
    BY <1>1, <1>2, <1>3, <2>5, BeginCloseOwned
  <2> QED
    BY <1>1, <1>2, <2>2, <2>3, <2>4, <2>6 DEF TokenInv, BridgeOK, WorkOK
<1>4. CASE cpc[b] # "open" /\ UNCHANGED <<closeVars, pending>>
  <2>1. UNCHANGED <<cpc, closer, drop, pending>> /\ cpc[b] # "open"
    BY <1>4 DEF closeVars
  <2>2. ASSUME NEW c \in Bridges \ {b}
        PROVE  BridgeOK(c)'
    BY <1>2, <2>1, UntouchedBridge DEF Untouched, TokenInv
  <2>3. BridgeOK(b)'
    BY <1>1, <1>2, <2>1 DEF BridgeOK, PumpOK, LifeOK, ClosedOK, OpenOK
  <2>4. \A u \in Tokens : InFront(u)' = InFront(u)
    BY <1>2 DEF InFront
  <2> QED
    BY <1>1, <1>2, <2>1, <2>2, <2>3, <2>4, OwnedSame DEF TokenInv, WorkOK
<1> QED
  BY <1>3, <1>4 DEF HandlerClose

\* CloseRelease: the closing thread leaves a context of its snapshot.
LEMMA CloseReleaseKeeps ==
  ASSUME IInv, TokenInv, NEW b \in Bridges, CloseRelease(b)
  PROVE  TokenInv'
<1>1. /\ BridgeTypeOK /\ Owned /\ WorkOK /\ BridgeOK(b)
  BY TokenFacts
<1>2. PICK t \in drop[b] : Exit(t) /\ drop' = [drop EXCEPT ![b] = @ \ {t}]
  BY DEF CloseRelease
<1>3. /\ cpc[b] = "releasing" /\ live' = live \ {t} /\ t \in drop[b]
      /\ drop'[b] = drop[b] \ {t}
      /\ UNCHANGED <<fpc, fctx, fkey, pending, bpc, bctx, hpc, cpc, closer, fopen, up,
                     wpc, wctx, stopping, mpc, force, todo>>
      /\ \A c \in Bridges \ {b} : drop'[c] = drop[c]
  BY <1>1, <1>2 DEF CloseRelease, Exit, BridgeTypeOK, frontVars, backVars, connVars,
              otherVars, workVars, maintVars
<1>4. t \in Tokens
  BY <1>1 DEF BridgeTypeOK
<1>5. ASSUME NEW c \in Bridges \ {b}
      PROVE  BridgeOK(c)'
  BY <1>3, UntouchedBridge DEF Untouched, TokenInv
<1>6. BridgeOK(b)'
  BY <1>1, <1>3 DEF BridgeOK, PumpOK, LifeOK, ClosedOK, OpenOK
<1>7. Owned'
  <2>1. /\ InDrop(t) = {b} /\ InWork(t) = {} /\ InFront(t) = {}
        /\ InBack(t) = {} /\ InPending(t) = {}
    BY <1>1, <1>4, DropHas
  <2>2. \A u : /\ InWork(u)' = InWork(u) /\ InFront(u)' = InFront(u)
               /\ InBack(u)' = InBack(u) /\ InPending(u)' = InPending(u)
    BY <1>3 DEF InWork, InFront, InBack, InPending
  <2>3. InDrop(t)' = {}
    BY <1>3, <2>1 DEF InDrop
  <2>4. \A u \in Tokens \ {t} : InDrop(u)' = InDrop(u)
    BY <1>3 DEF InDrop
  <2>5. Unheld(t)'
    BY <2>1, <2>2, <2>3 DEF Unheld
  <2> QED
    BY <1>1, <1>3, <1>4, <2>2, <2>4, <2>5, OwnedExit DEF Stays
<1>8. WorkOK'
  BY <1>1, <1>3 DEF WorkOK
<1> QED
  BY <1>5, <1>6, <1>7, <1>8 DEF TokenInv

\* CloseDisconnect: the snapshot is empty.
LEMMA CloseDisconnectKeeps ==
  ASSUME IInv, TokenInv, NEW b \in Bridges, CloseDisconnect(b)
  PROVE  TokenInv'
<1>1. /\ BridgeTypeOK /\ Owned /\ WorkOK /\ BridgeOK(b)
  BY TokenFacts
<1>2. /\ cpc[b] = "releasing" /\ drop[b] = {} /\ cpc'[b] = "closed" /\ fopen'[b] = FALSE
      /\ UNCHANGED <<live, fpc, fctx, fkey, pending, bpc, bctx, hpc, closer, drop, up,
                     wpc, wctx, stopping, mpc, force, todo>>
      /\ \A c \in Bridges \ {b} : cpc'[c] = cpc[c] /\ fopen'[c] = fopen[c]
  BY <1>1 DEF CloseDisconnect, BridgeTypeOK, gateVars, frontVars, backVars,
              otherVars, workVars, maintVars
<1>3. ASSUME NEW c \in Bridges \ {b}
      PROVE  BridgeOK(c)'
  BY <1>2, UntouchedBridge DEF Untouched, TokenInv
<1>4. BridgeOK(b)'
  BY <1>1, <1>2 DEF BridgeOK, PumpOK, LifeOK, ClosedOK, OpenOK
<1>5. \A u \in Tokens : InFront(u)' = InFront(u)
  BY <1>2 DEF InFront
<1> QED
  BY <1>1, <1>2, <1>3, <1>4, <1>5, OwnedSame DEF TokenInv, WorkOK

\* HandlerRetire: no thread of the bridge is left, and no context.
LEMMA HandlerRetireKeeps ==
  ASSUME IInv, TokenInv, NEW b \in Bridges, HandlerRetire(b)
  PROVE  TokenInv'
<1>1. /\ BridgeTypeOK /\ Owned /\ WorkOK /\ BridgeOK(b) /\ NoToken \notin Tokens
  BY TokenFacts
<1>2. /\ hpc[b] = "left" /\ fpc[b] = "done" /\ bpc[b] = "done" /\ cpc[b] = "closed"
      /\ hpc'[b] = "none" /\ fpc'[b] = "off" /\ bpc'[b] = "off" /\ cpc'[b] = "open"
      /\ closer'[b] = "nobody"
      /\ \A k \in Keys : /\ pending'[b][k] = NoToken /\ up'[b][k] = "idle"
                         /\ pending[b][k] \notin live
      /\ UNCHANGED <<live, fctx, fkey, bctx, drop, fopen, wpc, wctx, stopping, mpc,
                     force, todo>>
      /\ \A c \in Bridges \ {b} : /\ fpc'[c] = fpc[c] /\ bpc'[c] = bpc[c]
                                  /\ hpc'[c] = hpc[c] /\ cpc'[c] = cpc[c]
                                  /\ closer'[c] = closer[c] /\ up'[c] = up[c]
                                  /\ pending'[c] = pending[c]
  BY <1>1 DEF HandlerRetire, BridgeTypeOK, gateVars, connVars, otherVars, workVars,
              maintVars
<1>3. ASSUME NEW c \in Bridges \ {b}
      PROVE  BridgeOK(c)'
  BY <1>2, UntouchedBridge DEF Untouched, TokenInv
<1>4. BridgeOK(b)'
  BY <1>1, <1>2 DEF BridgeOK, PumpOK, LifeOK, ClosedOK, OpenOK
<1>5. ASSUME NEW u \in Tokens
      PROVE  Stays(u)
  <2>1. \A k \in Keys : pending[b][k] # u
    BY <1>1, <1>2, PendingHas
  <2>2. \A c \in Bridges, l \in Keys : pending'[c][l] = u <=> pending[c][l] = u
    BY <1>1, <1>2, <2>1
  <2>3. InPending(u)' = InPending(u)
    BY <2>2 DEF InPending
  <2>4. InFront(u)' = InFront(u)
    BY <1>2 DEF InFront
  <2> QED
    BY <1>2, <2>3, <2>4 DEF Stays, InWork, InBack, InDrop
<1> QED
  BY <1>1, <1>2, <1>3, <1>4, <1>5, OwnedMove DEF TokenInv, WorkOK

-----------------------------------------------------------------------------
(* Broker operations, maintainers and the environment.                     *)

\* A broker operation enters, calls, and leaves the context it entered.
LEMMA WorkKeeps ==
  ASSUME IInv, TokenInv, NEW w \in Workers, Work(w)
  PROVE  TokenInv'
<1>1. /\ Owned /\ WorkOK /\ NoToken \notin Tokens /\ Read \notin Tokens /\ Read # NoToken
      /\ wpc \in [Workers -> {"idle", "entered", "calling"}]
      /\ wctx \in [Workers -> Slots]
  BY GatewayAssumption DEF IInv, TypeOK, OtherTypeOK, TokenInv, GatewayAssumption
<1>2. UNCHANGED <<fpc, fctx, fkey, pending, bpc, bctx, hpc, cpc, closer, drop, fopen, up,
                  stopping, mpc, force, todo>>
  BY DEF Work, WorkerEnter, WorkerCall, WorkerLeave, bridgeVars, frontVars, backVars,
         closeVars, connVars, maintVars
<1>3. ASSUME NEW c \in Bridges
      PROVE  BridgeOK(c)'
  BY <1>2, UntouchedBridge DEF Untouched, TokenInv
<1>4. \A u : /\ InFront(u)' = InFront(u) /\ InBack(u)' = InBack(u)
             /\ InDrop(u)' = InDrop(u) /\ InPending(u)' = InPending(u)
  BY <1>2 DEF InFront, InBack, InDrop, InPending
<1>5. CASE WorkerEnter(w)
  <2>1. PICK t \in Fresh : Enter(t) /\ wctx' = [wctx EXCEPT ![w] = t]
    BY <1>5 DEF WorkerEnter
  <2>2. /\ t \in Tokens /\ Unheld(t) /\ \A v \in Workers : wctx[v] # t
    BY FreshIsUnheld
  <2>3. /\ live' = live \cup {t} /\ wctx'[w] = t /\ wpc[w] = "idle" /\ wpc'[w] = "entered"
        /\ \A v \in Workers \ {w} : wctx'[v] = wctx[v] /\ wpc'[v] = wpc[v]
    BY <1>1, <1>5, <2>1 DEF WorkerEnter, Enter
  <2>4. InWork(t)' = {w}
    BY <2>2, <2>3 DEF InWork
  <2>5. \A u \in Tokens \ {t} : InWork(u)' = InWork(u)
    BY <1>1, <2>3 DEF InWork, WorkOK
  <2>6. HeldOnce(t)'
    BY <1>4, <2>2, <2>4 DEF HeldOnce, Unheld
  <2>7. Owned'
    BY <1>1, <1>4, <2>2, <2>3, <2>5, <2>6, OwnedEnter DEF Stays
  <2>8. WorkOK'
    BY <1>1, <2>2, <2>3 DEF WorkOK
  <2> QED
    BY <1>3, <2>7, <2>8 DEF TokenInv
<1>6. CASE WorkerCall(w)
  <2>1. /\ UNCHANGED <<live, wctx>> /\ wpc[w] = "entered" /\ wpc'[w] = "calling"
        /\ \A v \in Workers \ {w} : wpc'[v] = wpc[v]
    BY <1>1, <1>6 DEF WorkerCall, gateVars
  <2>2. Owned'
    BY <1>1, <1>2, <1>4, <2>1, OwnedSame
  <2>3. WorkOK'
    BY <1>1, <2>1 DEF WorkOK
  <2> QED
    BY <1>3, <2>2, <2>3 DEF TokenInv
<1>7. CASE WorkerLeave(w)
  <2>1. PICK t : t = wctx[w]
    OBVIOUS
  <2>2. /\ live' = live \ {t} /\ wctx'[w] = NoToken /\ wpc'[w] = "idle"
        /\ wpc[w] \in {"entered", "calling"}
        /\ \A v \in Workers \ {w} : wctx'[v] = wctx[v] /\ wpc'[v] = wpc[v]
    BY <1>1, <1>7, <2>1 DEF WorkerLeave, Exit
  <2>3. t \in Tokens
    BY <1>1, <2>1, <2>2 DEF WorkOK, Slots
  <2>4. /\ InWork(t) = {w} /\ InFront(t) = {} /\ InBack(t) = {}
        /\ InDrop(t) = {} /\ InPending(t) = {}
    BY <1>1, <2>1, <2>3, WorkHas
  <2>5. InWork(t)' = {}
    BY <1>1, <2>2, <2>3, <2>4 DEF InWork
  <2>6. \A u \in Tokens \ {t} : InWork(u)' = InWork(u)
    BY <1>1, <2>1, <2>2 DEF InWork
  <2>7. Unheld(t)'
    BY <1>4, <2>4, <2>5 DEF Unheld
  <2>8. Owned'
    BY <1>1, <1>4, <2>2, <2>3, <2>6, <2>7, OwnedExit DEF Stays
  <2>9. WorkOK'
    BY <1>1, <2>2 DEF WorkOK
  <2> QED
    BY <1>3, <2>8, <2>9 DEF TokenInv
<1> QED
  BY <1>5, <1>6, <1>7 DEF Work

\* A step that concerns bridge c only through the maintainers.
LEMMA MaintainedBridge ==
  ASSUME NEW c, BridgeOK(c), Untouched(c), stopping => stopping',
         closer[c] = "gateway" /\ cpc[c] = "releasing" =>
           (\E m \in Maintainers : mpc[m] = "closing" /\ ~force[m] /\ c \in todo)'
  PROVE  BridgeOK(c)'
<1>1. PumpOK(c)'
  BY DEF BridgeOK, PumpOK, Untouched
<1>2. LifeOK(c)'
  <2> DEFINE G == \E m \in Maintainers : mpc[m] = "closing" /\ ~force[m] /\ c \in todo
  <2> HIDE DEF G
  <2> QED
    BY DEF BridgeOK, LifeOK, Untouched, G
<1>3. ClosedOK(c)' /\ OpenOK(c)'
  BY DEF BridgeOK, ClosedOK, OpenOK, Untouched
<1> QED
  BY <1>1, <1>2, <1>3 DEF BridgeOK

\* Steps of a maintainer outside WebSocketGateway.close: a maintainer that closes
\* bridges is the only one inside the drain, so it is not the one that moves.
LEMMA MaintainMovesKeep ==
  ASSUME IInv, TokenInv, NEW m \in Maintainers,
         \/ MaintainRequest(m) \/ MaintainClaim(m) \/ MaintainSettle(m) \/ MaintainDecide(m)
         \/ MaintainRefuse(m) \/ MaintainTerminate(m) \/ MaintainRelease(m)
  PROVE  TokenInv'
<1>1. /\ Owned /\ WorkOK /\ OneDrainer
      /\ mpc \in [Maintainers -> MaintPCs] /\ force \in [Maintainers -> BOOLEAN]
      /\ stopping \in BOOLEAN
  BY DEF IInv, TypeOK, OtherTypeOK, TokenInv, GateInv
<1>2. /\ UNCHANGED <<live, wpc, wctx>>
      /\ UNCHANGED <<fpc, fctx, fkey, pending, bpc, bctx, hpc, cpc, closer, drop, fopen, up>>
  BY DEF MaintainRequest, MaintainClaim, MaintainSettle, MaintainDecide, MaintainRefuse,
         MaintainTerminate, MaintainRelease, gateVars, bridgeVars, frontVars, backVars,
         closeVars, connVars, workVars
<1>3. stopping => stopping'
  BY DEF MaintainRequest, MaintainClaim, MaintainSettle, MaintainDecide, MaintainRefuse,
         MaintainTerminate, MaintainRelease
<1>4. mpc[m] # "closing"
  BY DEF MaintainRequest, MaintainClaim, MaintainSettle, MaintainDecide, MaintainRefuse,
         MaintainTerminate, MaintainRelease
<1>5. \A n \in Maintainers \ {m} : mpc'[n] = mpc[n] /\ force'[n] = force[n]
  BY <1>1 DEF MaintainRequest, MaintainClaim, MaintainSettle, MaintainDecide,
              MaintainRefuse, MaintainTerminate, MaintainRelease
<1>6. (\E n \in Maintainers : mpc[n] = "closing") => todo' = todo
  <2>1. CASE MaintainTerminate(m)
    BY <1>1, <2>1 DEF MaintainTerminate, OneDrainer, Drainers
  <2>2. CASE ~MaintainTerminate(m)
    BY <2>2 DEF MaintainRequest, MaintainClaim, MaintainSettle, MaintainDecide,
                MaintainRefuse, MaintainRelease
  <2> QED
    BY <2>1, <2>2
<1>7. ASSUME NEW c \in Bridges
      PROVE  BridgeOK(c)'
  <2>1. closer[c] = "gateway" /\ cpc[c] = "releasing" =>
           (\E n \in Maintainers : mpc[n] = "closing" /\ ~force[n] /\ c \in todo)'
    BY <1>4, <1>5, <1>6 DEF TokenInv, BridgeOK, LifeOK
  <2>2. Untouched(c)
    BY <1>2 DEF Untouched
  <2> QED
    BY <1>3, <2>1, <2>2, MaintainedBridge DEF TokenInv
<1>8. Owned'
  <2>1. \A u \in Tokens : InFront(u)' = InFront(u)
    BY <1>2 DEF InFront
  <2> QED
    BY <1>1, <1>2, <2>1, OwnedSame
<1> QED
  BY <1>1, <1>2, <1>7, <1>8 DEF TokenInv, WorkOK

\* MaintainClose: unless it is forced, nothing is inside when the gateway takes the
\* table of a bridge, so no pump is about to register.
LEMMA MaintainCloseKeeps ==
  ASSUME IInv, TokenInv, StopOK, NEW m \in Maintainers, NEW b \in Bridges,
         MaintainClose(m, b)
  PROVE  TokenInv'
<1>1. /\ BridgeTypeOK /\ Owned /\ WorkOK /\ BridgeOK(b) /\ NoToken \notin Tokens
  BY TokenFacts
<1>2. /\ mpc[m] = "closing" /\ b \in todo
      /\ \A c \in todo : cpc[c] = "releasing" => closer[c] = "handler"
      /\ UNCHANGED <<live, fpc, fctx, fkey, bpc, bctx, hpc, fopen, bopen, up, wpc, wctx,
                     stopping, mpc, force>>
  BY DEF MaintainClose, gateVars, frontVars, backVars, connVars, workVars
<1>3. ASSUME NEW who \in {"forced", "gateway"}, BeginClose(b, who), todo' = todo,
             who = "gateway" => ~force[m]
      PROVE  TokenInv'
  <2>1. /\ cpc'[b] = "releasing" /\ closer'[b] = who /\ cpc[b] = "open"
        /\ \A k \in Keys : pending'[b][k] = NoToken
        /\ \A c \in Bridges \ {b} : /\ pending'[c] = pending[c] /\ drop'[c] = drop[c]
                                    /\ cpc'[c] = cpc[c] /\ closer'[c] = closer[c]
    BY <1>1, <1>3 DEF BeginClose, BridgeTypeOK
  <2>2. ASSUME NEW c \in Bridges \ {b}
        PROVE  BridgeOK(c)'
    BY <1>2, <1>3, <2>1, UntouchedBridge DEF Untouched, TokenInv
  <2>3. who = "gateway" => fpc[b] # "admitted"
    <3>1. who = "gateway" => live = {}
      BY <1>2, <1>3 DEF IInv, GateInv, LeaseHeld
    <3>2. ASSUME fpc[b] = "admitted"
          PROVE  fctx[b] \in live
      <4>1. PICK t : t = fctx[b]
        OBVIOUS
      <4>2. t \in Tokens /\ b \in InFront(t)
        BY <1>1, <3>2, <4>1 DEF BridgeOK, PumpOK, InFront
      <4> QED
        BY <1>1, <4>1, <4>2, FrontHas
    <3> QED
      BY <3>1, <3>2
  <2>4. hpc[b] # "connected" /\ stopping
    BY <1>2 DEF StopOK
  <2>5. PumpOK(b)'
    BY <1>1, <1>2, <2>1 DEF BridgeOK, PumpOK
  <2>6. LifeOK(b)'
    BY <1>1, <1>2, <1>3, <2>1, <2>3, <2>4 DEF BridgeOK, LifeOK
  <2>7. ClosedOK(b)' /\ OpenOK(b)'
    BY <1>1, <2>1 DEF ClosedOK, OpenOK
  <2>8. drop[b] = {}
    BY <1>1, <2>1 DEF BridgeOK, PumpOK
  <2>9. Owned'
    BY <1>1, <1>2, <1>3, <2>8, BeginCloseOwned
  <2> QED
    BY <1>1, <1>2, <2>2, <2>5, <2>6, <2>7, <2>9 DEF TokenInv, BridgeOK, WorkOK
<1>4. ASSUME cpc[b] # "open", todo' = todo \ {b}, UNCHANGED <<closeVars, pending>>
      PROVE  TokenInv'
  <2>1. UNCHANGED <<cpc, closer, drop, pending>>
    BY <1>4 DEF closeVars
  <2>2. ASSUME NEW c \in Bridges
        PROVE  BridgeOK(c)'
    <3>1. ~(closer[c] = "gateway" /\ cpc[c] = "releasing")
      BY <1>2 DEF TokenInv, BridgeOK, LifeOK
    <3>2. Untouched(c)
      BY <1>2, <2>1 DEF Untouched
    <3> QED
      BY <1>2, <3>1, <3>2, MaintainedBridge DEF TokenInv
  <2>3. \A u \in Tokens : InFront(u)' = InFront(u)
    BY <1>2 DEF InFront
  <2> QED
    BY <1>1, <1>2, <2>1, <2>2, <2>3, OwnedSame DEF TokenInv, WorkOK
<1> QED
  BY <1>3, <1>4 DEF MaintainClose

\* MaintainTeardown: every bridge is closed; what Codex executed ends unanswered.
LEMMA MaintainTeardownKeeps ==
  ASSUME IInv, TokenInv, NEW m \in Maintainers, MaintainTeardown(m)
  PROVE  TokenInv'
<1>1. /\ BridgeTypeOK /\ Owned /\ WorkOK /\ NoToken \notin Tokens
      /\ \A c \in Bridges : BridgeOK(c)
  BY GatewayAssumption DEF IInv, TypeOK, TokenInv, GatewayAssumption
<1>2. /\ todo = {}
      /\ UNCHANGED <<live, fpc, fctx, fkey, pending, bpc, bctx, hpc, cpc, closer, drop, fopen,
                     wpc, wctx, stopping, todo>>
  BY DEF MaintainTeardown, gateVars, frontVars, backVars, closeVars
<1>3. \A c \in Bridges, k \in Keys : up'[c][k] \in {up[c][k], "idle"}
  BY <1>1 DEF MaintainTeardown, BridgeTypeOK
<1>4. ASSUME NEW c \in Bridges
      PROVE  BridgeOK(c)'
  <2>1. BridgeOK(c)
    BY <1>1
  <2>2. ~(closer[c] = "gateway" /\ cpc[c] = "releasing")
    BY <1>2, <2>1 DEF BridgeOK, LifeOK
  <2>3. PumpOK(c)' /\ ClosedOK(c)'
    BY <1>2, <2>1 DEF BridgeOK, PumpOK, ClosedOK
  <2>4. LifeOK(c)'
    BY <1>2, <2>1, <2>2 DEF BridgeOK, LifeOK
  <2>5. OpenOK(c)'
    BY <1>2, <1>3, <2>1 DEF BridgeOK, OpenOK
  <2> QED
    BY <2>3, <2>4, <2>5 DEF BridgeOK
<1>5. \A u \in Tokens : InFront(u)' = InFront(u)
  BY <1>2 DEF InFront
<1> QED
  BY <1>1, <1>2, <1>4, <1>5, OwnedSame DEF TokenInv, WorkOK

\* Clients, Codex and its turns move nothing.
LEMMA EnvironmentKeeps ==
  ASSUME IInv, TokenInv, Environment
  PROVE  TokenInv'
<1>1. /\ BridgeTypeOK /\ Owned /\ WorkOK /\ NoToken \notin Tokens
      /\ \A c \in Bridges : BridgeOK(c)
  BY GatewayAssumption DEF IInv, TypeOK, TokenInv, GatewayAssumption
<1>2. UNCHANGED <<live, fpc, fctx, fkey, pending, bpc, bctx, hpc, cpc, closer, drop,
                  wpc, wctx, stopping, mpc, force, todo>>
  BY DEF Environment, FrontDrop, UpstreamAnswer, UpstreamReturn, TurnEnds, gateVars,
         bridgeVars, frontVars, backVars, closeVars, connVars, otherVars, workVars, maintVars
<1>3. ASSUME NEW c \in Bridges
      PROVE  /\ fopen'[c] = fopen[c] \/ ~fopen'[c]
             /\ \A k \in Keys : \/ up'[c][k] = up[c][k]
                                \/ up[c][k] # "idle" /\ up'[c][k] \in {"answered", "idle"}
  <2>1. ASSUME NEW b \in Bridges, FrontDrop(b)
        PROVE  (fopen'[c] = fopen[c] \/ ~fopen'[c]) /\ up' = up
    BY <1>1, <2>1 DEF FrontDrop, BridgeTypeOK
  <2>2. ASSUME NEW b \in Bridges, NEW k \in Keys, UpstreamAnswer(b, k)
        PROVE  /\ fopen' = fopen
               /\ \A l \in Keys : \/ up'[c][l] = up[c][l]
                                  \/ up[c][l] # "idle" /\ up'[c][l] \in {"answered", "idle"}
    <3>1. fopen' = fopen /\ up[b][k] # "idle"
      BY <2>2 DEF UpstreamAnswer, connVars
    <3>2. PICK v \in {"answered", "idle"} : up' = [up EXCEPT ![b][k] = v]
      BY <2>2 DEF UpstreamAnswer
    <3>3. ASSUME NEW l \in Keys, c # b \/ l # k
          PROVE  up'[c][l] = up[c][l]
      BY <1>1, <3>2, <3>3 DEF BridgeTypeOK
    <3>4. up'[b][k] = v
      BY <1>1, <3>2 DEF BridgeTypeOK
    <3> QED
      BY <3>1, <3>3, <3>4
  <2>3. ASSUME NEW w \in Workers, UpstreamReturn(w)
        PROVE  fopen' = fopen /\ up' = up
    BY <2>3 DEF UpstreamReturn, bridgeVars, connVars
  <2>4. ASSUME TurnEnds
        PROVE  fopen' = fopen /\ up' = up
    BY <2>4 DEF TurnEnds, bridgeVars, connVars
  <2>5. CASE \E b \in Bridges : FrontDrop(b)
    BY <2>1, <2>5
  <2>6. CASE \E b \in Bridges, k \in Keys : UpstreamAnswer(b, k)
    BY <2>2, <2>6
  <2>7. CASE \E w \in Workers : UpstreamReturn(w)
    BY <2>3, <2>7
  <2>8. CASE TurnEnds
    BY <2>4, <2>8
  <2> QED
    BY <2>5, <2>6, <2>7, <2>8 DEF Environment
<1>4. ASSUME NEW c \in Bridges
      PROVE  BridgeOK(c)'
  <2>1. BridgeOK(c)
    BY <1>1
  <2>2. PumpOK(c)' /\ ClosedOK(c)'
    BY <1>2, <2>1 DEF BridgeOK, PumpOK, ClosedOK
  <2>3. LifeOK(c)'
    BY <1>2, <1>3, <2>1 DEF BridgeOK, LifeOK
  <2>4. ASSUME cpc[c] = "open", NEW k \in Keys
        PROVE  /\ up'[c][k] = "mutation" => pending[c][k] \in Tokens
               /\ up'[c][k] = "read" => pending[c][k] = Read
               /\ up'[c][k] = "answered" => pending[c][k] # NoToken
               /\ up[c][k] = "idle" => up'[c][k] = "idle"
    <3>1. up[c][k] \in {"idle", "mutation", "read", "answered"}
      BY <1>1 DEF BridgeTypeOK
    <3>2. Read # NoToken
      BY GatewayAssumption DEF GatewayAssumption
    <3> QED
      BY <1>1, <1>3, <2>1, <2>4, <3>1, <3>2 DEF BridgeOK, OpenOK
  <2>5. OpenOK(c)'
    BY <1>2, <2>1, <2>4 DEF BridgeOK, OpenOK
  <2> QED
    BY <2>2, <2>3, <2>5 DEF BridgeOK
<1>5. \A u \in Tokens : InFront(u)' = InFront(u)
  BY <1>2 DEF InFront
<1> QED
  BY <1>1, <1>2, <1>4, <1>5, OwnedSame DEF TokenInv, WorkOK

\* Every step keeps every context in one place.
LEMMA TokenInvStep ==
  ASSUME IInv, TokenInv, StopOK, [Next]_vars
  PROVE  TokenInv'
<1>1. CASE UNCHANGED vars
  <2>1. UNCHANGED <<live, fpc, fctx, fkey, pending, bpc, bctx, hpc, cpc, closer, drop, fopen,
                    up, wpc, wctx, stopping, mpc, force, todo>>
    BY <1>1 DEF vars, gateVars, bridgeVars, frontVars, backVars, closeVars, connVars,
                otherVars, workVars, maintVars
  <2>2. \A c \in Bridges : BridgeOK(c)'
    BY <2>1, UntouchedBridge DEF Untouched, TokenInv
  <2>3. \A u \in Tokens : InFront(u)' = InFront(u)
    BY <2>1 DEF InFront
  <2> QED
    BY <2>1, <2>2, <2>3, OwnedSame DEF TokenInv, WorkOK
<1>2. ASSUME NEW b \in Bridges, Front(b)
      PROVE  TokenInv'
  BY <1>2, FrontMutationKeeps, FrontReadKeeps, FrontRegisterKeeps, FrontSendKeeps,
     FrontSendFailsKeeps, FrontExitKeeps, FrontLeaveKeeps DEF Front
<1>3. ASSUME NEW b \in Bridges, Back(b)
      PROVE  TokenInv'
  BY <1>3, BackRecvKeeps, BackExitKeeps, BackMovesKeep DEF Back
<1>4. ASSUME NEW b \in Bridges, Handler(b)
      PROVE  TokenInv'
  BY <1>4, HandlerMovesKeep, HandlerCloseKeeps, CloseReleaseKeeps, CloseDisconnectKeeps,
     HandlerRetireKeeps DEF Handler
<1>5. ASSUME NEW m \in Maintainers, Maintain(m)
      PROVE  TokenInv'
  BY <1>5, MaintainMovesKeep, MaintainCloseKeeps, MaintainTeardownKeeps DEF Maintain
<1> QED
  BY <1>1, <1>2, <1>3, <1>4, <1>5, WorkKeeps, EnvironmentKeeps DEF Next

\* Bridges are connected only before the service stops.
LEMMA StopOKStep ==
  ASSUME IInv, StopOK, [Next]_vars
  PROVE  StopOK'
<1>1. /\ OneDrainer /\ mpc \in [Maintainers -> MaintPCs]
      /\ hpc \in [Bridges -> HandlerPCs]
      /\ todo \subseteq Bridges
  BY DEF IInv, GateInv, TypeOK, OtherTypeOK, BridgeTypeOK
<1>2. CASE UNCHANGED <<stopping, mpc, todo, hpc>>
  BY <1>2 DEF StopOK
<1>3. ASSUME NEW b \in Bridges, Handler(b)
      PROVE  StopOK'
  <2>1. /\ UNCHANGED <<stopping, mpc, todo>>
        /\ \/ ~stopping
           \/ \A c \in Bridges : hpc'[c] = "connected" => hpc[c] = "connected"
    BY <1>1, <1>3 DEF Handler, HandlerConnect, HandlerRegister, HandlerClose, CloseRelease,
                      CloseDisconnect, HandlerRetire, otherVars, maintVars
  <2> QED
    BY <1>1, <2>1 DEF StopOK
<1>4. ASSUME NEW m \in Maintainers, MaintainTerminate(m)
      PROVE  StopOK'
  <2>1. /\ \A b \in todo' : hpc'[b] # "connected"
        /\ stopping'
    BY <1>1, <1>4 DEF MaintainTerminate, Registered, bridgeVars
  <2> QED
    BY <2>1 DEF StopOK
<1>5. ASSUME NEW m \in Maintainers, Maintain(m), ~MaintainTerminate(m)
      PROVE  StopOK'
  <2>1. /\ UNCHANGED <<stopping, hpc>> /\ todo' \subseteq todo
        /\ \A n \in Maintainers : mpc'[n] = "closing" => mpc[n] = "closing"
    BY <1>1, <1>5
    DEF Maintain, MaintainRequest, MaintainClaim, MaintainSettle, MaintainDecide,
        MaintainRefuse, MaintainClose, MaintainTeardown, MaintainRelease, bridgeVars
  <2> QED
    BY <2>1 DEF StopOK
<1>6. CASE UNCHANGED vars
  BY <1>2, <1>6 DEF vars, bridgeVars, otherVars, maintVars
<1>7. ASSUME NEW b \in Bridges, Front(b) \/ Back(b)
      PROVE  StopOK'
  BY <1>2, <1>7
  DEF Front, FrontMutation, FrontRead, FrontRegister, FrontSend, FrontSendFails, FrontExit,
      FrontLeave, Back, BackRecv, BackExit, BackForward, BackLeave, otherVars, maintVars
<1>8. ASSUME NEW w \in Workers, Work(w)
      PROVE  StopOK'
  BY <1>2, <1>8 DEF Work, WorkerEnter, WorkerCall, WorkerLeave, bridgeVars, maintVars
<1>9. CASE Environment
  BY <1>2, <1>9 DEF Environment, FrontDrop, UpstreamAnswer, UpstreamReturn, TurnEnds,
                    bridgeVars, otherVars, maintVars
<1> QED
  BY <1>3, <1>4, <1>5, <1>6, <1>7, <1>8, <1>9 DEF Next

-----------------------------------------------------------------------------
(* What a lease that is not forced may rely on.                            *)

\* A forwarded request of an open bridge is registered, a mutation with its context.
LEMMA Forwarded ==
  ASSUME IInv, TokenInv
  PROVE  ForwardedIsRegistered
<1> SUFFICES ASSUME NEW b \in Bridges, NEW k \in Keys, cpc[b] = "open"
             PROVE  /\ up[b][k] = "mutation" => pending[b][k] \in live
                    /\ up[b][k] = "read" => pending[b][k] = Read
  BY DEF ForwardedIsRegistered
<1>1. Owned /\ BridgeOK(b)
  BY DEF TokenInv
<1>2. /\ up[b][k] = "mutation" => pending[b][k] \in Tokens
      /\ up[b][k] = "read" => pending[b][k] = Read
  BY <1>1 DEF BridgeOK, OpenOK
<1>3. pending[b][k] \in Tokens => pending[b][k] \in live
  BY <1>1, PendingHas
<1> QED
  BY <1>2, <1>3

\* The context of a broker operation that runs is inside.
LEMMA WorkIsLive ==
  ASSUME IInv, TokenInv, NEW w \in Workers, wpc[w] # "idle"
  PROVE  wctx[w] \in live
<1>1. /\ Owned /\ wctx[w] \in Slots /\ wctx[w] # NoToken /\ wctx[w] # Read
  BY DEF IInv, TypeOK, OtherTypeOK, TokenInv, WorkOK
<1>2. wctx[w] \in Tokens
  BY <1>1 DEF Slots
<1> QED
  BY <1>1, <1>2, WorkHas

\* While a clean stop is under way no turn starts on behalf of anybody.
LEMMA CleanOKStep ==
  ASSUME IInv, TokenInv, CleanOK, [Next]_vars
  PROVE  CleanOK'
<1>1. /\ OneDrainer /\ LeaseHeld /\ ForwardedIsRegistered
      /\ mpc \in [Maintainers -> MaintPCs] /\ force \in [Maintainers -> BOOLEAN]
      /\ mode \in [Maintainers -> {"none", "forced", "stopping", "clean"}]
  BY Forwarded DEF IInv, GateInv, TypeOK, OtherTypeOK
<1>2. ASSUME NEW m \in Maintainers, mode[m] = "clean", mpc[m] \in {"terminating", "closing"}
      PROVE  live = {}
  BY <1>1, <1>2 DEF CleanOK, LeaseHeld
<1>3. ASSUME UNCHANGED <<mpc, mode, force>>,
             turns' \subseteq turns \/ live # {} \/ "tracked" \notin turns' \ turns
      PROVE  CleanOK'
  BY <1>2, <1>3 DEF CleanOK
<1>4. CASE UNCHANGED vars
  BY <1>3, <1>4 DEF vars, otherVars, coreVars, maintVars
<1>5. ASSUME NEW b \in Bridges, Front(b) \/ Back(b) \/ Handler(b)
      PROVE  CleanOK'
  <2>1. UNCHANGED otherVars
    BY <1>5 DEF Front, FrontMutation, FrontRead, FrontRegister, FrontSend, FrontSendFails,
      FrontExit, FrontLeave, Back, BackRecv, BackExit, BackForward, BackLeave, Handler,
      HandlerConnect, HandlerRegister, HandlerClose, CloseRelease, CloseDisconnect,
      HandlerRetire
  <2> QED
    BY <1>3, <2>1 DEF otherVars, coreVars, maintVars
<1>6. ASSUME NEW w \in Workers, Work(w)
      PROVE  CleanOK'
  BY <1>3, <1>6 DEF Work, WorkerEnter, WorkerCall, WorkerLeave, coreVars, maintVars
<1>7. ASSUME NEW b \in Bridges, NEW k \in Keys, UpstreamAnswer(b, k)
      PROVE  CleanOK'
  <2>1. UNCHANGED <<mpc, mode, force>>
    BY <1>7 DEF UpstreamAnswer, maintVars
  <2>2. CASE up[b][k] = "mutation" /\ cpc[b] = "open"
    BY <1>1, <1>3, <2>1, <2>2 DEF ForwardedIsRegistered
  <2>3. CASE ~(up[b][k] = "mutation" /\ cpc[b] = "open")
    <3>1. turns' \in {turns, turns \cup {"orphaned"}}
      BY <1>7, <2>3 DEF UpstreamAnswer, MayStartTurn
    <3> QED
      BY <1>3, <2>1, <3>1
  <2> QED
    BY <2>2, <2>3
<1>8. ASSUME NEW w \in Workers, UpstreamReturn(w)
      PROVE  CleanOK'
  <2>1. UNCHANGED <<mpc, mode, force>>
    BY <1>8 DEF UpstreamReturn, maintVars
  <2>2. CASE wpc[w] = "calling"
    BY <1>3, <2>1, <2>2, WorkIsLive
  <2>3. CASE wpc[w] # "calling"
    <3>1. turns' \in {turns, turns \cup {"orphaned"}}
      BY <1>8, <2>3 DEF UpstreamReturn, MayStartTurn
    <3> QED
      BY <1>3, <2>1, <3>1
  <2> QED
    BY <2>2, <2>3
<1>9. ASSUME (\E b \in Bridges : FrontDrop(b)) \/ TurnEnds
      PROVE  CleanOK'
  <2>1. UNCHANGED <<mpc, mode, force>> /\ turns' \subseteq turns
    BY <1>9 DEF FrontDrop, TurnEnds, otherVars, coreVars, maintVars
  <2> QED
    BY <1>3, <2>1
<1>10. ASSUME NEW m \in Maintainers, MaintainDecide(m)
       PROVE  CleanOK'
  <2>1. \A n \in Maintainers : mpc[n] \in {"terminating", "closing"} => n = m
    BY <1>1, <1>10 DEF MaintainDecide, OneDrainer, Drainers
  <2>2. \A n \in Maintainers \ {m} : mpc'[n] = mpc[n]
    BY <1>1, <1>10 DEF MaintainDecide
  <2>3. mode'[m] = "clean" => ~force[m] /\ turns = {}
    BY <1>1, <1>10 DEF MaintainDecide
  <2>4. UNCHANGED <<force, turns>>
    BY <1>10 DEF MaintainDecide, coreVars
  <2> QED
    BY <2>1, <2>2, <2>3, <2>4 DEF CleanOK
<1>11. ASSUME NEW m \in Maintainers, Maintain(m), ~MaintainDecide(m)
       PROVE  CleanOK'
  <2>1. turns' \in {turns, {}}
    BY <1>11
    DEF Maintain, MaintainRequest, MaintainClaim, MaintainSettle, MaintainRefuse,
        MaintainTerminate, MaintainClose, MaintainTeardown, MaintainRelease, coreVars
  <2>2. ASSUME NEW n \in Maintainers, mpc'[n] \in {"terminating", "closing"}
        PROVE  /\ mpc[n] \in {"terminating", "closing"}
               /\ mode'[n] = mode[n] /\ force'[n] = force[n]
    BY <1>1, <1>11, <2>2
    DEF Maintain, MaintainRequest, MaintainClaim, MaintainSettle, MaintainRefuse,
        MaintainTerminate, MaintainClose, MaintainTeardown, MaintainRelease, MaintPCs
  <2> QED
    BY <2>1, <2>2 DEF CleanOK
<1> QED
  BY <1>4, <1>5, <1>6, <1>7, <1>8, <1>9, <1>10, <1>11 DEF Next, Environment

-----------------------------------------------------------------------------
(* The invariants.                                                         *)

\* The inductive invariant holds initially.
LEMMA GatewayInvInit == Init => GatewayInv
<1> SUFFICES ASSUME Init PROVE GatewayInv
  OBVIOUS
<1>1. IInv
  BY IInvInit
<1>2. NoToken \notin Tokens /\ Read # NoToken /\ NoKey \notin Keys
  BY GatewayAssumption DEF GatewayAssumption
<1>3. Owned
  <2> SUFFICES ASSUME NEW t \in Tokens PROVE Unheld(t) /\ t \notin live
    BY DEF Owned
  <2>1. \A b \in Bridges, k \in Keys : pending[b][k] # t
    BY <1>2 DEF Init
  <2>2. InPending(t) = {}
    BY <2>1, PendingNowhere DEF InPending
  <2> QED
    BY <1>2, <2>2 DEF Init, Unheld, InWork, InFront, InBack, InDrop
<1>4. WorkOK
  BY <1>2 DEF Init, WorkOK
<1>5. ASSUME NEW b \in Bridges
      PROVE  BridgeOK(b)
  BY <1>2 DEF Init, BridgeOK, PumpOK, LifeOK, ClosedOK, OpenOK
<1>6. StopOK /\ CleanOK
  BY DEF Init, StopOK, CleanOK
<1> QED
  BY <1>1, <1>3, <1>4, <1>5, <1>6 DEF GatewayInv, TokenInv

\* Every step keeps it.
LEMMA GatewayInvStep == GatewayInv /\ [Next]_vars => GatewayInv'
  BY IInvStep, TokenInvStep, StopOKStep, CleanOKStep DEF GatewayInv

\* Hence it always holds.
LEMMA GatewayInvariance == Spec => []GatewayInv
  BY GatewayInvInit, GatewayInvStep, PTL DEF Spec

\* Every mutation counted by the gate will be ended by exactly one thread, whatever the
\* order of responses, disconnects, failed sends and closes; only a forced stop strands
\* one (mutation, _forward_frontend, _pump_backend, _close_bridge).
THEOREM TokensAreHeld == Spec => []TokensHeld
<1>1. GatewayInv => TokensHeld
  <2> SUFFICES ASSUME GatewayInv PROVE TokensHeld
    OBVIOUS
  <2>1. Owned /\ Counted /\ live \subseteq Tokens /\ BridgeTypeOK
    BY DEF GatewayInv, IInv, GateInv, TokenInv, TypeOK, GateTypeOK
  <2>2. ASSUME NEW t \in live
        PROVE  Cardinality(Hands(t)) = 1 \/ (Hands(t) = {} /\ Stranded(t))
    <3>1. HeldOnce(t)
      BY <2>1 DEF Owned
    <3>2. Hands(t) = {<<"worker", w>> : w \in InWork(t)}
                     \cup {<<"frontend", b>> : b \in InFront(t)}
                     \cup {<<"backend", b>> : b \in InBack(t)}
                     \cup {<<"closer", b>> : b \in InDrop(t)}
                     \cup {<<"pending", p>> : p \in {q \in InPending(t) : cpc[q[1]] = "open"}}
      <4>1. {p \in Bridges \X Keys : cpc[p[1]] = "open" /\ pending[p[1]][p[2]] = t}
              = {q \in InPending(t) : cpc[q[1]] = "open"}
        BY DEF InPending
      <4> QED
        BY <4>1 DEF Hands, InWork, InFront, InBack, InDrop
    <3>3. (\E h : Hands(t) = {h}) \/ (Hands(t) = {} /\ Stranded(t))
      <4>1. ASSUME NEW w \in Workers,
                   /\ InWork(t) = {w} /\ InFront(t) = {} /\ InBack(t) = {}
                   /\ InDrop(t) = {} /\ InPending(t) = {}
            PROVE  \E h : Hands(t) = {h}
        <5>1. {q \in InPending(t) : cpc[q[1]] = "open"} = {}
          BY <4>1
        <5>2. Hands(t) = {<<"worker", w>>}
          BY <3>2, <4>1, <5>1
        <5> QED
          BY <5>2
      <4>2. ASSUME NEW b \in Bridges,
                   /\ InFront(t) = {b} /\ InWork(t) = {} /\ InBack(t) = {}
                   /\ InDrop(t) = {} /\ InPending(t) = {}
            PROVE  \E h : Hands(t) = {h}
        <5>1. {q \in InPending(t) : cpc[q[1]] = "open"} = {}
          BY <4>2
        <5>2. Hands(t) = {<<"frontend", b>>}
          BY <3>2, <4>2, <5>1
        <5> QED
          BY <5>2
      <4>3. ASSUME NEW b \in Bridges,
                   /\ InBack(t) = {b} /\ InWork(t) = {} /\ InFront(t) = {}
                   /\ InDrop(t) = {} /\ InPending(t) = {}
            PROVE  \E h : Hands(t) = {h}
        <5>1. {q \in InPending(t) : cpc[q[1]] = "open"} = {}
          BY <4>3
        <5>2. Hands(t) = {<<"backend", b>>}
          BY <3>2, <4>3, <5>1
        <5> QED
          BY <5>2
      <4>4. ASSUME NEW b \in Bridges,
                   /\ InDrop(t) = {b} /\ InWork(t) = {} /\ InFront(t) = {}
                   /\ InBack(t) = {} /\ InPending(t) = {}
            PROVE  \E h : Hands(t) = {h}
        <5>1. {q \in InPending(t) : cpc[q[1]] = "open"} = {}
          BY <4>4
        <5>2. Hands(t) = {<<"closer", b>>}
          BY <3>2, <4>4, <5>1
        <5> QED
          BY <5>2
      <4>5. ASSUME NEW p \in Bridges \X Keys,
                   /\ InPending(t) = {p} /\ InWork(t) = {} /\ InFront(t) = {}
                   /\ InBack(t) = {} /\ InDrop(t) = {}
            PROVE  (\E h : Hands(t) = {h}) \/ (Hands(t) = {} /\ Stranded(t))
        <5>1. Hands(t) = {<<"pending", q>> : q \in {r \in {p} : cpc[r[1]] = "open"}}
          BY <3>2, <4>5
        <5>2. CASE cpc[p[1]] = "open"
          <6>1. Hands(t) = {<<"pending", p>>}
            BY <5>1, <5>2
          <6> QED
            BY <6>1
        <5>3. CASE cpc[p[1]] # "open"
          <6>1. Hands(t) = {}
            BY <5>1, <5>3
          <6>2. PICK b \in Bridges, k \in Keys : p = <<b, k>>
            BY <4>5
          <6>3. pending[b][k] = t
            BY <4>5, <6>2 DEF InPending
          <6>4. BridgeOK(b) /\ t \in Tokens /\ cpc[b] # "open"
            BY <2>1, <5>3, <6>2 DEF GatewayInv, TokenInv
          <6>5. closer[b] = "forced"
            BY <2>1, <6>3, <6>4 DEF BridgeOK, LifeOK, ClosedOK, BridgeTypeOK
          <6> QED
            BY <6>1, <6>3, <6>4, <6>5 DEF Stranded
        <5> QED
          BY <5>2, <5>3
      <4> QED
        BY <3>1, <4>1, <4>2, <4>3, <4>4, <4>5 DEF HeldOnce
    <3> QED
      BY <3>3, FS_Singleton
  <2> QED
    BY <2>1, <2>2 DEF TokensHeld, Counted
<1> QED
  BY <1>1, GatewayInvariance, PTL

\* A fast response cannot outrun the accounting: what was forwarded on an open bridge is
\* registered, a mutation with a context that is inside (_forward_frontend).
THEOREM ForwardedStaysRegistered == Spec => []ForwardedIsRegistered
<1>1. GatewayInv => ForwardedIsRegistered
  BY Forwarded DEF GatewayInv
<1> QED
  BY <1>1, GatewayInvariance, PTL

\* A stop that found no active turn and is not forced never tears the service down over
\* a turn whose start was still accounted for (_maintain).
THEOREM CleanStopsSpareTurns == Spec => []CleanStopSparesTurns
<1>1. GatewayInv => CleanStopSparesTurns
  BY DEF GatewayInv, CleanOK, CleanStopSparesTurns
<1> QED
  BY <1>1, GatewayInvariance, PTL

\* Under a lease that is not forced Codex executes for the gate's clients only what they
\* gave up: their bridge was closed or their call timed out (drain, WebSocketGateway).
THEOREM LeaseFindsWorkSettled == Spec => []SettledUnlessAbandoned
<1>1. GatewayInv => SettledUnlessAbandoned
  <2> SUFFICES ASSUME GatewayInv, lease # NoLease, ~force[lease]
               PROVE  /\ \A b \in Bridges, k \in Keys :
                            up[b][k] = "mutation" => cpc[b] # "open"
                      /\ \A w \in Workers : wup[w] = "running" => wpc[w] = "idle"
    BY DEF SettledUnlessAbandoned
  <2>1. IInv /\ TokenInv
    BY DEF GatewayInv
  <2>2. live = {}
    BY <2>1 DEF IInv, TypeOK, GateTypeOK, GateInv, LeaseHeld
  <2>3. ForwardedIsRegistered
    BY <2>1, Forwarded
  <2> QED
    BY <2>1, <2>2, <2>3, WorkIsLive DEF ForwardedIsRegistered
<1> QED
  BY <1>1, GatewayInvariance, PTL

-----------------------------------------------------------------------------
(* Without forced stops.                                                   *)

NeverForced == /\ \A m \in Maintainers : force[m] = FALSE
               /\ \A b \in Bridges : closer[b] # "forced"

\* Where no maintainer may force, no bridge is closed by a forced stop.
LEMMA NeverForcedStep ==
  ASSUME ForceModes \subseteq {FALSE}, TypeOK, NeverForced, [Next]_vars
  PROVE  NeverForced'
<1>1. /\ force \in [Maintainers -> BOOLEAN]
      /\ closer \in [Bridges -> {"nobody", "handler", "gateway", "forced"}]
  BY DEF TypeOK, OtherTypeOK, BridgeTypeOK
<1>2. CASE UNCHANGED <<force, closer>>
  BY <1>2 DEF NeverForced
<1>3. ASSUME NEW m \in Maintainers, Maintain(m)
      PROVE  NeverForced'
  <2>1. \A n \in Maintainers : force'[n] = FALSE
    BY <1>1, <1>3
    DEF Maintain, MaintainRequest, MaintainClaim, MaintainSettle, MaintainDecide,
        MaintainRefuse, MaintainTerminate, MaintainClose, MaintainTeardown,
        MaintainRelease, NeverForced
  <2>2. closer' = closer \/ \E b \in Bridges : BeginClose(b, "gateway")
    BY <1>3
    DEF Maintain, MaintainRequest, MaintainClaim, MaintainSettle, MaintainDecide,
        MaintainRefuse, MaintainTerminate, MaintainClose, MaintainTeardown,
        MaintainRelease, NeverForced, bridgeVars, closeVars
  <2>3. \A b \in Bridges : closer'[b] # "forced"
    BY <1>1, <2>2 DEF BeginClose, NeverForced
  <2> QED
    BY <2>1, <2>3 DEF NeverForced
<1>4. ASSUME NEW b \in Bridges, Handler(b)
      PROVE  NeverForced'
  <2>1. UNCHANGED force
    BY <1>4 DEF Handler, HandlerConnect, HandlerRegister, HandlerClose, CloseRelease,
                CloseDisconnect, HandlerRetire, otherVars, maintVars
  <2>2. \A c \in Bridges : closer'[c] # "forced"
    BY <1>1, <1>4
    DEF Handler, HandlerConnect, HandlerRegister, HandlerClose, BeginClose, CloseRelease,
        CloseDisconnect, HandlerRetire, NeverForced, closeVars
  <2> QED
    BY <2>1, <2>2 DEF NeverForced
<1>5. CASE UNCHANGED vars
  BY <1>2, <1>5 DEF vars, bridgeVars, closeVars, otherVars, maintVars
<1>6. ASSUME NEW b \in Bridges, Front(b) \/ Back(b)
      PROVE  NeverForced'
  BY <1>2, <1>6
  DEF Front, FrontMutation, FrontRead, FrontRegister, FrontSend, FrontSendFails, FrontExit,
      FrontLeave, Back, BackRecv, BackExit, BackForward, BackLeave, closeVars, otherVars,
      maintVars
<1>7. ASSUME NEW w \in Workers, Work(w)
      PROVE  NeverForced'
  BY <1>2, <1>7 DEF Work, WorkerEnter, WorkerCall, WorkerLeave, bridgeVars, closeVars,
                    maintVars
<1>8. CASE Environment
  BY <1>2, <1>8 DEF Environment, FrontDrop, UpstreamAnswer, UpstreamReturn, TurnEnds,
                    bridgeVars, closeVars, otherVars, maintVars
<1> QED
  BY <1>3, <1>4, <1>5, <1>6, <1>7, <1>8 DEF Next

\* What websocket_gateway.py:464 asks of a close holds of every close of a service whose
\* stops are not forced: no mutation token is stranded.
THEOREM UnforcedStopsStrandNothing ==
  ForceModes \subseteq {FALSE} => (Spec => []NoStrandedTokens)
<1> SUFFICES ASSUME ForceModes \subseteq {FALSE}
             PROVE  Spec => []NoStrandedTokens
  OBVIOUS
<1>1. Init => NeverForced
  BY DEF Init, NeverForced
<1>2. TypeOK /\ NeverForced /\ [Next]_vars => NeverForced'
  BY NeverForcedStep
<1>3. NeverForced /\ TokensHeld => NoStrandedTokens
  <2> SUFFICES ASSUME NeverForced, TokensHeld, NEW t \in live, Hands(t) = {}
               PROVE  FALSE
    BY DEF NoStrandedTokens
  <2>1. Cardinality(Hands(t)) = 0
    BY FS_EmptySet
  <2> QED
    BY <2>1 DEF TokensHeld, Stranded, NeverForced
<1> QED
  BY <1>1, <1>2, <1>3, TypeCorrect, TokensAreHeld, PTL DEF Spec
=============================================================================
