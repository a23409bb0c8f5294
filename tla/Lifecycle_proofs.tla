---------------------------- MODULE Lifecycle_proofs ----------------------------
(***************************************************************************)
(* Why there is one service at a time, and nothing left of those before:   *)
(* the invariants of Lifecycle.                                            *)
(*                                                                         *)
(* The client that holds the start lock supervises the daemon it spawned   *)
(* until that serves or is gone, so while the lock is handed on no daemon  *)
(* is starting (Owned, Holding).  One that ends is awaited in the same way *)
(* (Supervised); unless a client stopped waiting, two daemons never reach  *)
(* for the path of the service at the same time.  What a daemon has to     *)
(* clean up is what it has seen of its private socket, and only a daemon   *)
(* that still needs its child has both (Files).  In the end this says why  *)
(* a launch fails: an earlier daemon has left nothing that could keep the  *)
(* next one from coming up (Launches).                                     *)
(***************************************************************************)
EXTENDS Lifecycle, TLAPS

Phases == {"idle", "lock", "survey", "ask", "asked", "await", "probe", "launch", "poll",
           "term", "final"}
Verdicts == {"none", "done", "stopped", "failed", "in_use", "exited", "timeout"}
Stages == {"gone", "serving"} \cup Starting \cup Closing
Bound == {"bound", "serving", "stopping", "closing", "unlink"}

-----------------------------------------------------------------------------
(* The inductive invariant.                                                *)

\* TypeOK, by actor.
ClientTypes ==
  /\ cpc \in [Clients -> Phases] /\ cmd \in [Clients -> Orders]
  /\ basis \in [Clients -> Daemons \cup {Nil, Unknown}]
  /\ renew \subseteq Clients
  /\ prev \in [Clients -> Configs \cup {Nil}] /\ want \in [Clients -> Configs \cup {Nil}]
  /\ own \in [Clients -> Daemons \cup {Nil}] /\ out \in [Clients -> Verdicts]
  /\ lock \in Clients \cup {Nil}
  /\ \A c \in Clients : cpc[c] \in {"poll", "term", "final"} <=> own[c] # Nil
DaemonTypes ==
  /\ dpc \in [Daemons -> Stages] /\ dcfg \in [Daemons -> Configs \cup {Nil}]
  /\ sockid \in [Daemons -> Daemons \cup {Nil}] /\ halted \subseteq Daemons
  /\ inbox \in [Daemons -> SUBSET Requests]
  /\ kid \in [Daemons -> {"none", "starting", "up"}]
  /\ \A d \in Daemons : dpc[d] = "gone" <=> dcfg[d] = Nil
PathTypes ==
  /\ config \in Configs \cup {Nil}
  /\ pub \in [Listeners -> Daemons \cup {Outside, Nil}]
  /\ rpc \in Daemons \cup {Nil} /\ priv \in Daemons \cup {Nil}
  /\ receipts \subseteq Daemons
LuckTypes == left \in 0 .. MaxMishaps /\ harm \subseteq Kinds
Types == ClientTypes /\ DaemonTypes /\ PathTypes /\ LuckTypes

\* Daemon d is supervised: the holder of the start lock spawned it and has not let go.
Owned(d) == lock # Nil /\ own[lock] = d /\ cpc[lock] \in {"poll", "term"}

\* No process ended without its clean-up; and no child by itself or despite of it.
Orderly == harm \cap {"crash", "kill", "slowstart"} = {}
Neat == harm \cap {"crash", "kill", "child", "slowstart", "teardown"} = {}

\* A client at work holds the start lock, and nobody else does.
Holding == \A c \in Clients : cpc[c] \notin {"idle", "lock"} <=> lock = c

\* A request is the only one of a client that waits for it, or of one that gave up.
Asking ==
  \A d \in Daemons : \A q \in inbox[d] :
    IF q.from = Nil THEN Overlap
    ELSE /\ cpc[q.from] = "asked"
         /\ \A e \in Daemons : \A r \in inbox[e] : r.from = q.from => e = d /\ r = q

\* The daemon of a client runs what the client wants, and as long as the client polls no
\* other daemon is bound to its listener.
Clientele == \A c \in Clients :
  /\ own[c] # Nil => want[c] # Nil /\ (dpc[own[c]] # "gone" => dcfg[own[c]] = want[c])
  /\ cpc[c] = "poll" /\ "kill" \notin harm =>
       pub[want[c].listener] \in {own[c], Outside, Nil}

\* What a daemon has not before it is started, and no longer when it is gone.
Unused(d) ==
  /\ dpc[d] = "gone" => inbox[d] = {} /\ \A l \in Listeners : pub[l] # d
  /\ dpc[d] \in {"gone", "boot", "prepare"} => sockid[d] = Nil
  /\ dpc[d] \in {"boot", "prepare"} => kid[d] = "none" /\ priv # d
  /\ dpc[d] \in {"gone"} \cup Starting => d \notin halted

\* A daemon that starts is supervised.  Unless a client stopped waiting, one that is at
\* the path is alone there, one that closes is awaited, one that serves beside a launch
\* has been halted, and the one that may answer runs the durable configuration.
Supervised(d) ==
  /\ dpc[d] \in Starting /\ "kill" \notin harm => Owned(d)
  /\ ~Overlap =>
     /\ dpc[d] \in Bound => rpc = d
     /\ dpc[d] \in {"stopping", "closing", "unlink"} =>
          /\ lock # Nil
          /\ cpc[lock] = "await" \/ (cpc[lock] = "term" /\ own[lock] = d)
     /\ /\ dpc[d] = "serving" /\ lock # Nil /\ d # own[lock]
        /\ cpc[lock] \in {"launch", "poll", "term", "final"}
        => d \in halted
     /\ dpc[d] \in {"open", "bound", "serving"} /\ d \notin halted => config = dcfg[d]

\* The private socket is that of a daemon that waits for it or remembers it and cleans
\* it up, with its child.
Files(d) ==
  /\ Orderly =>
     /\ kid[d] = "starting" => dpc[d] = "wait"
     /\ dpc[d] = "wait" => priv \in {Nil, d}
     /\ sockid[d] \in {Nil, d}
     /\ priv = d => dpc[d] # "gone" /\ (dpc[d] # "wait" => sockid[d] = d)
     /\ dpc[d] \in {"commit", "open", "bound", "serving"} /\ d \notin halted => priv = d
     /\ priv = d /\ dpc[d] \in Closing => Owned(d)
  /\ Neat /\ kid[d] = "up" => priv = d

Service ==
  /\ Types /\ Holding /\ Asking /\ Clientele
  /\ \A d \in Daemons : Unused(d) /\ Supervised(d) /\ Files(d)

\* What becomes of a listener that is closed, and what the probe says of one.
USE DEF Unbind, Bindable

-----------------------------------------------------------------------------
(* The records of the model.                                               *)

LEMMA ConfigFacts ==
  /\ Nil \notin Configs
  /\ \A g \in Configs : g.listener \in Listeners /\ g.gen \in Daemons
  /\ \A c \in Clients, l \in Listeners, d \in Daemons :
       [listener |-> l, version |-> Version[c], gen |-> d] \in Configs
BY LifecycleAssumption DEF Configs

LEMMA OrderFacts ==
  /\ NoCommand \in Orders
  /\ \A o \in Orders : /\ o.op \in {"start", "stop", "restart"}
                       /\ o.listener \in Listeners \cup {Any} /\ o.force \in BOOLEAN
  /\ \A o \in Orders, l \in Listeners \cup {Any} : [o EXCEPT !.listener = l] \in Orders
BY LifecycleAssumption DEF Orders, NoCommand

LEMMA RequestFacts ==
  /\ \A q \in Requests : q.from \in Clients \cup {Nil} /\ [q EXCEPT !.from = q.from] = q
  /\ \A c \in Clients, b \in BOOLEAN :
       [from |-> c, force |-> b] \in Requests /\ [from |-> c, force |-> b].from = c
  /\ \A q \in Requests, c \in Clients \cup {Nil} :
       [q EXCEPT !.from = c] \in Requests /\ [q EXCEPT !.from = c].from = c
BY DEF Requests

-----------------------------------------------------------------------------
(* What the parts of a step do to the types.                               *)

LEMMA FinishTypes ==
  ASSUME ClientTypes, NEW c \in Clients, NEW v \in Verdicts, Finish(c, v)
  PROVE  ClientTypes'
BY LifecycleAssumption, OrderFacts DEF ClientTypes, Finish, Phases

LEMMA GotoTypes ==
  ASSUME ClientTypes, NEW c \in Clients, NEW p \in Phases, Goto(c, p),
         p \in {"poll", "term", "final"} <=> cpc[c] \in {"poll", "term", "final"},
         cmd' \in [Clients -> Orders], basis' \in [Clients -> Daemons \cup {Nil, Unknown}],
         renew' \subseteq Clients, UNCHANGED <<prev, want, own>>
  PROVE  ClientTypes'
BY DEF ClientTypes, Goto

LEMMA DieTypes ==
  ASSUME DaemonTypes, PathTypes, NEW d \in Daemons, Die(d),
         kid' \in [Daemons -> {"none", "starting", "up"}]
  PROVE  DaemonTypes' /\ pub' \in [Listeners -> Daemons \cup {Outside, Nil}]
BY LifecycleAssumption DEF DaemonTypes, PathTypes, Die, Stages

LEMMA SignalTypes ==
  ASSUME DaemonTypes, PathTypes, NEW d \in Daemons, Signal(d)
  PROVE  DaemonTypes' /\ pub' \in [Listeners -> Daemons \cup {Outside, Nil}]
<1>1. CASE UNCHANGED <<daemonVars, pub>>
  BY <1>1 DEF DaemonTypes, PathTypes, daemonVars
<1>2. CASE Die(d) /\ UNCHANGED kid
  BY <1>2, DieTypes DEF DaemonTypes
<1>3. CASE /\ dpc[d] = "serving" /\ dpc' = [dpc EXCEPT ![d] = "stopping"]
           /\ UNCHANGED <<dcfg, sockid, halted, inbox, kid, pub>>
  BY <1>3 DEF DaemonTypes, PathTypes, Stages, Closing
<1>. QED
  BY <1>1, <1>2, <1>3 DEF Signal

LEMMA TornTypes ==
  ASSUME DaemonTypes, PathTypes, NEW d \in Daemons, NEW s, NEW id, Torn(d, s, id)
  PROVE  /\ kid' \in [Daemons -> {"none", "starting", "up"}]
         /\ priv' \in Daemons \cup {Nil}
BY DEF DaemonTypes, PathTypes, Torn

LEMMA MishapTypes ==
  ASSUME LuckTypes, NEW k, Mishap(k) \/ Expires(k)
  PROVE  LuckTypes'
BY LifecycleAssumption DEF LuckTypes, Mishap, Expires

LEMMA StepTypes ==
  ASSUME DaemonTypes, NEW d \in Daemons, NEW s, s # "gone", NEW t \in Stages \ {"gone"},
         Step(d, s, t), kid' \in [Daemons -> {"none", "starting", "up"}]
  PROVE  DaemonTypes'
BY DEF DaemonTypes, Step, Stages

\* The listener a restart is for is one.
LEMMA RequestedListener ==
  ASSUME Types, NEW c \in Clients, NEW b \in Daemons \cup {Nil, Unknown},
         b \in Daemons => dpc[b] # "gone"
  PROVE  Requested(c, b) \in Listeners
<1>1. cmd[c].listener \in Listeners \cup {Any}
  BY OrderFacts DEF Types, ClientTypes
<1>2. b \in Daemons => dcfg[b].listener \in Listeners
  BY ConfigFacts DEF Types, DaemonTypes
<1>3. config # Nil => config.listener \in Listeners
  BY ConfigFacts DEF Types, PathTypes
<1>. QED
  BY <1>1, <1>2, <1>3, LifecycleAssumption DEF Requested

LEMMA SurveyedTypes ==
  ASSUME Types, NEW c \in Clients, cpc[c] = "survey",
         NEW b \in Daemons \cup {Nil, Unknown}, b \in Daemons => dpc[b] # "gone",
         Surveyed(c, b)
  PROVE  ClientTypes'
<1>1. CASE Finish(c, "done")
  BY <1>1, FinishTypes DEF Types, Verdicts
<1>2. CASE ~(b = Nil /\ cmd[c].op = "stop")
  <2>1. PICK l \in Listeners \cup {Any} : cmd' = [cmd EXCEPT ![c].listener = l]
    <3>1. cmd[c].listener \in Listeners \cup {Any}
      BY OrderFacts DEF Types, ClientTypes
    <3>. QED
      BY <1>2, <3>1, RequestedListener DEF Surveyed
  <2>2. cmd' \in [Clients -> Orders]
    BY <2>1, OrderFacts DEF Types, ClientTypes
  <2>3. /\ basis' \in [Clients -> Daemons \cup {Nil, Unknown}]
        /\ renew' \subseteq Clients
    BY <1>2 DEF Surveyed, Types, ClientTypes
  <2>4. PICK p \in {"probe", "ask"} : Goto(c, p)
    BY <1>2 DEF Surveyed
  <2>5. UNCHANGED <<prev, want, own>>
    BY <1>2 DEF Surveyed
  <2>. QED
    BY <2>2, <2>3, <2>4, <2>5, GotoTypes DEF Types, Phases
<1>. QED
  BY <1>1, <1>2 DEF Surveyed

\* A free daemon is gone, and nothing refers to it.
LEMMA FreeDaemon ==
  ASSUME NEW d \in NextFree
  PROVE  d \in Daemons /\ Free(d)
BY DEF NextFree

\* The service a stop or restart finds is there.
LEMMA BeforeFound ==
  ASSUME Types, NEW c \in Clients
  PROVE  /\ Before(c) \in Daemons \cup {Nil, Unknown}
         /\ Before(c) \in Daemons => dpc[Before(c)] # "gone"
BY LifecycleAssumption DEF Types, PathTypes, Before, Ready, Answering

\* What a client launches is a configuration.
LEMMA ChosenConfig ==
  ASSUME Types, NEW c \in Clients, NEW d \in Daemons
  PROVE  Target(c) \in Listeners /\ Chosen(c, d) \in Configs /\ Chosen(c, d) # Nil
<1>1. cmd[c].listener \in Listeners \cup {Any}
  BY OrderFacts DEF Types, ClientTypes
<1>2. config # Nil => config \in Configs /\ config.listener \in Listeners
  BY ConfigFacts DEF Types, PathTypes
<1>3. Target(c) \in Listeners
  BY <1>1, <1>2, LifecycleAssumption DEF Target, Keeps
<1>. QED
  BY <1>2, <1>3, ConfigFacts DEF Chosen, Reuses, Keeps

LEMMA ReplyTypes ==
  ASSUME Types, Asking, NEW d \in Daemons, NEW q \in inbox[d],
         NEW v \in {"completed", "failed"}, Reply(q, v)
  PROVE  ClientTypes'
<1>1. q.from \in Clients \cup {Nil} /\ (q.from # Nil => cpc[q.from] = "asked")
  BY RequestFacts DEF Types, DaemonTypes, Asking
<1>2. CASE q.from = Nil
  BY <1>2 DEF Reply, Types, ClientTypes, clientVars, callVars
<1>3. CASE q.from # Nil /\ v = "completed"
  <2>1. Goto(q.from, "await") /\ UNCHANGED callVars
    BY <1>3 DEF Reply
  <2>. QED
    BY <1>1, <1>3, <2>1, GotoTypes DEF Types, ClientTypes, Phases, callVars
<1>4. CASE q.from # Nil /\ v # "completed"
  BY <1>1, <1>4, FinishTypes DEF Reply, Types, Verdicts
<1>. QED
  BY <1>2, <1>3, <1>4

\* Every way a wait ends badly is a way to finish.
LEMMA EndedFinishes ==
  ASSUME Types, NEW c \in Clients, NEW v \in Verdicts, Ended(c, v)
  PROVE  (\E w \in Verdicts : Finish(c, w)) /\ receipts' \subseteq Daemons
BY DEF Ended, Verdicts, Types, PathTypes

\* Requests stay in order when some of them go, with their clients still waiting.
LEMMA AskingLess ==
  ASSUME Types, Asking, \A d \in Daemons : inbox'[d] \subseteq inbox[d],
         \A c \in Clients : cpc[c] = "asked" => cpc'[c] = "asked", harm \subseteq harm'
  PROVE  Asking'
<1>1. \A d \in Daemons : \A q \in inbox[d] : q.from \in Clients \cup {Nil}
  BY RequestFacts DEF Types, DaemonTypes
<1>. QED
  BY <1>1 DEF Asking, Overlap

\* A client disowns its requests: it is killed, or gives up.
LEMMA AskingDisowned ==
  ASSUME Types, Asking, NEW c \in Clients, Overlap',
         inbox' = [d \in Daemons |->
                     {[q EXCEPT !.from = IF @ = c THEN Nil ELSE @] : q \in inbox[d]}],
         \A b \in Clients \ {c} : cpc'[b] = cpc[b]
  PROVE  Asking'
<1>1. ASSUME NEW d \in Daemons, NEW p \in inbox'[d], p.from # Nil
      PROVE  p \in inbox[d] /\ p.from \in Clients \ {c}
  <2>1. PICK q \in inbox[d] : p = [q EXCEPT !.from = IF @ = c THEN Nil ELSE @]
    OBVIOUS
  <2>2. q \in Requests
    BY DEF Types, DaemonTypes
  <2>3. CASE q.from = c
    BY <1>1, <2>1, <2>2, <2>3, RequestFacts
  <2>4. CASE q.from # c
    BY <2>1, <2>2, <2>4, RequestFacts, <1>1
  <2>. QED
    BY <2>3, <2>4
<1>. QED
  BY <1>1 DEF Asking

-----------------------------------------------------------------------------
(* Every step keeps the invariant.                                         *)

USE LifecycleAssumption
    DEF Owned, Bound, Accepting, Goto, callVars, clientVars, daemonVars, pathVars, luckVars

\* A client that has nothing to do is given a command.
LEMMA CallKeeps ==
  ASSUME Service, NEW c \in Clients, NEW r \in Commands,
         Call(c,r)
  PROVE  Service'
<1>1. CASE Call(c,r)
  <2>1. Types'
    <3>1. ClientTypes'
      <4>1. r \in Orders /\ own[c] = Nil
        BY <1>1 DEF Service, Types, ClientTypes, Call
      <4>2. cpc' \in [Clients -> Phases] /\ out' \in [Clients -> Verdicts]
        <5>1. cpc \in [Clients -> Phases] /\ out \in [Clients -> Verdicts]
          BY DEF Service, Types, ClientTypes
        <5>2. "lock" \in Phases /\ "none" \in Verdicts
          BY DEF Phases, Verdicts
        <5>3. cpc' = [cpc EXCEPT ![c] = "lock"] /\ out' = [out EXCEPT ![c] = "none"]
          BY <1>1 DEF Call
        <5>. QED
          BY <5>1, <5>2, <5>3
      <4>3. cmd' = [cmd EXCEPT ![c] = r] /\ cmd \in [Clients -> Orders]
        BY <1>1 DEF Service, Types, ClientTypes, Call
      <4>4. cmd' \in [Clients -> Orders]
        BY <4>1, <4>3
      <4>5. \A b \in Clients : cpc'[b] \in {"poll", "term", "final"} <=> own'[b] # Nil
        BY <1>1, <4>1 DEF Service, Types, ClientTypes, Call
      <4>. QED
        BY <1>1, <4>2, <4>4, <4>5 DEF Service, Types, ClientTypes, Call
    <3>2. DaemonTypes'
      BY <1>1 DEF Service, Types, DaemonTypes, Call
    <3>3. PathTypes'
      BY <1>1 DEF Service, Types, PathTypes, Call
    <3>4. LuckTypes'
      BY <1>1 DEF Service, Types, LuckTypes, Call
    <3>. QED
      BY <3>1, <3>2, <3>3, <3>4 DEF Types
  <2>2. Holding'
    BY <1>1 DEF Service, Holding, Call
  <2>3. Asking'
    BY <1>1 DEF Service, Asking, Overlap, Mishap, Call
  <2>4. Clientele'
    BY <1>1 DEF Service, Clientele, Call
  <2>5. ASSUME NEW x \in Daemons PROVE (Unused(x) /\ Supervised(x) /\ Files(x))'
    <3>1. Unused(x)'
      BY <1>1 DEF Service, Unused, Call
    <3>2. Supervised(x)'
      BY <1>1 DEF Service, Supervised, Overlap, Mishap, Call
    <3>3. Files(x)'
      BY <1>1 DEF Service, Files, Orderly, Neat, Mishap, Call
    <3>. QED
      BY <3>1, <3>2, <3>3
  <2>. QED
    BY <2>1, <2>2, <2>3, <2>4, <2>5 DEF Service
<1>. QED
  BY <1>1

\* The start lock.
LEMMA LockKeeps ==
  ASSUME Service, NEW c \in Clients,
         Acquire(c) \/ LockTimeout(c)
  PROVE  Service'
<1>1. CASE Acquire(c)
  <2>1. Types'
    <3>1. ClientTypes'
      BY <1>1 DEF Service, Types, ClientTypes, Phases, Verdicts, Acquire
    <3>2. DaemonTypes'
      BY <1>1 DEF Service, Types, DaemonTypes, Acquire
    <3>3. PathTypes'
      BY <1>1 DEF Service, Types, PathTypes, Acquire
    <3>4. LuckTypes'
      BY <1>1 DEF Service, Types, LuckTypes, Acquire
    <3>. QED
      BY <3>1, <3>2, <3>3, <3>4 DEF Types
  <2>2. Holding'
    BY <1>1 DEF Service, Holding, Types, ClientTypes, Finish, Acquire
  <2>3. Asking'
    BY <1>1 DEF Service, Asking, Overlap, Mishap, Acquire
  <2>4. Clientele'
    BY <1>1 DEF Service, Clientele, Acquire
  <2>5. ASSUME NEW x \in Daemons PROVE (Unused(x) /\ Supervised(x) /\ Files(x))'
    <3>1. Unused(x)'
      BY <1>1 DEF Service, Unused, Acquire
    <3>2. Supervised(x)'
      BY <1>1 DEF Service, Supervised, Overlap, Mishap, Acquire
    <3>3. Files(x)'
      BY <1>1 DEF Service, Files, Orderly, Neat, Mishap, Acquire
    <3>. QED
      BY <3>1, <3>2, <3>3
  <2>. QED
    BY <2>1, <2>2, <2>3, <2>4, <2>5 DEF Service
<1>2. CASE LockTimeout(c)
  <2>1. Types'
    <3>1. ClientTypes'
      BY <1>2, FinishTypes, ConfigFacts, OrderFacts, RequestFacts
         DEF Service, Types, ClientTypes, DaemonTypes, PathTypes, Asking, Phases,
             Verdicts, LockTimeout
    <3>2. DaemonTypes'
      BY <1>2 DEF Service, Types, DaemonTypes, LockTimeout
    <3>3. PathTypes'
      BY <1>2 DEF Service, Types, PathTypes, LockTimeout
    <3>4. LuckTypes'
      BY <1>2 DEF Service, Types, LuckTypes, LockTimeout
    <3>. QED
      BY <3>1, <3>2, <3>3, <3>4 DEF Types
  <2>2. Holding'
    BY <1>2 DEF Service, Holding, Types, ClientTypes, Finish, LockTimeout
  <2>3. Asking'
    BY <1>2
       DEF Service, Asking, Types, ClientTypes, DaemonTypes, Overlap, Finish, Mishap,
           Expires, LockTimeout
  <2>4. Clientele'
    BY <1>2
       DEF Service, Clientele, Types, ClientTypes, DaemonTypes, PathTypes, Finish,
           Mishap, Expires, LockTimeout
  <2>5. ASSUME NEW x \in Daemons PROVE (Unused(x) /\ Supervised(x) /\ Files(x))'
    <3>1. Unused(x)'
      BY <1>2 DEF Service, Unused, LockTimeout
    <3>2. Supervised(x)'
      BY <1>2
         DEF Service, Supervised, Types, ClientTypes, DaemonTypes, PathTypes, Overlap,
             Finish, Mishap, Expires, LockTimeout
    <3>3. Files(x)'
      BY <1>2
         DEF Service, Files, Types, ClientTypes, DaemonTypes, PathTypes, Orderly, Neat,
             Finish, Mishap, Expires, LockTimeout
    <3>. QED
      BY <3>1, <3>2, <3>3
  <2>. QED
    BY <2>1, <2>2, <2>3, <2>4, <2>5 DEF Service
<1>. QED
  BY <1>1, <1>2

\* The client that holds the start lock: what it asks for, and how its wait ends.
LEMMA ClientKeeps ==
  ASSUME Service, NEW c \in Clients,
         Survey(c) \/ Ask(c) \/ AskLost(c) \/ AwaitStopped(c) \/ AwaitTimeout(c) \/
           ProbeStart(c) \/ LaunchFails(c) \/ PollReady(c) \/ PollDegraded(c) \/
           PollExited(c) \/ PollTimeout(c) \/ TermWait(c) \/ Final(c)
  PROVE  Service'
<1>1. CASE Survey(c)
  <2>1. Types'
    <3>1. ClientTypes'
      <4>1. CASE Finish(c, "failed")
        BY <4>1, FinishTypes DEF Service, Types, Verdicts
      <4>2. CASE Surveyed(c, Before(c))
        BY <1>1, <4>2, BeforeFound, SurveyedTypes DEF Service, Survey
      <4>. QED
        BY <1>1, <4>1, <4>2 DEF Survey
    <3>2. DaemonTypes'
      BY <1>1 DEF Service, Types, DaemonTypes, Survey
    <3>3. PathTypes'
      BY <1>1 DEF Service, Types, PathTypes, Survey
    <3>4. LuckTypes'
      BY <1>1 DEF Service, Types, LuckTypes, Survey
    <3>. QED
      BY <3>1, <3>2, <3>3, <3>4 DEF Types
  <2>2. Holding'
    BY <1>1
       DEF Service, Holding, Types, ClientTypes, Finish, Surveyed, Before, Requested,
           Survey
  <2>3. Asking'
    BY <1>1, <2>1, <2>2, RequestFacts, ConfigFacts
       DEF Service, Types, ClientTypes, DaemonTypes, Holding, Asking, Finish, Overlap,
           Mishap, Expires, Die, Signal, Surveyed, Before, Requested, Survey
  <2>4. Clientele'
    BY <1>1
       DEF Service, Clientele, Types, ClientTypes, DaemonTypes, PathTypes, Finish,
           Mishap, Expires, Surveyed, Before, Requested, Survey
  <2>5. ASSUME NEW x \in Daemons PROVE (Unused(x) /\ Supervised(x) /\ Files(x))'
    <3>1. Unused(x)'
      BY <1>1 DEF Service, Unused, Survey
    <3>2. Supervised(x)'
      BY <1>1
         DEF Service, Supervised, Types, ClientTypes, DaemonTypes, PathTypes, Overlap,
             Finish, Mishap, Expires, Surveyed, Before, Requested, Survey
    <3>3. Files(x)'
      BY <1>1
         DEF Service, Files, Types, ClientTypes, DaemonTypes, PathTypes, Orderly, Neat,
             Finish, Mishap, Expires, Surveyed, Before, Requested, Survey
    <3>. QED
      BY <3>1, <3>2, <3>3
  <2>. QED
    BY <2>1, <2>2, <2>3, <2>4, <2>5 DEF Service
<1>2. CASE Ask(c)
  <2>1. Types'
    <3>1. ClientTypes'
      <4>1. CASE Finish(c, "failed")
        BY <4>1, FinishTypes DEF Service, Types, Verdicts
      <4>2. CASE Goto(c, "asked") /\ UNCHANGED callVars
        BY <1>2, <4>2, GotoTypes DEF Service, Types, ClientTypes, Phases, Ask
      <4>. QED
        BY <1>2, <4>1, <4>2 DEF Ask
    <3>2. DaemonTypes'
      <4>1. (cmd[c].force /\ c \notin renew) \in BOOLEAN
        OBVIOUS
      <4>2. \/ UNCHANGED inbox
            \/ \E b \in BOOLEAN :
                 inbox' = [inbox EXCEPT ![rpc] = @ \cup {[from |-> c, force |-> b]}]
        BY <1>2, <4>1 DEF Ask
      <4>. QED
        BY <1>2, <4>2, RequestFacts DEF Service, Types, DaemonTypes, PathTypes, Ask
    <3>3. PathTypes'
      BY <1>2 DEF Service, Types, PathTypes, Ask
    <3>4. LuckTypes'
      BY <1>2 DEF Service, Types, LuckTypes, Ask
    <3>. QED
      BY <3>1, <3>2, <3>3, <3>4 DEF Types
  <2>2. Holding'
    BY <1>2 DEF Service, Holding, Types, ClientTypes, Finish, Ask
  <2>3. Asking'
    BY <1>2, <2>1, <2>2, RequestFacts, ConfigFacts
       DEF Service, Types, ClientTypes, DaemonTypes, Holding, Asking, Finish, Overlap,
           Mishap, Expires, Die, Signal, Ask
  <2>4. Clientele'
    BY <1>2
       DEF Service, Clientele, Types, ClientTypes, DaemonTypes, PathTypes, Finish,
           Mishap, Expires, Ask
  <2>5. ASSUME NEW x \in Daemons PROVE (Unused(x) /\ Supervised(x) /\ Files(x))'
    <3>1. Unused(x)'
      BY <1>2 DEF Service, Unused, Types, DaemonTypes, PathTypes, Ask
    <3>2. Supervised(x)'
      BY <1>2
         DEF Service, Supervised, Types, ClientTypes, DaemonTypes, PathTypes, Overlap,
             Finish, Mishap, Expires, Ask
    <3>3. Files(x)'
      BY <1>2
         DEF Service, Files, Types, ClientTypes, DaemonTypes, PathTypes, Orderly, Neat,
             Finish, Mishap, Expires, Ask
    <3>. QED
      BY <3>1, <3>2, <3>3
  <2>. QED
    BY <2>1, <2>2, <2>3, <2>4, <2>5 DEF Service
<1>3. CASE AskLost(c)
  <2>1. Types'
    <3>1. ClientTypes'
      BY <1>3, FinishTypes, ConfigFacts, OrderFacts, RequestFacts
         DEF Service, Types, ClientTypes, DaemonTypes, PathTypes, Asking, Phases,
             Verdicts, Waiting, AskLost
    <3>2. DaemonTypes'
      BY <1>3 DEF Service, Types, DaemonTypes, AskLost
    <3>3. PathTypes'
      BY <1>3 DEF Service, Types, PathTypes, AskLost
    <3>4. LuckTypes'
      BY <1>3 DEF Service, Types, LuckTypes, AskLost
    <3>. QED
      BY <3>1, <3>2, <3>3, <3>4 DEF Types
  <2>2. Holding'
    BY <1>3 DEF Service, Holding, Types, ClientTypes, Finish, Waiting, AskLost
  <2>3. Asking'
    BY <1>3
       DEF Service, Asking, Types, ClientTypes, DaemonTypes, Overlap, Finish, Mishap,
           Expires, Waiting, AskLost
  <2>4. Clientele'
    BY <1>3
       DEF Service, Clientele, Types, ClientTypes, DaemonTypes, PathTypes, Finish,
           Mishap, Expires, Waiting, AskLost
  <2>5. ASSUME NEW x \in Daemons PROVE (Unused(x) /\ Supervised(x) /\ Files(x))'
    <3>1. Unused(x)'
      BY <1>3 DEF Service, Unused, AskLost
    <3>2. Supervised(x)'
      BY <1>3
         DEF Service, Supervised, Types, ClientTypes, DaemonTypes, PathTypes, Overlap,
             Finish, Mishap, Expires, Waiting, AskLost
    <3>3. Files(x)'
      BY <1>3
         DEF Service, Files, Types, ClientTypes, DaemonTypes, PathTypes, Orderly, Neat,
             Finish, Mishap, Expires, Waiting, AskLost
    <3>. QED
      BY <3>1, <3>2, <3>3
  <2>. QED
    BY <2>1, <2>2, <2>3, <2>4, <2>5 DEF Service
<1>4. CASE AwaitStopped(c)
  <2>1. Types'
    <3>1. ClientTypes'
      <4>1. CASE Finish(c, "stopped")
        BY <4>1, FinishTypes DEF Service, Types, Verdicts
      <4>2. CASE /\ renew' = renew \cup {c} /\ basis' = [basis EXCEPT ![c] = Nil]
                 /\ Goto(c, "probe") /\ UNCHANGED <<cmd, prev, want, own>>
        BY <1>4, <4>2, GotoTypes DEF Service, Types, ClientTypes, Phases, AwaitStopped
      <4>3. CASE /\ basis' = [basis EXCEPT ![c] = Nil]
                 /\ Goto(c, "launch") /\ UNCHANGED <<cmd, renew, prev, want, own>>
        BY <1>4, <4>3, GotoTypes DEF Service, Types, ClientTypes, Phases, AwaitStopped
      <4>. QED
        BY <1>4, <4>1, <4>2, <4>3 DEF AwaitStopped
    <3>2. DaemonTypes'
      BY <1>4 DEF Service, Types, DaemonTypes, AwaitStopped
    <3>3. PathTypes'
      BY <1>4 DEF Service, Types, PathTypes, AwaitStopped
    <3>4. LuckTypes'
      BY <1>4 DEF Service, Types, LuckTypes, AwaitStopped
    <3>. QED
      BY <3>1, <3>2, <3>3, <3>4 DEF Types
  <2>2. Holding'
    BY <1>4 DEF Service, Holding, Types, ClientTypes, Finish, Gone, AwaitStopped
  <2>3. Asking'
    BY <1>4, <2>1, <2>2, RequestFacts, ConfigFacts
       DEF Service, Types, ClientTypes, DaemonTypes, Holding, Asking, Finish, Overlap,
           Mishap, Expires, Die, Signal, Gone, AwaitStopped
  <2>4. Clientele'
    BY <1>4
       DEF Service, Clientele, Types, ClientTypes, DaemonTypes, PathTypes, Finish,
           Mishap, Expires, Gone, AwaitStopped
  <2>5. ASSUME NEW x \in Daemons PROVE (Unused(x) /\ Supervised(x) /\ Files(x))'
    <3>1. Unused(x)'
      BY <1>4 DEF Service, Unused, AwaitStopped
    <3>2. Supervised(x)'
      BY <1>4
         DEF Service, Supervised, Types, ClientTypes, DaemonTypes, PathTypes, Overlap,
             Finish, Mishap, Expires, Gone, AwaitStopped
    <3>3. Files(x)'
      BY <1>4
         DEF Service, Files, Types, ClientTypes, DaemonTypes, PathTypes, Orderly, Neat,
             Finish, Mishap, Expires, Gone, AwaitStopped
    <3>. QED
      BY <3>1, <3>2, <3>3
  <2>. QED
    BY <2>1, <2>2, <2>3, <2>4, <2>5 DEF Service
<1>5. CASE AwaitTimeout(c)
  <2>1. Types'
    <3>1. ClientTypes'
      BY <1>5, FinishTypes, ConfigFacts, OrderFacts, RequestFacts
         DEF Service, Types, ClientTypes, DaemonTypes, PathTypes, Asking, Phases,
             Verdicts, Gone, AwaitTimeout
    <3>2. DaemonTypes'
      BY <1>5 DEF Service, Types, DaemonTypes, AwaitTimeout
    <3>3. PathTypes'
      BY <1>5 DEF Service, Types, PathTypes, AwaitTimeout
    <3>4. LuckTypes'
      BY <1>5, MishapTypes DEF Service, Types, LuckTypes, Gone, AwaitTimeout
    <3>. QED
      BY <3>1, <3>2, <3>3, <3>4 DEF Types
  <2>2. Holding'
    BY <1>5 DEF Service, Holding, Types, ClientTypes, Finish, Gone, AwaitTimeout
  <2>3. Asking'
    BY <1>5
       DEF Service, Asking, Types, ClientTypes, DaemonTypes, Overlap, Finish, Mishap,
           Expires, Gone, AwaitTimeout
  <2>4. Clientele'
    BY <1>5
       DEF Service, Clientele, Types, ClientTypes, DaemonTypes, PathTypes, Finish,
           Mishap, Expires, Gone, AwaitTimeout
  <2>5. ASSUME NEW x \in Daemons PROVE (Unused(x) /\ Supervised(x) /\ Files(x))'
    <3>1. Unused(x)'
      BY <1>5 DEF Service, Unused, AwaitTimeout
    <3>2. Supervised(x)'
      <4>1. lock = c /\ cpc[c] \notin {"poll", "term"}
        BY <1>5 DEF Service, Holding, AwaitTimeout
      <4>2. harm' = harm \cup {"slowstop"} /\ UNCHANGED dpc
        BY <1>5 DEF AwaitTimeout, Expires, Mishap
      <4>3. dpc[x] \in Starting => "kill" \in harm
        BY <4>1 DEF Service, Supervised
      <4>. QED
        BY <4>2, <4>3 DEF Supervised, Overlap
    <3>3. Files(x)'
      BY <1>5
         DEF Service, Files, Types, ClientTypes, DaemonTypes, PathTypes, Orderly, Neat,
             Finish, Mishap, Expires, Gone, AwaitTimeout
    <3>. QED
      BY <3>1, <3>2, <3>3
  <2>. QED
    BY <2>1, <2>2, <2>3, <2>4, <2>5 DEF Service
<1>6. CASE ProbeStart(c)
  <2>1. Types'
    <3>1. ClientTypes'
      <4>1. CASE Finish(c, "failed") \/ Finish(c, "done")
        BY <4>1, FinishTypes DEF Service, Types, Verdicts
      <4>2. CASE Goto(c, "launch") /\ UNCHANGED callVars
        BY <1>6, <4>2, GotoTypes DEF Service, Types, ClientTypes, Phases, ProbeStart
      <4>3. CASE /\ basis' = [basis EXCEPT ![c] = rpc]
                 /\ Goto(c, "ask") /\ UNCHANGED <<cmd, renew, prev, want, own>>
        BY <1>6, <4>3, GotoTypes DEF Service, Types, ClientTypes, PathTypes, Phases, ProbeStart
      <4>. QED
        BY <1>6, <4>1, <4>2, <4>3 DEF ProbeStart
    <3>2. DaemonTypes'
      BY <1>6 DEF Service, Types, DaemonTypes, ProbeStart
    <3>3. PathTypes'
      BY <1>6 DEF Service, Types, PathTypes, ProbeStart
    <3>4. LuckTypes'
      BY <1>6 DEF Service, Types, LuckTypes, ProbeStart
    <3>. QED
      BY <3>1, <3>2, <3>3, <3>4 DEF Types
  <2>2. Holding'
    BY <1>6 DEF Service, Holding, Types, ClientTypes, Finish, ProbeStart
  <2>3. Asking'
    BY <1>6, <2>1, <2>2, RequestFacts, ConfigFacts
       DEF Service, Types, ClientTypes, DaemonTypes, Holding, Asking, Finish, Overlap,
           Mishap, Expires, Die, Signal, ProbeStart
  <2>4. Clientele'
    BY <1>6
       DEF Service, Clientele, Types, ClientTypes, DaemonTypes, PathTypes, Finish,
           Mishap, Expires, ProbeStart
  <2>5. ASSUME NEW x \in Daemons PROVE (Unused(x) /\ Supervised(x) /\ Files(x))'
    <3>1. Unused(x)'
      BY <1>6 DEF Service, Unused, ProbeStart
    <3>2. Supervised(x)'
      BY <1>6
         DEF Service, Supervised, Types, ClientTypes, DaemonTypes, PathTypes, Holding,
             Asking, Clientele, Unused, Finish, Starting, Die, Signal, Torn, Mishap,
             Expires, Overlap, Answering, Ready, Degraded, Stopped, ProbeStart
    <3>3. Files(x)'
      BY <1>6
         DEF Service, Files, Types, ClientTypes, DaemonTypes, PathTypes, Orderly, Neat,
             Finish, Mishap, Expires, ProbeStart
    <3>. QED
      BY <3>1, <3>2, <3>3
  <2>. QED
    BY <2>1, <2>2, <2>3, <2>4, <2>5 DEF Service
<1>7. CASE LaunchFails(c)
  <2>0. PICK v \in Verdicts : Finish(c, v)
    BY <1>7 DEF LaunchFails, LaunchFault, Verdicts
  <2>1. Types'
    <3>1. ClientTypes'
      BY <2>0, FinishTypes DEF Service, Types
    <3>2. DaemonTypes'
      BY <1>7, <2>0 DEF Service, Types, DaemonTypes, LaunchFails
    <3>3. PathTypes'
      BY <1>7, <2>0 DEF Service, Types, PathTypes, LaunchFails
    <3>4. LuckTypes'
      BY <1>7, <2>0 DEF Service, Types, LuckTypes, LaunchFails
    <3>. QED
      BY <3>1, <3>2, <3>3, <3>4 DEF Types
  <2>2. Holding'
    BY <1>7, <2>0 DEF Service, Holding, Types, ClientTypes, Finish, LaunchFails
  <2>3. Asking'
    BY <1>7, <2>0
       DEF Service, Asking, Types, ClientTypes, DaemonTypes, Overlap, Finish, Mishap,
           Expires, LaunchFails
  <2>4. Clientele'
    BY <1>7, <2>0
       DEF Service, Clientele, Types, ClientTypes, DaemonTypes, PathTypes, Finish,
           Mishap, Expires, LaunchFails
  <2>5. ASSUME NEW x \in Daemons PROVE (Unused(x) /\ Supervised(x) /\ Files(x))'
    <3>1. Unused(x)'
      BY <1>7, <2>0 DEF Service, Unused, LaunchFails
    <3>2. Supervised(x)'
      BY <1>7, <2>0
         DEF Service, Supervised, Types, ClientTypes, DaemonTypes, PathTypes, Overlap,
             Finish, Mishap, Expires, LaunchFails
    <3>3. Files(x)'
      BY <1>7, <2>0
         DEF Service, Files, Types, ClientTypes, DaemonTypes, PathTypes, Orderly, Neat,
             Finish, Mishap, Expires, LaunchFails
    <3>. QED
      BY <3>1, <3>2, <3>3
  <2>. QED
    BY <2>1, <2>2, <2>3, <2>4, <2>5 DEF Service
<1>8. CASE PollReady(c)
  <2>1. Types'
    <3>1. ClientTypes'
      <4>1. CASE Terminate(c, "failed")
        BY <1>8, <4>1 DEF Service, Types, ClientTypes, Phases, Verdicts, PollReady, Terminate
      <4>2. CASE Goto(c, "final") /\ UNCHANGED callVars
        BY <1>8, <4>2, GotoTypes DEF Service, Types, ClientTypes, Phases, PollReady
      <4>3. CASE Finish(c, "done")
        BY <4>3, FinishTypes DEF Service, Types, Verdicts
      <4>. QED
        BY <1>8, <4>1, <4>2, <4>3 DEF PollReady
    <3>2. DaemonTypes'
      BY <1>8, DieTypes, SignalTypes, TornTypes, StepTypes, ConfigFacts, RequestFacts
         DEF Service, Types, ClientTypes, DaemonTypes, PathTypes, Stages, Starting,
             Closing, Terminate, Overtaken, PollReady
    <3>3. PathTypes'
      BY <1>8, DieTypes, SignalTypes, TornTypes, ConfigFacts
         DEF Service, Types, ClientTypes, DaemonTypes, PathTypes, Terminate, Overtaken,
             PollReady
    <3>4. LuckTypes'
      BY <1>8 DEF Service, Types, LuckTypes, PollReady
    <3>. QED
      BY <3>1, <3>2, <3>3, <3>4 DEF Types
  <2>2. Holding'
    BY <1>8
       DEF Service, Holding, Types, ClientTypes, Finish, Terminate, Signal, Die,
           Overtaken, PollReady
  <2>3. Asking'
    <3>1. \A e \in Daemons : inbox'[e] \subseteq inbox[e]
      BY <1>8 DEF Service, Types, ClientTypes, DaemonTypes, PollReady, Terminate, Signal, Die, Finish
    <3>2. \A b \in Clients : cpc[b] = "asked" => cpc'[b] = "asked"
      BY <1>8 DEF Service, Types, ClientTypes, PollReady, Terminate, Signal, Die, Finish
    <3>3. harm \subseteq harm'
      BY <1>8 DEF PollReady, Terminate, Signal, Die, Finish
    <3>. QED
      BY <3>1, <3>2, <3>3, AskingLess DEF Service
  <2>4. Clientele'
    BY <1>8
       DEF Service, Clientele, Types, ClientTypes, DaemonTypes, PathTypes, Holding,
           Unused, Finish, Starting, Mishap, Expires, Die, Signal, Terminate, Overtaken,
           PollReady
  <2>5. ASSUME NEW x \in Daemons PROVE (Unused(x) /\ Supervised(x) /\ Files(x))'
    <3>1. Unused(x)'
      BY <1>8
         DEF Service, Unused, Types, DaemonTypes, PathTypes, Torn, Starting, Closing,
             Dead, Die, Signal, Terminate, Overtaken, PollReady
    <3>2. Supervised(x)'
      BY <1>8
         DEF Service, Supervised, Types, ClientTypes, DaemonTypes, PathTypes, Holding,
             Asking, Clientele, Unused, Finish, Starting, Torn, Mishap, Expires,
             Overlap, Answering, Ready, Degraded, Stopped, Die, Signal, Terminate,
             Overtaken, PollReady
    <3>3. Files(x)'
      BY <1>8
         DEF Service, Files, Types, ClientTypes, DaemonTypes, PathTypes, Holding,
             Asking, Clientele, Unused, Orderly, Neat, Finish, Starting, Closing, Torn,
             Mishap, Expires, Answering, Ready, Degraded, Stopped, Die, Signal,
             Terminate, Overtaken, PollReady
    <3>. QED
      BY <3>1, <3>2, <3>3
  <2>. QED
    BY <2>1, <2>2, <2>3, <2>4, <2>5 DEF Service
<1>9. CASE PollDegraded(c)
  <2>1. Types'
    <3>1. ClientTypes'
      BY <1>9 DEF Service, Types, ClientTypes, Phases, Verdicts, PollDegraded, Terminate
    <3>2. DaemonTypes'
      BY <1>9, DieTypes, SignalTypes, TornTypes, StepTypes, ConfigFacts, RequestFacts
         DEF Service, Types, ClientTypes, DaemonTypes, PathTypes, Stages, Starting,
             Closing, Terminate, PollDegraded
    <3>3. PathTypes'
      BY <1>9, DieTypes, SignalTypes, TornTypes, ConfigFacts
         DEF Service, Types, ClientTypes, DaemonTypes, PathTypes, Terminate,
             PollDegraded
    <3>4. LuckTypes'
      BY <1>9 DEF Service, Types, LuckTypes, PollDegraded
    <3>. QED
      BY <3>1, <3>2, <3>3, <3>4 DEF Types
  <2>2. Holding'
    BY <1>9 DEF Service, Holding, Terminate, Signal, Die, PollDegraded
  <2>3. Asking'
    <3>1. \A e \in Daemons : inbox'[e] \subseteq inbox[e]
      BY <1>9 DEF Service, Types, ClientTypes, DaemonTypes, PollDegraded, Terminate, Signal, Die
    <3>2. \A b \in Clients : cpc[b] = "asked" => cpc'[b] = "asked"
      BY <1>9 DEF Service, Types, ClientTypes, PollDegraded, Terminate, Signal, Die
    <3>3. harm \subseteq harm'
      BY <1>9 DEF PollDegraded, Terminate, Signal, Die
    <3>. QED
      BY <3>1, <3>2, <3>3, AskingLess DEF Service
  <2>4. Clientele'
    BY <1>9
       DEF Service, Clientele, Types, ClientTypes, DaemonTypes, PathTypes, Holding,
           Unused, Finish, Starting, Mishap, Expires, Die, Signal, Terminate,
           PollDegraded
  <2>5. ASSUME NEW x \in Daemons PROVE (Unused(x) /\ Supervised(x) /\ Files(x))'
    <3>1. Unused(x)'
      BY <1>9
         DEF Service, Unused, Types, DaemonTypes, PathTypes, Torn, Starting, Closing,
             Dead, Die, Signal, Terminate, PollDegraded
    <3>2. Supervised(x)'
      BY <1>9
         DEF Service, Supervised, Types, ClientTypes, DaemonTypes, PathTypes, Holding,
             Asking, Clientele, Unused, Finish, Starting, Torn, Mishap, Expires,
             Overlap, Answering, Ready, Degraded, Stopped, Die, Signal, Terminate,
             PollDegraded
    <3>3. Files(x)'
      BY <1>9
         DEF Service, Files, Types, ClientTypes, DaemonTypes, PathTypes, Holding,
             Asking, Clientele, Unused, Orderly, Neat, Finish, Starting, Closing, Torn,
             Mishap, Expires, Answering, Ready, Degraded, Stopped, Die, Signal,
             Terminate, PollDegraded
    <3>. QED
      BY <3>1, <3>2, <3>3
  <2>. QED
    BY <2>1, <2>2, <2>3, <2>4, <2>5 DEF Service
<1>10. CASE PollExited(c)
  <2>0. (\E v \in Verdicts : Finish(c, v)) /\ receipts' \subseteq Daemons
    BY <1>10, EndedFinishes DEF Service, PollExited, Verdicts
  <2>1. Types'
    <3>1. ClientTypes'
      BY <2>0, FinishTypes DEF Service, Types
    <3>2. DaemonTypes'
      BY <1>10, <2>0 DEF Service, Types, DaemonTypes, PollExited
    <3>3. PathTypes'
      BY <1>10, <2>0 DEF Service, Types, PathTypes, PollExited
    <3>4. LuckTypes'
      BY <1>10, <2>0 DEF Service, Types, LuckTypes, PollExited
    <3>. QED
      BY <3>1, <3>2, <3>3, <3>4 DEF Types
  <2>2. Holding'
    BY <1>10, <2>0 DEF Service, Holding, Types, ClientTypes, Finish, PollExited
  <2>3. Asking'
    BY <1>10, <2>0
       DEF Service, Asking, Types, ClientTypes, DaemonTypes, Overlap, Finish, Mishap,
           Expires, PollExited
  <2>4. Clientele'
    BY <1>10, <2>0
       DEF Service, Clientele, Types, ClientTypes, DaemonTypes, PathTypes, Finish,
           Mishap, Expires, PollExited
  <2>5. ASSUME NEW x \in Daemons PROVE (Unused(x) /\ Supervised(x) /\ Files(x))'
    <3>1. Unused(x)'
      BY <1>10, <2>0 DEF Service, Unused, PollExited
    <3>2. Supervised(x)'
      BY <1>10, <2>0
         DEF Service, Supervised, Types, ClientTypes, DaemonTypes, PathTypes, Holding,
             Asking, Clientele, Unused, Finish, Starting, Die, Signal, Torn, Mishap,
             Expires, Overlap, Answering, Ready, Degraded, Stopped, PollExited
    <3>3. Files(x)'
      BY <1>10, <2>0
         DEF Service, Files, Types, ClientTypes, DaemonTypes, PathTypes, Orderly, Neat,
             Finish, Mishap, Expires, PollExited
    <3>. QED
      BY <3>1, <3>2, <3>3
  <2>. QED
    BY <2>1, <2>2, <2>3, <2>4, <2>5 DEF Service
<1>11. CASE PollTimeout(c)
  <2>1. Types'
    <3>1. ClientTypes'
      BY <1>11 DEF Service, Types, ClientTypes, Phases, Verdicts, PollTimeout, Terminate
    <3>2. DaemonTypes'
      BY <1>11, DieTypes, SignalTypes, TornTypes, StepTypes, ConfigFacts, RequestFacts
         DEF Service, Types, ClientTypes, DaemonTypes, PathTypes, Stages, Starting,
             Closing, Terminate, PollTimeout
    <3>3. PathTypes'
      BY <1>11, DieTypes, SignalTypes, TornTypes, ConfigFacts
         DEF Service, Types, ClientTypes, DaemonTypes, PathTypes, Terminate, PollTimeout
    <3>4. LuckTypes'
      BY <1>11, MishapTypes DEF Service, Types, LuckTypes, Terminate, PollTimeout
    <3>. QED
      BY <3>1, <3>2, <3>3, <3>4 DEF Types
  <2>2. Holding'
    BY <1>11 DEF Service, Holding, Terminate, Signal, Die, PollTimeout
  <2>3. Asking'
    <3>1. \A e \in Daemons : inbox'[e] \subseteq inbox[e]
      BY <1>11 DEF Service, Types, ClientTypes, DaemonTypes, PollTimeout, Terminate, Signal, Die, Mishap
    <3>2. \A b \in Clients : cpc[b] = "asked" => cpc'[b] = "asked"
      BY <1>11 DEF Service, Types, ClientTypes, PollTimeout, Terminate, Signal, Die, Mishap
    <3>3. harm \subseteq harm'
      BY <1>11 DEF PollTimeout, Terminate, Signal, Die, Mishap
    <3>. QED
      BY <3>1, <3>2, <3>3, AskingLess DEF Service
  <2>4. Clientele'
    BY <1>11
       DEF Service, Clientele, Types, ClientTypes, DaemonTypes, PathTypes, Holding,
           Unused, Finish, Starting, Mishap, Expires, Die, Signal, Terminate,
           PollTimeout
  <2>5. ASSUME NEW x \in Daemons PROVE (Unused(x) /\ Supervised(x) /\ Files(x))'
    <3>1. Unused(x)'
      BY <1>11
         DEF Service, Unused, Types, DaemonTypes, PathTypes, Torn, Starting, Closing,
             Dead, Die, Signal, Terminate, PollTimeout
    <3>2. Supervised(x)'
      BY <1>11
         DEF Service, Supervised, Types, ClientTypes, DaemonTypes, PathTypes, Holding,
             Asking, Clientele, Unused, Finish, Starting, Torn, Mishap, Expires,
             Overlap, Answering, Ready, Degraded, Stopped, Die, Signal, Terminate,
             PollTimeout
    <3>3. Files(x)'
      <4>1. lock = c /\ own[c] \in Daemons
        BY <1>11 DEF Service, Types, ClientTypes, Holding, PollTimeout
      <4>2. CASE dpc[own[c]] = "serving"
        <5>1. /\ dpc' = [dpc EXCEPT ![own[c]] = "stopping"] /\ cpc' = [cpc EXCEPT ![c] = "term"]
              /\ UNCHANGED <<sockid, halted, kid, priv, lock, own, harm>>
          BY <1>11, <4>2 DEF PollTimeout, Terminate, Signal
        <5>. QED
          BY <4>1, <4>2, <5>1
             DEF Service, Types, ClientTypes, DaemonTypes, Files, Orderly, Neat, Starting, Closing
      <4>3. CASE dpc[own[c]] # "serving"
        BY <1>11, <4>3 DEF PollTimeout, Mishap, Files, Orderly, Neat
      <4>. QED
        BY <4>2, <4>3
    <3>. QED
      BY <3>1, <3>2, <3>3
  <2>. QED
    BY <2>1, <2>2, <2>3, <2>4, <2>5 DEF Service
<1>12. CASE TermWait(c)
  <2>0. (\E v \in Verdicts : Finish(c, v)) /\ receipts' \subseteq Daemons
    <3>1. CASE Ended(c, "timeout")
      BY <3>1, EndedFinishes DEF Service, Verdicts
    <3>2. CASE Finish(c, out[c]) /\ UNCHANGED receipts
      BY <3>2 DEF Service, Types, ClientTypes, PathTypes
    <3>. QED
      BY <1>12, <3>1, <3>2 DEF TermWait
  <2>1. Types'
    <3>1. ClientTypes'
      BY <2>0, FinishTypes DEF Service, Types
    <3>2. DaemonTypes'
      BY <1>12, <2>0 DEF Service, Types, DaemonTypes, TermWait
    <3>3. PathTypes'
      BY <1>12, <2>0 DEF Service, Types, PathTypes, TermWait
    <3>4. LuckTypes'
      BY <1>12, <2>0 DEF Service, Types, LuckTypes, TermWait
    <3>. QED
      BY <3>1, <3>2, <3>3, <3>4 DEF Types
  <2>2. Holding'
    BY <1>12, <2>0 DEF Service, Holding, Types, ClientTypes, Finish, TermWait
  <2>3. Asking'
    BY <1>12, <2>0
       DEF Service, Asking, Types, ClientTypes, DaemonTypes, Overlap, Finish, Mishap,
           Expires, TermWait
  <2>4. Clientele'
    BY <1>12, <2>0
       DEF Service, Clientele, Types, ClientTypes, DaemonTypes, PathTypes, Finish,
           Mishap, Expires, TermWait
  <2>5. ASSUME NEW x \in Daemons PROVE (Unused(x) /\ Supervised(x) /\ Files(x))'
    <3>1. Unused(x)'
      BY <1>12, <2>0 DEF Service, Unused, TermWait
    <3>2. Supervised(x)'
      BY <1>12, <2>0
         DEF Service, Supervised, Types, ClientTypes, DaemonTypes, PathTypes, Holding,
             Asking, Clientele, Unused, Finish, Starting, Die, Signal, Torn, Mishap,
             Expires, Overlap, Answering, Ready, Degraded, Stopped, TermWait
    <3>3. Files(x)'
      BY <1>12, <2>0
         DEF Service, Files, Types, ClientTypes, DaemonTypes, PathTypes, Orderly, Neat,
             Finish, Mishap, Expires, TermWait
    <3>. QED
      BY <3>1, <3>2, <3>3
  <2>. QED
    BY <2>1, <2>2, <2>3, <2>4, <2>5 DEF Service
<1>13. CASE Final(c)
  <2>1. Types'
    <3>1. ClientTypes'
      BY <1>13, FinishTypes, ConfigFacts, OrderFacts, RequestFacts
         DEF Service, Types, ClientTypes, DaemonTypes, PathTypes, Asking, Phases,
             Verdicts, Final
    <3>2. DaemonTypes'
      BY <1>13 DEF Service, Types, DaemonTypes, Final
    <3>3. PathTypes'
      BY <1>13 DEF Service, Types, PathTypes, Final
    <3>4. LuckTypes'
      BY <1>13 DEF Service, Types, LuckTypes, Final
    <3>. QED
      BY <3>1, <3>2, <3>3, <3>4 DEF Types
  <2>2. Holding'
    BY <1>13 DEF Service, Holding, Types, ClientTypes, Finish, Final
  <2>3. Asking'
    BY <1>13
       DEF Service, Asking, Types, ClientTypes, DaemonTypes, Overlap, Finish, Mishap,
           Expires, Final
  <2>4. Clientele'
    BY <1>13
       DEF Service, Clientele, Types, ClientTypes, DaemonTypes, PathTypes, Finish,
           Mishap, Expires, Final
  <2>5. ASSUME NEW x \in Daemons PROVE (Unused(x) /\ Supervised(x) /\ Files(x))'
    <3>1. Unused(x)'
      BY <1>13 DEF Service, Unused, Final
    <3>2. Supervised(x)'
      BY <1>13
         DEF Service, Supervised, Types, ClientTypes, DaemonTypes, PathTypes, Overlap,
             Finish, Mishap, Expires, Final
    <3>3. Files(x)'
      BY <1>13
         DEF Service, Files, Types, ClientTypes, DaemonTypes, PathTypes, Orderly, Neat,
             Finish, Mishap, Expires, Final
    <3>. QED
      BY <3>1, <3>2, <3>3
  <2>. QED
    BY <2>1, <2>2, <2>3, <2>4, <2>5 DEF Service
<1>. QED
  BY <1>1, <1>2, <1>3, <1>4, <1>5, <1>6, <1>7, <1>8, <1>9, <1>10, <1>11, <1>12, <1>13

\* A daemon is spawned.
LEMMA LaunchKeeps ==
  ASSUME Service, NEW c \in Clients, NEW d \in Daemons,
         Launch(c,d)
  PROVE  Service'
<1>1. CASE Launch(c,d)
  <2>0. d \in Daemons /\ Free(d) /\ Chosen(c, d) \in Configs /\ Chosen(c, d) # Nil
    BY <1>1, FreeDaemon, ChosenConfig DEF Service, Launch
  <2>1. Types'
    <3>1. ClientTypes'
      <4>1. /\ own' = [own EXCEPT ![c] = d] /\ want' \in [Clients -> Configs \cup {Nil}]
            /\ prev' \in [Clients -> Configs \cup {Nil}]
        BY <1>1, <2>0 DEF Service, Types, ClientTypes, PathTypes, Launch
      <4>. QED
        BY <1>1, <2>0, <4>1 DEF Service, Types, ClientTypes, Phases, Launch
    <3>2. DaemonTypes'
      BY <1>1, <2>0
         DEF Service, Types, DaemonTypes, ClientTypes, PathTypes, Stages, Starting,
             Closing, Free, Dead, Referenced, Launch
    <3>3. PathTypes'
      BY <1>1, <2>0 DEF Service, Types, PathTypes, Launch
    <3>4. LuckTypes'
      BY <1>1, <2>0 DEF Service, Types, LuckTypes, Launch
    <3>. QED
      BY <3>1, <3>2, <3>3, <3>4 DEF Types
  <2>2. Holding'
    BY <1>1, <2>0 DEF Service, Holding, Launch
  <2>3. Asking'
    BY <1>1, <2>0 DEF Service, Asking, Overlap, Mishap, Free, Dead, Referenced, Launch
  <2>4. Clientele'
    <3>. SUFFICES ASSUME NEW b \in Clients
                  PROVE  /\ own'[b] # Nil =>
                              /\ want'[b] # Nil
                              /\ dpc'[own'[b]] # "gone" => dcfg'[own'[b]] = want'[b]
                         /\ cpc'[b] = "poll" /\ "kill" \notin harm' =>
                              pub'[want'[b].listener] \in {own'[b], Outside, Nil}
      BY DEF Clientele
    <3>1. CASE b = c
      <4>1. Chosen(c, d).listener = Target(c) /\ pub[Target(c)] = Nil
        BY <1>1 DEF Launch, LaunchFault, Chosen, Reuses, Target
      <4>. QED
        BY <1>1, <2>0, <3>1, <4>1 DEF Service, Types, ClientTypes, DaemonTypes, Launch
    <3>2. CASE b # c
      <4>1. own[b] # d
        <5>1. own[b] \in UNION {{basis[a], own[a]} : a \in Clients}
          OBVIOUS
        <5>. QED
          BY <2>0, <5>1 DEF Free, Referenced
      <4>. QED
        BY <1>1, <2>0, <3>2, <4>1 DEF Service, Types, ClientTypes, DaemonTypes, Clientele, Launch
    <3>. QED
      BY <3>1, <3>2
  <2>5. ASSUME NEW x \in Daemons PROVE (Unused(x) /\ Supervised(x) /\ Files(x))'
    <3>1. Unused(x)'
      BY <1>1, <2>0 DEF Service, Unused, Dead, Free, Referenced, Launch
    <3>2. Supervised(x)'
      BY <1>1, <2>0
         DEF Service, Supervised, Types, ClientTypes, DaemonTypes, PathTypes, Holding,
             Asking, Clientele, Unused, Finish, Starting, Die, Signal, Torn, Mishap,
             Expires, Overlap, Answering, Ready, Degraded, Stopped, Free, Dead,
             Referenced, Launch
    <3>3. Files(x)'
      BY <1>1, <2>0
         DEF Service, Files, Orderly, Neat, Mishap, Free, Dead, Referenced, Launch
    <3>. QED
      BY <3>1, <3>2, <3>3
  <2>. QED
    BY <2>1, <2>2, <2>3, <2>4, <2>5 DEF Service
<1>. QED
  BY <1>1

\* A daemon, from its start to the loss of its path.
LEMMA RunsKeeps ==
  ASSUME Service, NEW d \in Daemons,
         Boot(d) \/ Prepare(d) \/ ChildListens(d) \/ WaitSocket(d) \/ WaitFails(d) \/
           Commit(d) \/ Open(d) \/ Serve(d) \/ CloseRpc(d) \/ CheckPath(d) \/
           UnlinkPath(d)
  PROVE  Service'
<1>1. CASE Boot(d)
  <2>1. Types'
    <3>1. ClientTypes'
      BY <1>1 DEF Service, Types, ClientTypes, Boot
    <3>2. DaemonTypes'
      BY <1>1, DieTypes, SignalTypes, TornTypes, StepTypes, ConfigFacts, RequestFacts
         DEF Service, Types, ClientTypes, DaemonTypes, PathTypes, Stages, Starting,
             Closing, Boot
    <3>3. PathTypes'
      BY <1>1, DieTypes, SignalTypes, TornTypes, ConfigFacts
         DEF Service, Types, ClientTypes, DaemonTypes, PathTypes, Boot
    <3>4. LuckTypes'
      BY <1>1 DEF Service, Types, LuckTypes, Boot
    <3>. QED
      BY <3>1, <3>2, <3>3, <3>4 DEF Types
  <2>2. Holding'
    BY <1>1 DEF Service, Holding, Boot
  <2>3. Asking'
    <3>1. \A e \in Daemons : inbox'[e] \subseteq inbox[e]
      BY <1>1 DEF Service, Types, ClientTypes, DaemonTypes, Boot, Die, Step
    <3>2. \A b \in Clients : cpc[b] = "asked" => cpc'[b] = "asked"
      BY <1>1 DEF Service, Types, ClientTypes, Boot, Die, Step
    <3>3. harm \subseteq harm'
      BY <1>1 DEF Boot, Die, Step
    <3>. QED
      BY <3>1, <3>2, <3>3, AskingLess DEF Service
  <2>4. Clientele'
    BY <1>1, <2>1, <2>2, RequestFacts, ConfigFacts
       DEF Service, Types, ClientTypes, DaemonTypes, PathTypes, Holding, Clientele,
           Supervised, Unused, Finish, Starting, Die, Signal, Mishap, Expires, Step,
           Boot
  <2>5. ASSUME NEW x \in Daemons PROVE (Unused(x) /\ Supervised(x) /\ Files(x))'
    <3>1. Unused(x)'
      BY <1>1
         DEF Service, Unused, Types, DaemonTypes, PathTypes, Signal, Torn, Starting,
             Closing, Dead, Die, Step, Boot
    <3>2. Supervised(x)'
      BY <1>1
         DEF Service, Supervised, Types, ClientTypes, DaemonTypes, PathTypes, Holding,
             Asking, Clientele, Unused, Finish, Starting, Signal, Torn, Mishap, Expires,
             Overlap, Answering, Ready, Degraded, Stopped, Die, Step, Boot
    <3>3. Files(x)'
      BY <1>1
         DEF Service, Files, Types, ClientTypes, DaemonTypes, PathTypes, Holding,
             Asking, Clientele, Unused, Orderly, Neat, Finish, Starting, Closing,
             Signal, Torn, Mishap, Expires, Answering, Ready, Degraded, Stopped, Die,
             Step, Boot
    <3>. QED
      BY <3>1, <3>2, <3>3
  <2>. QED
    BY <2>1, <2>2, <2>3, <2>4, <2>5 DEF Service
<1>2. CASE Prepare(d)
  <2>1. Types'
    <3>1. ClientTypes'
      BY <1>2 DEF Service, Types, ClientTypes, Prepare
    <3>2. DaemonTypes'
      <4>1. CASE Die(d) /\ UNCHANGED kid
        BY <4>1, DieTypes DEF Service, Types, DaemonTypes
      <4>2. CASE Step(d, "prepare", "wait") /\ kid' = [kid EXCEPT ![d] = "starting"]
        BY <4>2, StepTypes DEF Service, Types, DaemonTypes, Stages, Starting
      <4>. QED
        BY <1>2, <4>1, <4>2 DEF Prepare
    <3>3. PathTypes'
      <4>1. dcfg[d] # Nil => dcfg[d].gen \in Daemons
        BY ConfigFacts DEF Service, Types, DaemonTypes
      <4>2. receipts' \subseteq Daemons /\ UNCHANGED <<config, rpc, priv>>
        BY <1>2, <4>1 DEF Service, Types, DaemonTypes, PathTypes, Prepare
      <4>3. pub' \in [Listeners -> Daemons \cup {Outside, Nil}]
        BY <1>2 DEF Service, Types, PathTypes, Prepare, Die
      <4>. QED
        BY <4>2, <4>3 DEF Service, Types, PathTypes
    <3>4. LuckTypes'
      BY <1>2 DEF Service, Types, LuckTypes, Prepare
    <3>. QED
      BY <3>1, <3>2, <3>3, <3>4 DEF Types
  <2>2. Holding'
    BY <1>2 DEF Service, Holding, Prepare
  <2>3. Asking'
    <3>1. \A e \in Daemons : inbox'[e] \subseteq inbox[e]
      BY <1>2 DEF Service, Types, ClientTypes, DaemonTypes, Prepare, Die, Step
    <3>2. \A b \in Clients : cpc[b] = "asked" => cpc'[b] = "asked"
      BY <1>2 DEF Service, Types, ClientTypes, Prepare, Die, Step
    <3>3. harm \subseteq harm'
      BY <1>2 DEF Prepare, Die, Step
    <3>. QED
      BY <3>1, <3>2, <3>3, AskingLess DEF Service
  <2>4. Clientele'
    BY <1>2, <2>1, <2>2, RequestFacts, ConfigFacts
       DEF Service, Types, ClientTypes, DaemonTypes, PathTypes, Holding, Clientele,
           Supervised, Unused, Finish, Starting, Die, Signal, Mishap, Expires, Step,
           Prepare
  <2>5. ASSUME NEW x \in Daemons PROVE (Unused(x) /\ Supervised(x) /\ Files(x))'
    <3>1. Unused(x)'
      BY <1>2
         DEF Service, Unused, Types, DaemonTypes, PathTypes, Signal, Torn, Starting,
             Closing, Dead, Die, Step, Prepare
    <3>2. Supervised(x)'
      BY <1>2
         DEF Service, Supervised, Types, ClientTypes, DaemonTypes, PathTypes, Holding,
             Asking, Clientele, Unused, Finish, Starting, Signal, Torn, Mishap, Expires,
             Overlap, Answering, Ready, Degraded, Stopped, Die, Step, Prepare
    <3>3. Files(x)'
      BY <1>2
         DEF Service, Files, Types, ClientTypes, DaemonTypes, PathTypes, Holding,
             Asking, Clientele, Unused, Orderly, Neat, Finish, Starting, Closing,
             Signal, Torn, Mishap, Expires, Answering, Ready, Degraded, Stopped, Die,
             Step, Prepare
    <3>. QED
      BY <3>1, <3>2, <3>3
  <2>. QED
    BY <2>1, <2>2, <2>3, <2>4, <2>5 DEF Service
<1>3. CASE ChildListens(d)
  <2>1. Types'
    <3>1. ClientTypes'
      BY <1>3 DEF Service, Types, ClientTypes, ChildListens
    <3>2. DaemonTypes'
      BY <1>3 DEF Service, Types, DaemonTypes, ChildListens
    <3>3. PathTypes'
      BY <1>3 DEF Service, Types, PathTypes, ChildListens
    <3>4. LuckTypes'
      BY <1>3 DEF Service, Types, LuckTypes, ChildListens
    <3>. QED
      BY <3>1, <3>2, <3>3, <3>4 DEF Types
  <2>2. Holding'
    BY <1>3 DEF Service, Holding, ChildListens
  <2>3. Asking'
    BY <1>3 DEF Service, Asking, Overlap, Mishap, ChildListens
  <2>4. Clientele'
    BY <1>3 DEF Service, Clientele, ChildListens
  <2>5. ASSUME NEW x \in Daemons PROVE (Unused(x) /\ Supervised(x) /\ Files(x))'
    <3>1. Unused(x)'
      BY <1>3 DEF Service, Unused, ChildListens
    <3>2. Supervised(x)'
      BY <1>3 DEF Service, Supervised, Overlap, Mishap, ChildListens
    <3>3. Files(x)'
      BY <1>3, <2>1, <2>2, RequestFacts, ConfigFacts
         DEF Service, Types, ClientTypes, DaemonTypes, PathTypes, Holding, Asking,
             Clientele, Supervised, Unused, Files, Orderly, Neat, Finish, Starting,
             Closing, Die, Signal, Torn, Mishap, Expires, Answering, Ready, Degraded,
             Stopped, ChildListens
    <3>. QED
      BY <3>1, <3>2, <3>3
  <2>. QED
    BY <2>1, <2>2, <2>3, <2>4, <2>5 DEF Service
<1>4. CASE WaitSocket(d)
  <2>1. Types'
    <3>1. ClientTypes'
      BY <1>4 DEF Service, Types, ClientTypes, WaitSocket
    <3>2. DaemonTypes'
      <4>1. CASE Rollback(d, priv)
        BY <4>1, TornTypes, DieTypes DEF Service, Types, Rollback
      <4>2. CASE /\ dpc' = [dpc EXCEPT ![d] = "commit"] /\ sockid' = [sockid EXCEPT ![d] = priv]
                 /\ UNCHANGED <<dcfg, halted, inbox, kid, pub, priv>>
        BY <1>4, <4>2 DEF Service, Types, DaemonTypes, PathTypes, Stages, Starting, WaitSocket
      <4>. QED
        BY <1>4, <4>1, <4>2 DEF WaitSocket
    <3>3. PathTypes'
      BY <1>4, DieTypes, SignalTypes, TornTypes, ConfigFacts
         DEF Service, Types, ClientTypes, DaemonTypes, PathTypes, Rollback, WaitSocket
    <3>4. LuckTypes'
      BY <1>4 DEF Service, Types, LuckTypes, WaitSocket
    <3>. QED
      BY <3>1, <3>2, <3>3, <3>4 DEF Types
  <2>2. Holding'
    BY <1>4 DEF Service, Holding, WaitSocket
  <2>3. Asking'
    BY <1>4
       DEF Service, Asking, Types, ClientTypes, DaemonTypes, Overlap, Finish, Mishap,
           Expires, Die, Rollback, Torn, WaitSocket
  <2>4. Clientele'
    BY <1>4, <2>1, <2>2, RequestFacts, ConfigFacts
       DEF Service, Types, ClientTypes, DaemonTypes, PathTypes, Holding, Clientele,
           Supervised, Unused, Finish, Starting, Die, Signal, Mishap, Expires, Rollback,
           Torn, WaitSocket
  <2>5. ASSUME NEW x \in Daemons PROVE (Unused(x) /\ Supervised(x) /\ Files(x))'
    <3>1. Unused(x)'
      BY <1>4
         DEF Service, Unused, Types, DaemonTypes, PathTypes, Signal, Starting, Closing,
             Dead, Die, Torn, Rollback, WaitSocket
    <3>2. Supervised(x)'
      BY <1>4
         DEF Service, Supervised, Types, ClientTypes, DaemonTypes, PathTypes, Holding,
             Asking, Clientele, Unused, Finish, Starting, Signal, Mishap, Expires,
             Overlap, Answering, Ready, Degraded, Stopped, Die, Torn, Rollback,
             WaitSocket
    <3>3. Files(x)'
      BY <1>4
         DEF Service, Files, Types, ClientTypes, DaemonTypes, PathTypes, Holding,
             Asking, Clientele, Unused, Orderly, Neat, Finish, Starting, Closing,
             Signal, Mishap, Expires, Answering, Ready, Degraded, Stopped, Die, Torn,
             Rollback, WaitSocket
    <3>. QED
      BY <3>1, <3>2, <3>3
  <2>. QED
    BY <2>1, <2>2, <2>3, <2>4, <2>5 DEF Service
<1>5. CASE WaitFails(d)
  <2>1. Types'
    <3>1. ClientTypes'
      BY <1>5 DEF Service, Types, ClientTypes, WaitFails
    <3>2. DaemonTypes'
      BY <1>5, DieTypes, SignalTypes, TornTypes, StepTypes, ConfigFacts, RequestFacts
         DEF Service, Types, ClientTypes, DaemonTypes, PathTypes, Stages, Starting,
             Closing, Rollback, WaitFails
    <3>3. PathTypes'
      BY <1>5, DieTypes, SignalTypes, TornTypes, ConfigFacts
         DEF Service, Types, ClientTypes, DaemonTypes, PathTypes, Rollback, WaitFails
    <3>4. LuckTypes'
      BY <1>5, MishapTypes DEF Service, Types, LuckTypes, Rollback, WaitFails
    <3>. QED
      BY <3>1, <3>2, <3>3, <3>4 DEF Types
  <2>2. Holding'
    BY <1>5 DEF Service, Holding, WaitFails
  <2>3. Asking'
    BY <1>5 DEF Service, Asking, Overlap, Mishap, Die, Rollback, Torn, WaitFails
  <2>4. Clientele'
    BY <1>5, <2>1, <2>2, RequestFacts, ConfigFacts
       DEF Service, Types, ClientTypes, DaemonTypes, PathTypes, Holding, Clientele,
           Supervised, Unused, Finish, Starting, Die, Signal, Mishap, Expires, Rollback,
           Torn, WaitFails
  <2>5. ASSUME NEW x \in Daemons PROVE (Unused(x) /\ Supervised(x) /\ Files(x))'
    <3>1. Unused(x)'
      BY <1>5
         DEF Service, Unused, Types, DaemonTypes, PathTypes, Die, Torn, Rollback,
             WaitFails
    <3>2. Supervised(x)'
      BY <1>5
         DEF Service, Supervised, Types, ClientTypes, DaemonTypes, PathTypes, Holding,
             Asking, Clientele, Unused, Finish, Starting, Signal, Mishap, Expires,
             Overlap, Answering, Ready, Degraded, Stopped, Die, Torn, Rollback,
             WaitFails
    <3>3. Files(x)'
      BY <1>5 DEF Service, Files, Orderly, Neat, Mishap, Die, Torn, Rollback, WaitFails
    <3>. QED
      BY <3>1, <3>2, <3>3
  <2>. QED
    BY <2>1, <2>2, <2>3, <2>4, <2>5 DEF Service
<1>6. CASE Commit(d)
  <2>1. Types'
    <3>1. ClientTypes'
      BY <1>6 DEF Service, Types, ClientTypes, Commit
    <3>2. DaemonTypes'
      BY <1>6, DieTypes, SignalTypes, TornTypes, StepTypes, ConfigFacts, RequestFacts
         DEF Service, Types, ClientTypes, DaemonTypes, PathTypes, Stages, Starting,
             Closing, Commit
    <3>3. PathTypes'
      BY <1>6 DEF Service, Types, PathTypes, ClientTypes, DaemonTypes, Commit
    <3>4. LuckTypes'
      BY <1>6 DEF Service, Types, LuckTypes, Commit
    <3>. QED
      BY <3>1, <3>2, <3>3, <3>4 DEF Types
  <2>2. Holding'
    BY <1>6 DEF Service, Holding, Commit
  <2>3. Asking'
    BY <1>6 DEF Service, Asking, Overlap, Mishap, Step, Commit
  <2>4. Clientele'
    BY <1>6 DEF Service, Clientele, Mishap, Step, Commit
  <2>5. ASSUME NEW x \in Daemons PROVE (Unused(x) /\ Supervised(x) /\ Files(x))'
    <3>1. Unused(x)'
      BY <1>6
         DEF Service, Unused, Types, DaemonTypes, PathTypes, Die, Signal, Torn,
             Starting, Closing, Dead, Step, Commit
    <3>2. Supervised(x)'
      BY <1>6
         DEF Service, Supervised, Types, ClientTypes, DaemonTypes, PathTypes, Holding,
             Asking, Clientele, Unused, Finish, Starting, Die, Signal, Torn, Mishap,
             Expires, Overlap, Answering, Ready, Degraded, Stopped, Step, Commit
    <3>3. Files(x)'
      BY <1>6
         DEF Service, Files, Types, ClientTypes, DaemonTypes, PathTypes, Holding,
             Asking, Clientele, Unused, Orderly, Neat, Finish, Starting, Closing, Die,
             Signal, Torn, Mishap, Expires, Answering, Ready, Degraded, Stopped, Step,
             Commit
    <3>. QED
      BY <3>1, <3>2, <3>3
  <2>. QED
    BY <2>1, <2>2, <2>3, <2>4, <2>5 DEF Service
<1>7. CASE Open(d)
  <2>1. Types'
    <3>1. ClientTypes'
      BY <1>7 DEF Service, Types, ClientTypes, Open
    <3>2. DaemonTypes'
      BY <1>7, DieTypes, SignalTypes, TornTypes, StepTypes, ConfigFacts, RequestFacts
         DEF Service, Types, ClientTypes, DaemonTypes, PathTypes, Stages, Starting,
             Closing, Open
    <3>3. PathTypes'
      BY <1>7 DEF Service, Types, PathTypes, Open
    <3>4. LuckTypes'
      BY <1>7 DEF Service, Types, LuckTypes, Open
    <3>. QED
      BY <3>1, <3>2, <3>3, <3>4 DEF Types
  <2>2. Holding'
    BY <1>7 DEF Service, Holding, Open
  <2>3. Asking'
    BY <1>7 DEF Service, Asking, Overlap, Mishap, Step, Open
  <2>4. Clientele'
    BY <1>7
       DEF Service, Clientele, Types, ClientTypes, DaemonTypes, PathTypes, Finish,
           Mishap, Expires, Step, Open
  <2>5. ASSUME NEW x \in Daemons PROVE (Unused(x) /\ Supervised(x) /\ Files(x))'
    <3>1. Unused(x)'
      BY <1>7
         DEF Service, Unused, Types, DaemonTypes, PathTypes, Die, Signal, Torn,
             Starting, Closing, Dead, Step, Open
    <3>2. Supervised(x)'
      BY <1>7
         DEF Service, Supervised, Types, ClientTypes, DaemonTypes, PathTypes, Holding,
             Asking, Clientele, Unused, Finish, Starting, Die, Signal, Torn, Mishap,
             Expires, Overlap, Answering, Ready, Degraded, Stopped, Step, Open
    <3>3. Files(x)'
      BY <1>7, <2>1, <2>2, RequestFacts, ConfigFacts
         DEF Service, Types, ClientTypes, DaemonTypes, PathTypes, Holding, Asking,
             Clientele, Supervised, Unused, Files, Orderly, Neat, Finish, Starting,
             Closing, Die, Signal, Torn, Mishap, Expires, Answering, Ready, Degraded,
             Stopped, Step, Open
    <3>. QED
      BY <3>1, <3>2, <3>3
  <2>. QED
    BY <2>1, <2>2, <2>3, <2>4, <2>5 DEF Service
<1>8. CASE Serve(d)
  <2>1. Types'
    <3>1. ClientTypes'
      BY <1>8 DEF Service, Types, ClientTypes, Serve
    <3>2. DaemonTypes'
      BY <1>8, DieTypes, SignalTypes, TornTypes, StepTypes, ConfigFacts, RequestFacts
         DEF Service, Types, ClientTypes, DaemonTypes, PathTypes, Stages, Starting,
             Closing, Serve
    <3>3. PathTypes'
      BY <1>8 DEF Service, Types, PathTypes, Serve
    <3>4. LuckTypes'
      BY <1>8 DEF Service, Types, LuckTypes, Serve
    <3>. QED
      BY <3>1, <3>2, <3>3, <3>4 DEF Types
  <2>2. Holding'
    BY <1>8 DEF Service, Holding, Serve
  <2>3. Asking'
    BY <1>8 DEF Service, Asking, Overlap, Mishap, Step, Serve
  <2>4. Clientele'
    BY <1>8 DEF Service, Clientele, Mishap, Step, Serve
  <2>5. ASSUME NEW x \in Daemons PROVE (Unused(x) /\ Supervised(x) /\ Files(x))'
    <3>1. Unused(x)'
      BY <1>8
         DEF Service, Unused, Types, DaemonTypes, PathTypes, Die, Signal, Torn,
             Starting, Closing, Dead, Step, Serve
    <3>2. Supervised(x)'
      BY <1>8
         DEF Service, Supervised, Types, ClientTypes, DaemonTypes, PathTypes, Holding,
             Asking, Clientele, Unused, Finish, Starting, Die, Signal, Torn, Mishap,
             Expires, Overlap, Answering, Ready, Degraded, Stopped, Step, Serve
    <3>3. Files(x)'
      BY <1>8
         DEF Service, Files, Types, ClientTypes, DaemonTypes, PathTypes, Holding,
             Asking, Clientele, Unused, Orderly, Neat, Finish, Starting, Closing, Die,
             Signal, Torn, Mishap, Expires, Answering, Ready, Degraded, Stopped, Step,
             Serve
    <3>. QED
      BY <3>1, <3>2, <3>3
  <2>. QED
    BY <2>1, <2>2, <2>3, <2>4, <2>5 DEF Service
<1>9. CASE CloseRpc(d)
  <2>1. Types'
    <3>1. ClientTypes'
      BY <1>9 DEF Service, Types, ClientTypes, CloseRpc
    <3>2. DaemonTypes'
      BY <1>9, DieTypes, SignalTypes, TornTypes, StepTypes, ConfigFacts, RequestFacts
         DEF Service, Types, ClientTypes, DaemonTypes, PathTypes, Stages, Starting,
             Closing, CloseRpc
    <3>3. PathTypes'
      BY <1>9 DEF Service, Types, PathTypes, CloseRpc
    <3>4. LuckTypes'
      BY <1>9 DEF Service, Types, LuckTypes, CloseRpc
    <3>. QED
      BY <3>1, <3>2, <3>3, <3>4 DEF Types
  <2>2. Holding'
    BY <1>9 DEF Service, Holding, CloseRpc
  <2>3. Asking'
    BY <1>9 DEF Service, Asking, Overlap, Mishap, Step, CloseRpc
  <2>4. Clientele'
    BY <1>9 DEF Service, Clientele, Mishap, Step, CloseRpc
  <2>5. ASSUME NEW x \in Daemons PROVE (Unused(x) /\ Supervised(x) /\ Files(x))'
    <3>1. Unused(x)'
      BY <1>9
         DEF Service, Unused, Types, DaemonTypes, PathTypes, Die, Signal, Torn,
             Starting, Closing, Dead, Step, CloseRpc
    <3>2. Supervised(x)'
      BY <1>9
         DEF Service, Supervised, Types, ClientTypes, DaemonTypes, PathTypes, Holding,
             Asking, Clientele, Unused, Finish, Starting, Die, Signal, Torn, Mishap,
             Expires, Overlap, Answering, Ready, Degraded, Stopped, Step, CloseRpc
    <3>3. Files(x)'
      BY <1>9
         DEF Service, Files, Types, ClientTypes, DaemonTypes, PathTypes, Holding,
             Asking, Clientele, Unused, Orderly, Neat, Finish, Starting, Closing, Die,
             Signal, Torn, Mishap, Expires, Answering, Ready, Degraded, Stopped, Step,
             CloseRpc
    <3>. QED
      BY <3>1, <3>2, <3>3
  <2>. QED
    BY <2>1, <2>2, <2>3, <2>4, <2>5 DEF Service
<1>10. CASE CheckPath(d)
  <2>1. Types'
    <3>1. ClientTypes'
      BY <1>10 DEF Service, Types, ClientTypes, CheckPath
    <3>2. DaemonTypes'
      BY <1>10, DieTypes, SignalTypes, TornTypes, StepTypes, ConfigFacts, RequestFacts
         DEF Service, Types, ClientTypes, DaemonTypes, PathTypes, Stages, Starting,
             Closing, CheckPath
    <3>3. PathTypes'
      BY <1>10 DEF Service, Types, PathTypes, CheckPath
    <3>4. LuckTypes'
      BY <1>10 DEF Service, Types, LuckTypes, CheckPath
    <3>. QED
      BY <3>1, <3>2, <3>3, <3>4 DEF Types
  <2>2. Holding'
    BY <1>10 DEF Service, Holding, CheckPath
  <2>3. Asking'
    BY <1>10 DEF Service, Asking, Overlap, Mishap, Step, CheckPath
  <2>4. Clientele'
    BY <1>10 DEF Service, Clientele, Mishap, Step, CheckPath
  <2>5. ASSUME NEW x \in Daemons PROVE (Unused(x) /\ Supervised(x) /\ Files(x))'
    <3>1. Unused(x)'
      BY <1>10
         DEF Service, Unused, Types, DaemonTypes, PathTypes, Die, Signal, Torn,
             Starting, Closing, Dead, Step, CheckPath
    <3>2. Supervised(x)'
      BY <1>10
         DEF Service, Supervised, Types, ClientTypes, DaemonTypes, PathTypes, Holding,
             Asking, Clientele, Unused, Finish, Starting, Die, Signal, Torn, Mishap,
             Expires, Overlap, Answering, Ready, Degraded, Stopped, Step, CheckPath
    <3>3. Files(x)'
      BY <1>10
         DEF Service, Files, Types, ClientTypes, DaemonTypes, PathTypes, Holding,
             Asking, Clientele, Unused, Orderly, Neat, Finish, Starting, Closing, Die,
             Signal, Torn, Mishap, Expires, Answering, Ready, Degraded, Stopped, Step,
             CheckPath
    <3>. QED
      BY <3>1, <3>2, <3>3
  <2>. QED
    BY <2>1, <2>2, <2>3, <2>4, <2>5 DEF Service
<1>11. CASE UnlinkPath(d)
  <2>1. Types'
    <3>1. ClientTypes'
      BY <1>11 DEF Service, Types, ClientTypes, UnlinkPath
    <3>2. DaemonTypes'
      BY <1>11, DieTypes, SignalTypes, TornTypes, StepTypes, ConfigFacts, RequestFacts
         DEF Service, Types, ClientTypes, DaemonTypes, PathTypes, Stages, Starting,
             Closing, UnlinkPath
    <3>3. PathTypes'
      BY <1>11 DEF Service, Types, PathTypes, UnlinkPath
    <3>4. LuckTypes'
      BY <1>11 DEF Service, Types, LuckTypes, UnlinkPath
    <3>. QED
      BY <3>1, <3>2, <3>3, <3>4 DEF Types
  <2>2. Holding'
    BY <1>11 DEF Service, Holding, UnlinkPath
  <2>3. Asking'
    BY <1>11 DEF Service, Asking, Overlap, Mishap, Step, UnlinkPath
  <2>4. Clientele'
    BY <1>11 DEF Service, Clientele, Mishap, Step, UnlinkPath
  <2>5. ASSUME NEW x \in Daemons PROVE (Unused(x) /\ Supervised(x) /\ Files(x))'
    <3>1. Unused(x)'
      BY <1>11
         DEF Service, Unused, Types, DaemonTypes, PathTypes, Die, Signal, Torn,
             Starting, Closing, Dead, Step, UnlinkPath
    <3>2. Supervised(x)'
      BY <1>11
         DEF Service, Supervised, Types, ClientTypes, DaemonTypes, PathTypes, Holding,
             Asking, Clientele, Unused, Finish, Starting, Die, Signal, Torn, Mishap,
             Expires, Overlap, Answering, Ready, Degraded, Stopped, Step, UnlinkPath
    <3>3. Files(x)'
      BY <1>11
         DEF Service, Files, Types, ClientTypes, DaemonTypes, PathTypes, Holding,
             Asking, Clientele, Unused, Orderly, Neat, Finish, Starting, Closing, Die,
             Signal, Torn, Mishap, Expires, Answering, Ready, Degraded, Stopped, Step,
             UnlinkPath
    <3>. QED
      BY <3>1, <3>2, <3>3
  <2>. QED
    BY <2>1, <2>2, <2>3, <2>4, <2>5 DEF Service
<1>. QED
  BY <1>1, <1>2, <1>3, <1>4, <1>5, <1>6, <1>7, <1>8, <1>9, <1>10, <1>11

\* A daemon that is asked to end, and its last clean-up.
LEMMA MaintainKeeps ==
  ASSUME Service, NEW d \in Daemons, NEW q \in inbox[d], NEW s \in BOOLEAN,
         MaintainRefuses(d,q) \/ MaintainTerminates(d,q,s)
  PROVE  Service'
<1>1. CASE MaintainRefuses(d,q)
  <2>1. Types'
    <3>1. ClientTypes'
      BY <1>1, ReplyTypes DEF Service, MaintainRefuses
    <3>2. DaemonTypes'
      BY <1>1 DEF Service, Types, DaemonTypes, Answered, Reply, MaintainRefuses
    <3>3. PathTypes'
      BY <1>1 DEF Service, Types, PathTypes, MaintainRefuses
    <3>4. LuckTypes'
      BY <1>1 DEF Service, Types, LuckTypes, MaintainRefuses
    <3>. QED
      BY <3>1, <3>2, <3>3, <3>4 DEF Types
  <2>2. Holding'
    BY <1>1
       DEF Service, Holding, Types, ClientTypes, Finish, Reply, Answered,
           MaintainRefuses
  <2>3. Asking'
    BY <1>1, <2>1, <2>2, RequestFacts, ConfigFacts
       DEF Service, Types, ClientTypes, DaemonTypes, Holding, Asking, Finish, Overlap,
           Mishap, Expires, Die, Signal, Answered, Reply, MaintainRefuses
  <2>4. Clientele'
    BY <1>1
       DEF Service, Clientele, Types, ClientTypes, DaemonTypes, PathTypes, Finish,
           Mishap, Expires, Answered, Reply, MaintainRefuses
  <2>5. ASSUME NEW x \in Daemons PROVE (Unused(x) /\ Supervised(x) /\ Files(x))'
    <3>1. Unused(x)'
      BY <1>1 DEF Service, Unused, Answered, Reply, MaintainRefuses
    <3>2. Supervised(x)'
      BY <1>1
         DEF Service, Supervised, Types, ClientTypes, DaemonTypes, PathTypes, Holding,
             Asking, Clientele, Unused, Finish, Starting, Die, Signal, Torn, Mishap,
             Expires, Overlap, Answering, Ready, Degraded, Stopped, Answered, Reply,
             MaintainRefuses
    <3>3. Files(x)'
      BY <1>1
         DEF Service, Files, Types, ClientTypes, DaemonTypes, PathTypes, Holding,
             Asking, Clientele, Unused, Orderly, Neat, Finish, Starting, Closing, Die,
             Signal, Torn, Mishap, Expires, Answering, Ready, Degraded, Stopped,
             Answered, Reply, MaintainRefuses
    <3>. QED
      BY <3>1, <3>2, <3>3
  <2>. QED
    BY <2>1, <2>2, <2>3, <2>4, <2>5 DEF Service
<1>2. CASE MaintainTerminates(d,q,s)
  <2>1. Types'
    <3>1. ClientTypes'
      BY <1>2, ReplyTypes DEF Service, MaintainTerminates
    <3>2. DaemonTypes'
      BY <1>2, DieTypes, SignalTypes, TornTypes, StepTypes, ConfigFacts, RequestFacts
         DEF Service, Types, ClientTypes, DaemonTypes, PathTypes, Stages, Starting,
             Closing, MayTerminate, Answered, Reply, MaintainTerminates
    <3>3. PathTypes'
      BY <1>2, DieTypes, SignalTypes, TornTypes, ConfigFacts
         DEF Service, Types, ClientTypes, DaemonTypes, PathTypes, MayTerminate,
             Answered, Reply, MaintainTerminates
    <3>4. LuckTypes'
      BY <1>2, MishapTypes
         DEF Service, Types, LuckTypes, MayTerminate, Answered, Reply,
             MaintainTerminates
    <3>. QED
      BY <3>1, <3>2, <3>3, <3>4 DEF Types
  <2>2. Holding'
    BY <1>2
       DEF Service, Holding, Types, ClientTypes, Asking, Finish, Reply, MayTerminate,
           Torn, Answered, MaintainTerminates
  <2>3. Asking'
    BY <1>2, <2>1, <2>2, RequestFacts, ConfigFacts
       DEF Service, Types, ClientTypes, DaemonTypes, Holding, Asking, Finish, Overlap,
           Mishap, Expires, Die, Signal, MayTerminate, Torn, Answered, Reply,
           MaintainTerminates
  <2>4. Clientele'
    BY <1>2, <2>1, <2>2, RequestFacts, ConfigFacts
       DEF Service, Types, ClientTypes, DaemonTypes, PathTypes, Holding, Clientele,
           Supervised, Unused, Finish, Starting, Die, Signal, Mishap, Expires,
           MayTerminate, Torn, Answered, Reply, MaintainTerminates
  <2>5. ASSUME NEW x \in Daemons PROVE (Unused(x) /\ Supervised(x) /\ Files(x))'
    <3>1. Unused(x)'
      BY <1>2
         DEF Service, Unused, Types, DaemonTypes, PathTypes, Die, Signal, Starting,
             Closing, Dead, Torn, MayTerminate, Answered, Reply, MaintainTerminates
    <3>2. Supervised(x)'
      BY <1>2, <2>1, <2>2, RequestFacts, ConfigFacts
         DEF Service, Types, ClientTypes, DaemonTypes, PathTypes, Holding, Asking,
             Clientele, Supervised, Unused, Finish, Starting, Die, Signal, Torn, Mishap,
             Expires, Overlap, Answering, Ready, Degraded, Stopped, MayTerminate,
             Answered, Reply, MaintainTerminates
    <3>3. Files(x)'
      <4>1. Files(x) /\ Files(d) /\ x \in Daemons
        BY DEF Service
      <4>2. /\ kid' = IF s THEN kid ELSE [kid EXCEPT ![d] = "none"]
            /\ priv' = IF priv = sockid[d] THEN Nil ELSE priv
            /\ harm \subseteq harm' /\ (s => kid[d] = "up" /\ "teardown" \in harm')
        BY <1>2 DEF MaintainTerminates, MayTerminate, Torn, Mishap
      <4>3. Owned(x) => Owned(x)'
        <5>1. q.from # Nil => cpc[q.from] = "asked" /\ q.from \in Clients
          BY RequestFacts DEF Service, Types, DaemonTypes, Asking
        <5>. QED
          BY <1>2, <5>1 DEF Service, Types, ClientTypes, MaintainTerminates, Reply, Finish
      <4>4. CASE x = d
        BY <1>2, <4>1, <4>2, <4>4
           DEF Service, Types, DaemonTypes, PathTypes, Files, Orderly, Neat, Closing, MaintainTerminates, MayTerminate
      <4>5. CASE x # d
        BY <1>2, <4>1, <4>2, <4>3, <4>5
           DEF Service, Types, DaemonTypes, PathTypes, Files, Orderly, Neat, Closing, MaintainTerminates, MayTerminate
      <4>. QED
        BY <4>4, <4>5
    <3>. QED
      BY <3>1, <3>2, <3>3
  <2>. QED
    BY <2>1, <2>2, <2>3, <2>4, <2>5 DEF Service
<1>. QED
  BY <1>1, <1>2

LEMMA TeardownKeeps ==
  ASSUME Service, NEW d \in Daemons, NEW s \in BOOLEAN,
         Teardown(d,s)
  PROVE  Service'
<1>1. CASE Teardown(d,s)
  <2>1. Types'
    <3>1. ClientTypes'
      BY <1>1 DEF Service, Types, ClientTypes, Teardown
    <3>2. DaemonTypes'
      BY <1>1, DieTypes, SignalTypes, TornTypes, StepTypes, ConfigFacts, RequestFacts
         DEF Service, Types, ClientTypes, DaemonTypes, PathTypes, Stages, Starting,
             Closing, Teardown
    <3>3. PathTypes'
      BY <1>1, DieTypes, SignalTypes, TornTypes, ConfigFacts
         DEF Service, Types, ClientTypes, DaemonTypes, PathTypes, Teardown
    <3>4. LuckTypes'
      BY <1>1, MishapTypes DEF Service, Types, LuckTypes, Teardown
    <3>. QED
      BY <3>1, <3>2, <3>3, <3>4 DEF Types
  <2>2. Holding'
    BY <1>1 DEF Service, Holding, Teardown
  <2>3. Asking'
    BY <1>1 DEF Service, Asking, Overlap, Mishap, Die, Torn, Teardown
  <2>4. Clientele'
    BY <1>1, <2>1, <2>2, RequestFacts, ConfigFacts
       DEF Service, Types, ClientTypes, DaemonTypes, PathTypes, Holding, Clientele,
           Supervised, Unused, Finish, Starting, Die, Signal, Mishap, Expires, Torn,
           Teardown
  <2>5. ASSUME NEW x \in Daemons PROVE (Unused(x) /\ Supervised(x) /\ Files(x))'
    <3>1. Unused(x)'
      BY <1>1 DEF Service, Unused, Types, DaemonTypes, PathTypes, Die, Torn, Teardown
    <3>2. Supervised(x)'
      BY <1>1
         DEF Service, Supervised, Types, ClientTypes, DaemonTypes, PathTypes, Holding,
             Asking, Clientele, Unused, Finish, Starting, Signal, Mishap, Expires,
             Overlap, Answering, Ready, Degraded, Stopped, Die, Torn, Teardown
    <3>3. Files(x)'
      <4>1. Files(x) /\ Files(d) /\ x \in Daemons
        BY DEF Service
      <4>2. /\ kid' = IF s THEN kid ELSE [kid EXCEPT ![d] = "none"]
            /\ priv' = IF priv = sockid[d] THEN Nil ELSE priv
            /\ harm \subseteq harm' /\ (s => kid[d] = "up" /\ "teardown" \in harm')
        BY <1>1 DEF Teardown, Die, Torn, Mishap
      <4>3. Owned(x) => Owned(x)'
        BY <1>1 DEF Teardown
      <4>4. CASE x = d
        BY <1>1, <4>1, <4>2, <4>4
           DEF Service, Types, DaemonTypes, PathTypes, Files, Orderly, Neat, Closing, Teardown, Die
      <4>5. CASE x # d
        BY <1>1, <4>1, <4>2, <4>3, <4>5
           DEF Service, Types, DaemonTypes, PathTypes, Files, Orderly, Neat, Closing, Teardown, Die
      <4>. QED
        BY <4>4, <4>5
    <3>. QED
      BY <3>1, <3>2, <3>3
  <2>. QED
    BY <2>1, <2>2, <2>3, <2>4, <2>5 DEF Service
<1>. QED
  BY <1>1

\* What goes wrong: a client gives up or dies,
LEMMA ClientLuckKeeps ==
  ASSUME Service, NEW c \in Clients,
         SurveySlow(c) \/ GiveUp(c) \/ ProbeSlow(c) \/ TermKill(c) \/ Kill(c)
  PROVE  Service'
<1>1. CASE SurveySlow(c)
  <2>1. Types'
    <3>1. ClientTypes'
      BY <1>1, SurveyedTypes DEF Service, SurveySlow
    <3>2. DaemonTypes'
      BY <1>1 DEF Service, Types, DaemonTypes, SurveySlow
    <3>3. PathTypes'
      BY <1>1 DEF Service, Types, PathTypes, SurveySlow
    <3>4. LuckTypes'
      BY <1>1, MishapTypes
         DEF Service, Types, LuckTypes, Surveyed, Requested, SurveySlow
    <3>. QED
      BY <3>1, <3>2, <3>3, <3>4 DEF Types
  <2>2. Holding'
    BY <1>1
       DEF Service, Holding, Types, ClientTypes, Finish, Surveyed, Requested, SurveySlow
  <2>3. Asking'
    BY <1>1, <2>1, <2>2, RequestFacts, ConfigFacts
       DEF Service, Types, ClientTypes, DaemonTypes, Holding, Asking, Finish, Overlap,
           Mishap, Expires, Die, Signal, Surveyed, Requested, SurveySlow
  <2>4. Clientele'
    BY <1>1
       DEF Service, Clientele, Types, ClientTypes, DaemonTypes, PathTypes, Finish,
           Mishap, Expires, Surveyed, Requested, SurveySlow
  <2>5. ASSUME NEW x \in Daemons PROVE (Unused(x) /\ Supervised(x) /\ Files(x))'
    <3>1. Unused(x)'
      BY <1>1 DEF Service, Unused, SurveySlow
    <3>2. Supervised(x)'
      BY <1>1
         DEF Service, Supervised, Types, ClientTypes, DaemonTypes, PathTypes, Overlap,
             Finish, Mishap, Expires, Surveyed, Requested, SurveySlow
    <3>3. Files(x)'
      BY <1>1
         DEF Service, Files, Types, ClientTypes, DaemonTypes, PathTypes, Orderly, Neat,
             Finish, Mishap, Expires, Surveyed, Requested, SurveySlow
    <3>. QED
      BY <3>1, <3>2, <3>3
  <2>. QED
    BY <2>1, <2>2, <2>3, <2>4, <2>5 DEF Service
<1>2. CASE GiveUp(c)
  <2>1. Types'
    <3>1. ClientTypes'
      BY <1>2, FinishTypes, ConfigFacts, OrderFacts, RequestFacts
         DEF Service, Types, ClientTypes, DaemonTypes, PathTypes, Asking, Phases,
             Verdicts, Waiting, GiveUp
    <3>2. DaemonTypes'
      BY <1>2, DieTypes, SignalTypes, TornTypes, StepTypes, ConfigFacts, RequestFacts
         DEF Service, Types, ClientTypes, DaemonTypes, PathTypes, Stages, Starting,
             Closing, Waiting, GiveUp
    <3>3. PathTypes'
      BY <1>2 DEF Service, Types, PathTypes, GiveUp
    <3>4. LuckTypes'
      BY <1>2, MishapTypes DEF Service, Types, LuckTypes, Waiting, GiveUp
    <3>. QED
      BY <3>1, <3>2, <3>3, <3>4 DEF Types
  <2>2. Holding'
    BY <1>2 DEF Service, Holding, Types, ClientTypes, Finish, Waiting, GiveUp
  <2>3. Asking'
    BY <1>2, AskingDisowned DEF Service, Types, ClientTypes, Overlap, Mishap, Finish, GiveUp
  <2>4. Clientele'
    BY <1>2
       DEF Service, Clientele, Types, ClientTypes, DaemonTypes, PathTypes, Finish,
           Mishap, Expires, Waiting, GiveUp
  <2>5. ASSUME NEW x \in Daemons PROVE (Unused(x) /\ Supervised(x) /\ Files(x))'
    <3>1. Unused(x)'
      BY <1>2 DEF Service, Unused, GiveUp
    <3>2. Supervised(x)'
      BY <1>2
         DEF Service, Supervised, Types, ClientTypes, DaemonTypes, PathTypes, Overlap,
             Finish, Mishap, Expires, Waiting, GiveUp
    <3>3. Files(x)'
      BY <1>2
         DEF Service, Files, Types, ClientTypes, DaemonTypes, PathTypes, Orderly, Neat,
             Finish, Mishap, Expires, Waiting, GiveUp
    <3>. QED
      BY <3>1, <3>2, <3>3
  <2>. QED
    BY <2>1, <2>2, <2>3, <2>4, <2>5 DEF Service
<1>3. CASE ProbeSlow(c)
  <2>1. Types'
    <3>1. ClientTypes'
      BY <1>3, GotoTypes DEF Service, Types, ClientTypes, Phases, ProbeSlow
    <3>2. DaemonTypes'
      BY <1>3 DEF Service, Types, DaemonTypes, ProbeSlow
    <3>3. PathTypes'
      BY <1>3 DEF Service, Types, PathTypes, ProbeSlow
    <3>4. LuckTypes'
      BY <1>3, MishapTypes DEF Service, Types, LuckTypes, ProbeSlow
    <3>. QED
      BY <3>1, <3>2, <3>3, <3>4 DEF Types
  <2>2. Holding'
    BY <1>3 DEF Service, Holding, ProbeSlow
  <2>3. Asking'
    BY <1>3 DEF Service, Asking, Overlap, Mishap, ProbeSlow
  <2>4. Clientele'
    BY <1>3 DEF Service, Clientele, Mishap, ProbeSlow
  <2>5. ASSUME NEW x \in Daemons PROVE (Unused(x) /\ Supervised(x) /\ Files(x))'
    <3>1. Unused(x)'
      BY <1>3 DEF Service, Unused, ProbeSlow
    <3>2. Supervised(x)'
      <4>1. lock = c /\ cpc[c] \notin {"poll", "term"}
        BY <1>3 DEF Service, Holding, ProbeSlow
      <4>2. harm' = harm \cup {"slowcall"} /\ UNCHANGED dpc
        BY <1>3 DEF ProbeSlow, Mishap
      <4>3. dpc[x] \in Starting => "kill" \in harm
        BY <4>1 DEF Service, Supervised
      <4>. QED
        BY <4>2, <4>3 DEF Supervised, Overlap
    <3>3. Files(x)'
      BY <1>3 DEF Service, Files, Orderly, Neat, Mishap, ProbeSlow
    <3>. QED
      BY <3>1, <3>2, <3>3
  <2>. QED
    BY <2>1, <2>2, <2>3, <2>4, <2>5 DEF Service
<1>4. CASE TermKill(c)
  <2>1. Types'
    <3>1. ClientTypes'
      BY <1>4 DEF Service, Types, ClientTypes, TermKill
    <3>2. DaemonTypes'
      BY <1>4, DieTypes, SignalTypes, TornTypes, StepTypes, ConfigFacts, RequestFacts
         DEF Service, Types, ClientTypes, DaemonTypes, PathTypes, Stages, Starting,
             Closing, TermKill
    <3>3. PathTypes'
      BY <1>4, DieTypes, SignalTypes, TornTypes, ConfigFacts
         DEF Service, Types, ClientTypes, DaemonTypes, PathTypes, TermKill
    <3>4. LuckTypes'
      BY <1>4, MishapTypes DEF Service, Types, LuckTypes, TermKill
    <3>. QED
      BY <3>1, <3>2, <3>3, <3>4 DEF Types
  <2>2. Holding'
    BY <1>4 DEF Service, Holding, TermKill
  <2>3. Asking'
    BY <1>4
       DEF Service, Asking, Types, ClientTypes, DaemonTypes, Overlap, Finish, Mishap,
           Expires, Die, TermKill
  <2>4. Clientele'
    BY <1>4
       DEF Service, Clientele, Types, ClientTypes, DaemonTypes, PathTypes, Holding,
           Unused, Finish, Starting, Signal, Mishap, Expires, Die, TermKill
  <2>5. ASSUME NEW x \in Daemons PROVE (Unused(x) /\ Supervised(x) /\ Files(x))'
    <3>1. Unused(x)'
      BY <1>4 DEF Service, Unused, Types, DaemonTypes, PathTypes, Die, TermKill
    <3>2. Supervised(x)'
      BY <1>4
         DEF Service, Supervised, Types, ClientTypes, DaemonTypes, PathTypes, Holding,
             Asking, Clientele, Unused, Finish, Starting, Signal, Torn, Mishap, Expires,
             Overlap, Answering, Ready, Degraded, Stopped, Die, TermKill
    <3>3. Files(x)'
      BY <1>4
         DEF Service, Files, Types, ClientTypes, DaemonTypes, PathTypes, Orderly, Neat,
             Finish, Mishap, Expires, Die, TermKill
    <3>. QED
      BY <3>1, <3>2, <3>3
  <2>. QED
    BY <2>1, <2>2, <2>3, <2>4, <2>5 DEF Service
<1>5. CASE Kill(c)
  <2>1. Types'
    <3>1. ClientTypes'
      BY <1>5, FinishTypes, ConfigFacts, OrderFacts, RequestFacts
         DEF Service, Types, ClientTypes, DaemonTypes, PathTypes, Asking, Phases,
             Verdicts, Kill
    <3>2. DaemonTypes'
      BY <1>5, DieTypes, SignalTypes, TornTypes, StepTypes, ConfigFacts, RequestFacts
         DEF Service, Types, ClientTypes, DaemonTypes, PathTypes, Stages, Starting,
             Closing, Kill
    <3>3. PathTypes'
      BY <1>5 DEF Service, Types, PathTypes, Kill
    <3>4. LuckTypes'
      BY <1>5, MishapTypes DEF Service, Types, LuckTypes, Kill
    <3>. QED
      BY <3>1, <3>2, <3>3, <3>4 DEF Types
  <2>2. Holding'
    BY <1>5 DEF Service, Holding, Types, ClientTypes, Finish, Kill
  <2>3. Asking'
    BY <1>5, AskingDisowned DEF Service, Types, ClientTypes, Overlap, Mishap, Finish, Kill
  <2>4. Clientele'
    BY <1>5
       DEF Service, Clientele, Types, ClientTypes, DaemonTypes, PathTypes, Finish,
           Mishap, Expires, Kill
  <2>5. ASSUME NEW x \in Daemons PROVE (Unused(x) /\ Supervised(x) /\ Files(x))'
    <3>1. Unused(x)'
      BY <1>5 DEF Service, Unused, Kill
    <3>2. Supervised(x)'
      BY <1>5 DEF Service, Supervised, Overlap, Mishap, Kill
    <3>3. Files(x)'
      BY <1>5 DEF Service, Files, Orderly, Neat, Mishap, Kill
    <3>. QED
      BY <3>1, <3>2, <3>3
  <2>. QED
    BY <2>1, <2>2, <2>3, <2>4, <2>5 DEF Service
<1>. QED
  BY <1>1, <1>2, <1>3, <1>4, <1>5

\* a daemon or its child dies,
LEMMA DaemonLuckKeeps ==
  ASSUME Service, NEW d \in Daemons,
         Crash(d) \/ ChildDies(d)
  PROVE  Service'
<1>1. CASE Crash(d)
  <2>1. Types'
    <3>1. ClientTypes'
      BY <1>1 DEF Service, Types, ClientTypes, Crash
    <3>2. DaemonTypes'
      BY <1>1, DieTypes, SignalTypes, TornTypes, StepTypes, ConfigFacts, RequestFacts
         DEF Service, Types, ClientTypes, DaemonTypes, PathTypes, Stages, Starting,
             Closing, Crash
    <3>3. PathTypes'
      BY <1>1, DieTypes, SignalTypes, TornTypes, ConfigFacts
         DEF Service, Types, ClientTypes, DaemonTypes, PathTypes, Crash
    <3>4. LuckTypes'
      BY <1>1, MishapTypes DEF Service, Types, LuckTypes, Crash
    <3>. QED
      BY <3>1, <3>2, <3>3, <3>4 DEF Types
  <2>2. Holding'
    BY <1>1 DEF Service, Holding, Crash
  <2>3. Asking'
    BY <1>1 DEF Service, Asking, Overlap, Mishap, Die, Crash
  <2>4. Clientele'
    BY <1>1, <2>1, <2>2, RequestFacts, ConfigFacts
       DEF Service, Types, ClientTypes, DaemonTypes, PathTypes, Holding, Clientele,
           Supervised, Unused, Finish, Starting, Die, Signal, Mishap, Expires, Crash
  <2>5. ASSUME NEW x \in Daemons PROVE (Unused(x) /\ Supervised(x) /\ Files(x))'
    <3>1. Unused(x)'
      BY <1>1 DEF Service, Unused, Types, DaemonTypes, PathTypes, Die, Crash
    <3>2. Supervised(x)'
      BY <1>1
         DEF Service, Supervised, Types, ClientTypes, DaemonTypes, PathTypes, Holding,
             Asking, Clientele, Unused, Finish, Starting, Signal, Torn, Mishap, Expires,
             Overlap, Answering, Ready, Degraded, Stopped, Die, Crash
    <3>3. Files(x)'
      BY <1>1 DEF Service, Files, Orderly, Neat, Mishap, Die, Crash
    <3>. QED
      BY <3>1, <3>2, <3>3
  <2>. QED
    BY <2>1, <2>2, <2>3, <2>4, <2>5 DEF Service
<1>2. CASE ChildDies(d)
  <2>1. Types'
    <3>1. ClientTypes'
      BY <1>2 DEF Service, Types, ClientTypes, ChildDies
    <3>2. DaemonTypes'
      BY <1>2 DEF Service, Types, DaemonTypes, ChildDies
    <3>3. PathTypes'
      BY <1>2 DEF Service, Types, PathTypes, ChildDies
    <3>4. LuckTypes'
      BY <1>2, MishapTypes DEF Service, Types, LuckTypes, ChildDies
    <3>. QED
      BY <3>1, <3>2, <3>3, <3>4 DEF Types
  <2>2. Holding'
    BY <1>2 DEF Service, Holding, ChildDies
  <2>3. Asking'
    BY <1>2 DEF Service, Asking, Overlap, Mishap, ChildDies
  <2>4. Clientele'
    BY <1>2 DEF Service, Clientele, Mishap, ChildDies
  <2>5. ASSUME NEW x \in Daemons PROVE (Unused(x) /\ Supervised(x) /\ Files(x))'
    <3>1. Unused(x)'
      BY <1>2 DEF Service, Unused, ChildDies
    <3>2. Supervised(x)'
      BY <1>2 DEF Service, Supervised, Overlap, Mishap, ChildDies
    <3>3. Files(x)'
      BY <1>2 DEF Service, Files, Orderly, Neat, Mishap, ChildDies
    <3>. QED
      BY <3>1, <3>2, <3>3
  <2>. QED
    BY <2>1, <2>2, <2>3, <2>4, <2>5 DEF Service
<1>. QED
  BY <1>1, <1>2

\* Another program takes a listener and leaves it, and the kernel forgets connections.
LEMMA ListenerLuckKeeps ==
  ASSUME Service, NEW l \in Listeners,
         ForeignBinds(l) \/ ForeignLeaves(l) \/ TimeWaitEnds(l)
  PROVE  Service'
<1>1. CASE ForeignBinds(l)
  <2>1. Types'
    <3>1. ClientTypes'
      BY <1>1 DEF Service, Types, ClientTypes, ForeignBinds
    <3>2. DaemonTypes'
      BY <1>1 DEF Service, Types, DaemonTypes, ForeignBinds
    <3>3. PathTypes'
      BY <1>1 DEF Service, Types, PathTypes, ForeignBinds
    <3>4. LuckTypes'
      BY <1>1, MishapTypes DEF Service, Types, LuckTypes, ForeignBinds
    <3>. QED
      BY <3>1, <3>2, <3>3, <3>4 DEF Types
  <2>2. Holding'
    BY <1>1 DEF Service, Holding, ForeignBinds
  <2>3. Asking'
    BY <1>1 DEF Service, Asking, Overlap, Mishap, ForeignBinds
  <2>4. Clientele'
    BY <1>1 DEF Service, Clientele, Mishap, ForeignBinds
  <2>5. ASSUME NEW x \in Daemons PROVE (Unused(x) /\ Supervised(x) /\ Files(x))'
    <3>1. Unused(x)'
      BY <1>1 DEF Service, Unused, ForeignBinds
    <3>2. Supervised(x)'
      BY <1>1 DEF Service, Supervised, Overlap, Mishap, ForeignBinds
    <3>3. Files(x)'
      BY <1>1 DEF Service, Files, Orderly, Neat, Mishap, ForeignBinds
    <3>. QED
      BY <3>1, <3>2, <3>3
  <2>. QED
    BY <2>1, <2>2, <2>3, <2>4, <2>5 DEF Service
<1>2. CASE ForeignLeaves(l)
  <2>1. Types'
    <3>1. ClientTypes'
      BY <1>2 DEF Service, Types, ClientTypes, ForeignLeaves
    <3>2. DaemonTypes'
      BY <1>2 DEF Service, Types, DaemonTypes, ForeignLeaves
    <3>3. PathTypes'
      BY <1>2 DEF Service, Types, PathTypes, ForeignLeaves
    <3>4. LuckTypes'
      BY <1>2 DEF Service, Types, LuckTypes, ForeignLeaves
    <3>. QED
      BY <3>1, <3>2, <3>3, <3>4 DEF Types
  <2>2. Holding'
    BY <1>2 DEF Service, Holding, ForeignLeaves
  <2>3. Asking'
    BY <1>2 DEF Service, Asking, Overlap, Mishap, ForeignLeaves
  <2>4. Clientele'
    BY <1>2 DEF Service, Clientele, ForeignLeaves
  <2>5. ASSUME NEW x \in Daemons PROVE (Unused(x) /\ Supervised(x) /\ Files(x))'
    <3>1. Unused(x)'
      BY <1>2 DEF Service, Unused, ForeignLeaves
    <3>2. Supervised(x)'
      BY <1>2 DEF Service, Supervised, Overlap, Mishap, ForeignLeaves
    <3>3. Files(x)'
      BY <1>2 DEF Service, Files, Orderly, Neat, Mishap, ForeignLeaves
    <3>. QED
      BY <3>1, <3>2, <3>3
  <2>. QED
    BY <2>1, <2>2, <2>3, <2>4, <2>5 DEF Service
<1>3. CASE TimeWaitEnds(l)
  <2>1. Types'
    <3>1. ClientTypes'
      BY <1>3 DEF Service, Types, ClientTypes, TimeWaitEnds
    <3>2. DaemonTypes'
      BY <1>3 DEF Service, Types, DaemonTypes, TimeWaitEnds
    <3>3. PathTypes'
      BY <1>3 DEF Service, Types, PathTypes, TimeWaitEnds
    <3>4. LuckTypes'
      BY <1>3 DEF Service, Types, LuckTypes, TimeWaitEnds
    <3>. QED
      BY <3>1, <3>2, <3>3, <3>4 DEF Types
  <2>2. Holding'
    BY <1>3 DEF Service, Holding, TimeWaitEnds
  <2>3. Asking'
    BY <1>3 DEF Service, Asking, Overlap, Mishap, TimeWaitEnds
  <2>4. Clientele'
    BY <1>3 DEF Service, Clientele, TimeWaitEnds
  <2>5. ASSUME NEW x \in Daemons PROVE (Unused(x) /\ Supervised(x) /\ Files(x))'
    <3>1. Unused(x)'
      BY <1>3 DEF Service, Unused, TimeWaitEnds
    <3>2. Supervised(x)'
      BY <1>3 DEF Service, Supervised, Overlap, Mishap, TimeWaitEnds
    <3>3. Files(x)'
      BY <1>3 DEF Service, Files, Orderly, Neat, Mishap, TimeWaitEnds
    <3>. QED
      BY <3>1, <3>2, <3>3
  <2>. QED
    BY <2>1, <2>2, <2>3, <2>4, <2>5 DEF Service
<1>. QED
  BY <1>1, <1>2, <1>3

-----------------------------------------------------------------------------
(* The invariant of the specification, and what it says.                   *)

LEMMA InitService == Init => Service
<1>. SUFFICES ASSUME Init PROVE Service
  OBVIOUS
<1>1. ClientTypes
  BY OrderFacts DEF Init, ClientTypes, Phases, Verdicts
<1>2. DaemonTypes /\ PathTypes /\ LuckTypes
  BY DEF Init, DaemonTypes, PathTypes, LuckTypes, Stages
<1>3. Holding /\ Asking /\ Clientele
  BY DEF Init, Holding, Asking, Clientele
<1>4. ASSUME NEW d \in Daemons PROVE Unused(d) /\ Supervised(d) /\ Files(d)
  BY DEF Init, Unused, Supervised, Files, Starting, Closing
<1>. QED
  BY <1>1, <1>2, <1>3, <1>4 DEF Service, Types

LEMMA StutterKeeps ==
  ASSUME Service, UNCHANGED vars
  PROVE  Service'
<1>. USE DEF vars
<1>1. Types'
  BY DEF Service, Types, ClientTypes, DaemonTypes, PathTypes, LuckTypes
<1>2. Holding' /\ Asking' /\ Clientele'
  BY DEF Service, Holding, Asking, Clientele, Overlap
<1>3. ASSUME NEW d \in Daemons PROVE (Unused(d) /\ Supervised(d) /\ Files(d))'
  BY DEF Service, Unused, Supervised, Files, Overlap, Orderly, Neat
<1>. QED
  BY <1>1, <1>2, <1>3 DEF Service

LEMMA StepKeeps == Service /\ [Next]_vars => Service'
<1>. SUFFICES ASSUME Service, [Next]_vars PROVE Service'
  OBVIOUS
<1>1. ASSUME NEW c \in Clients, NEW r \in Commands, Call(c, r) PROVE Service'
  BY <1>1, CallKeeps
<1>2. ASSUME NEW c \in Clients, Client(c) PROVE Service'
  <2>1. CASE GetsLock(c)
    BY <2>1, LockKeeps DEF GetsLock
  <2>2. ASSUME NEW d \in Daemons, Launch(c, d) PROVE Service'
    BY <2>2, LaunchKeeps
  <2>3. CASE \/ Survey(c) \/ Ask(c) \/ AskLost(c) \/ AwaitStopped(c) \/ AwaitTimeout(c)
             \/ ProbeStart(c) \/ LaunchFails(c)
             \/ PollReady(c) \/ PollDegraded(c) \/ PollExited(c) \/ PollTimeout(c)
             \/ TermWait(c) \/ Final(c)
    BY <2>3, ClientKeeps
  <2>. QED
    BY <1>2, <2>1, <2>2, <2>3 DEF Client, Supervises
<1>3. ASSUME NEW d \in Daemons, Daemon(d) PROVE Service'
  <2>1. CASE Runs(d)
    BY <2>1, RunsKeeps DEF Runs
  <2>2. CASE Maintain(d)
    <3>1. ASSUME NEW q \in inbox[d], MaintainRefuses(d, q) PROVE Service'
      BY <3>1, MaintainKeeps
    <3>2. ASSUME NEW q \in inbox[d], NEW s \in BOOLEAN, MaintainTerminates(d, q, s)
          PROVE  Service'
      BY <3>2, MaintainKeeps
    <3>. QED
      BY <2>2, <3>1, <3>2 DEF Maintain
  <2>3. ASSUME NEW s \in BOOLEAN, Teardown(d, s) PROVE Service'
    BY <2>3, TeardownKeeps
  <2>. QED
    BY <1>3, <2>1, <2>2, <2>3 DEF Daemon
<1>4. CASE Misfortune
  BY <1>4, ClientLuckKeeps, DaemonLuckKeeps, ListenerLuckKeeps DEF Misfortune
<1>5. CASE UNCHANGED vars
  BY <1>5, StutterKeeps
<1>. QED
  BY <1>1, <1>2, <1>3, <1>4, <1>5 DEF Next

\* The lock, the requests, the daemons and their files fit together, whatever goes wrong:
\* what the following theorems about clients and _serve rest on.
LEMMA ServiceHolds == Spec => []Service
BY InitService, StepKeeps, PTL DEF Spec

\* Connections linger where TUIs were attached, and nowhere else.
Lingering == timewait \subseteq Attached

LEMMA LingeringKept == Lingering /\ [Next]_vars => Lingering'
<1>. SUFFICES ASSUME timewait \subseteq Attached, [Next]_vars
              PROVE  timewait' \subseteq Attached
  BY DEF Lingering
<1>. USE DEF Die
<1>1. ASSUME NEW c \in Clients, NEW r \in Commands, Call(c, r)
      PROVE  timewait' \subseteq Attached
  BY <1>1 DEF Call, pathVars
<1>2. ASSUME NEW c \in Clients, Client(c) PROVE timewait' \subseteq Attached
  <2>1. CASE GetsLock(c) \/ Survey(c) \/ Ask(c) \/ AskLost(c) \/ AwaitStopped(c)
             \/ AwaitTimeout(c)
    BY <2>1 DEF GetsLock, Acquire, LockTimeout, Survey, Ask, AskLost, AwaitStopped,
                AwaitTimeout, pathVars
  <2>2. CASE ProbeStart(c) \/ LaunchFails(c) \/ Final(c) \/ PollExited(c) \/ TermWait(c)
             \/ \E d \in Daemons : Launch(c, d)
    BY <2>2 DEF ProbeStart, LaunchFails, Final, PollExited, TermWait, Launch, pathVars
  <2>3. CASE PollReady(c) \/ PollDegraded(c) \/ PollTimeout(c)
    BY <2>3 DEF PollReady, PollDegraded, PollTimeout, Terminate, Signal
  <2>. QED
    BY <1>2, <2>1, <2>2, <2>3 DEF Client, Supervises
<1>3. ASSUME NEW d \in Daemons, Daemon(d) PROVE timewait' \subseteq Attached
  <2>1. CASE Boot(d) \/ Prepare(d) \/ ChildListens(d)
    BY <2>1 DEF Boot, Prepare, ChildListens
  <2>2. CASE WaitSocket(d) \/ WaitFails(d) \/ \E s \in BOOLEAN : Teardown(d, s)
    BY <2>2 DEF WaitSocket, WaitFails, Rollback, Teardown
  <2>3. CASE Commit(d) \/ Open(d) \/ Serve(d) \/ CloseRpc(d) \/ CheckPath(d)
             \/ UnlinkPath(d)
    BY <2>3 DEF Commit, Open, Serve, CloseRpc, CheckPath, UnlinkPath, pathVars
  <2>4. CASE Maintain(d)
    BY <2>4 DEF Maintain, MaintainRefuses, MaintainTerminates, pathVars
  <2>. QED
    BY <1>3, <2>1, <2>2, <2>3, <2>4 DEF Daemon, Runs
<1>4. CASE Misfortune
  BY <1>4 DEF Misfortune, SurveySlow, GiveUp, ProbeSlow, TermKill, Kill, Crash, ChildDies,
              ForeignBinds, ForeignLeaves, TimeWaitEnds, pathVars
<1>5. CASE UNCHANGED vars
  BY <1>5 DEF vars, pathVars
<1>. QED
  BY <1>1, <1>2, <1>3, <1>4, <1>5 DEF Next

\* Every state is well typed; a client has a daemon of its own while it polls, ends or
\* reports on it, and a daemon has a configuration while its process lives (the handles
\* of ServiceManager and _serve).
THEOREM TypeCorrect == Spec => []TypeOK
<1>1. Service /\ Lingering => TypeOK
  BY DEF Service, Types, ClientTypes, DaemonTypes, PathTypes, LuckTypes, TypeOK,
         Phases, Verdicts, Stages, Lingering
<1>2. Init => Lingering
  BY DEF Init, Lingering
<1>. QED
  BY <1>1, <1>2, LingeringKept, ServiceHolds, PTL DEF Spec

\* A daemon that serves is the one at the path of the service, however many clients start,
\* stop and restart it and whatever fails, unless a client stopped waiting for a daemon
\* (RpcServer.__init__, server_close and the start lock).
THEOREM ServiceIsReachable == Spec => []ServiceReachable
<1>1. Service => ServiceReachable
  BY DEF Service, Supervised, ServiceReachable
<1>. QED
  BY <1>1, ServiceHolds, PTL

\* Every early return and rollback of _serve and start takes the child and its socket
\* along, unless a process was killed, was slow or did not die.
THEOREM LeftoversAreExplained == Spec => []LeftoversExplained
<1>1. Service => LeftoversExplained
  <2>. SUFFICES ASSUME Service, NEW d \in Daemons, Leftover(d), Neat
                PROVE  FALSE
    BY DEF LeftoversExplained, Neat
  <2>1. Files(d) /\ Orderly /\ kid[d] \in {"none", "starting", "up"} /\ dpc[d] = "gone"
    BY DEF Service, Types, DaemonTypes, Leftover, Neat, Orderly
  <2>. QED
    BY <2>1 DEF Files, Leftover
<1>. QED
  BY <1>1, ServiceHolds, PTL

\* service.json is the configuration of the daemon that answers, whoever wrote it last
\* (_ensure_running_locked and _serve both do), unless a client stopped waiting for one.
THEOREM ConfigIsFollowed == Spec => []ConfigFollows
<1>1. Service => ConfigFollows
  BY DEF Service, Types, PathTypes, Supervised, ConfigFollows, Ready, Answering
<1>. QED
  BY <1>1, ServiceHolds, PTL

\* Only _await_stopped reports that a stop succeeded.
LEMMA StoppedWhenGone ==
  ASSUME Service, [Next]_vars, NEW c \in Clients, out[c] # "stopped", out'[c] = "stopped"
  PROVE  cpc[c] = "await" /\ Gone(c)
<1>. USE DEF Finish
<1>. out \in [Clients -> Verdicts]
  BY DEF Service, Types, ClientTypes
<1>1. ASSUME NEW b \in Clients, NEW r \in Commands, Call(b, r) PROVE FALSE
  BY <1>1 DEF Call
<1>2. ASSUME NEW b \in Clients, Client(b) PROVE b = c /\ AwaitStopped(c)
  <2>1. CASE GetsLock(b) \/ Survey(b) \/ Ask(b) \/ AskLost(b) \/ AwaitTimeout(b)
    BY <2>1 DEF GetsLock, Acquire, LockTimeout, Survey, Surveyed, Ask, AskLost, AwaitTimeout
  <2>2. CASE AwaitStopped(b)
    BY <2>2 DEF AwaitStopped
  <2>3. CASE ProbeStart(b) \/ LaunchFails(b) \/ \E d \in Daemons : Launch(b, d)
    BY <2>3 DEF ProbeStart, LaunchFails, LaunchFault, Launch
  <2>4. CASE PollReady(b) \/ PollDegraded(b) \/ PollTimeout(b)
    BY <2>4 DEF PollReady, PollDegraded, PollTimeout, Terminate
  <2>5. CASE PollExited(b) \/ TermWait(b) \/ Final(b)
    BY <2>5 DEF PollExited, TermWait, Ended, Final
  <2>. QED
    BY <1>2, <2>1, <2>2, <2>3, <2>4, <2>5 DEF Client, Supervises
<1>3. ASSUME NEW d \in Daemons, Daemon(d) PROVE FALSE
  <2>1. CASE Runs(d) \/ \E s \in BOOLEAN : Teardown(d, s)
    BY <2>1 DEF Runs, Boot, Prepare, ChildListens, WaitSocket, WaitFails, Commit, Open,
                Serve, CloseRpc, CheckPath, UnlinkPath, Teardown
  <2>2. ASSUME NEW q, NEW v \in {"completed", "failed"}, Reply(q, v) PROVE FALSE
    BY <2>2 DEF Reply
  <2>3. CASE Maintain(d)
    BY <2>2, <2>3 DEF Maintain, MaintainRefuses, MaintainTerminates
  <2>. QED
    BY <1>3, <2>1, <2>3 DEF Daemon
<1>4. CASE Misfortune
  <2>1. ASSUME NEW b \in Clients,
               SurveySlow(b) \/ GiveUp(b) \/ ProbeSlow(b) \/ TermKill(b) \/ Kill(b)
        PROVE  FALSE
    BY <2>1 DEF SurveySlow, Surveyed, GiveUp, ProbeSlow, TermKill, Kill
  <2>2. ~UNCHANGED clientVars
    OBVIOUS
  <2>. QED
    BY <1>4, <2>1, <2>2 DEF Misfortune, Crash, ChildDies, ForeignBinds, ForeignLeaves,
                             TimeWaitEnds
<1>5. CASE UNCHANGED vars
  BY <1>5 DEF vars
<1>. QED
  BY <1>1, <1>2, <1>3, <1>4, <1>5 DEF Next, AwaitStopped

\* A stop that reports success leaves no daemon that could serve, and no private socket
\* that would keep the next one from starting, unless a client stopped waiting, a daemon
\* crashed or a child was slow (_await_stopped and terminate_owned).
THEOREM StopsAreComplete == Spec => StopCompletes
<1>1. ASSUME Service, [Next]_vars, NEW c \in Clients,
             out[c] # "stopped", out'[c] = "stopped", basis[c] \in Daemons, ~Overlap
      PROVE  /\ \A d \in Daemons : dpc[d] \in {"gone", "teardown"}
             /\ priv = Nil \/ harm \cap {"crash", "slowstart"} # {}
  <2>1. cpc[c] = "await" /\ Gone(c) /\ lock = c
    BY <1>1, StoppedWhenGone DEF Service, Holding
  <2>2. rpc = Nil /\ Dead(basis[c])
    BY <1>1, <2>1 DEF Gone
  <2>3. ASSUME NEW d \in Daemons PROVE dpc[d] \in {"gone", "teardown"}
    BY <1>1, <2>1, <2>2 DEF Service, Types, DaemonTypes, Stages, Starting, Closing, Bound, Supervised, Overlap
  <2>4. ASSUME Orderly, priv # Nil PROVE FALSE
    BY <1>1, <2>1, <2>3, <2>4 DEF Service, Types, PathTypes, Files, Closing, Owned
  <2>. QED
    BY <1>1, <2>3, <2>4 DEF Orderly, Overlap
<1>2. Service /\ [Next]_vars => [\A c \in Clients :
        out[c] # "stopped" /\ out'[c] = "stopped" /\ basis[c] \in Daemons =>
          \/ Overlap
          \/ /\ \A d \in Daemons : dpc[d] \in {"gone", "teardown"}
             /\ priv = Nil \/ harm \cap {"crash", "slowstart"} # {}]_vars
  BY <1>1
<1>. QED
  BY <1>2, ServiceHolds, PTL DEF Spec, StopCompletes

-----------------------------------------------------------------------------
(* Why a launch fails.  The holder of the start lock is alone with the     *)
(* daemon it spawned: what an earlier one left has gone, or goes without   *)
(* touching what the new one needs.                                        *)

\* Nothing went wrong, but that another program may have taken a listener.
Calm == harm \subseteq {"foreign"}

Strangers == \A l \in Listeners : pub[l] = Outside => "foreign" \in harm

\* A daemon has no listener before it prepares and when it was asked to stop; one that
\* closes was asked to, or its client ends it.
Leaving(d) ==
  /\ d \in halted \/ dpc[d] \in {"boot", "prepare"} => \A l \in Listeners : pub[l] # d
  /\ ~Overlap /\ dpc[d] \in Closing => Owned(d) \/ d \in halted
  /\ Calm /\ d \in halted => dpc[d] \in Closing

\* The daemon of a client that polls comes up, or ended for a cause its client knows.
Underway(c) ==
  /\ dpc[own[c]] \in {"gone", "serving"} \cup Starting /\ own[c] \notin halted
  /\ dpc[own[c]] = "wait" => kid[own[c]] = IF priv = Nil THEN "starting" ELSE "up"
  /\ dpc[own[c]] = "gone" =>
       want[c].gen \in receipts \/ (config # Nil /\ config.listener # want[c].listener)

\* Nobody but another program keeps a listener from the daemon, or leaves a receipt.
Launched(c) ==
  /\ cpc[c] \in {"poll", "term"} /\ ~Overlap =>
       /\ pub[want[c].listener] \in {own[c], Outside, Nil}
       /\ want[c].gen \in receipts => "foreign" \in harm
  /\ cpc[c] = "poll" /\ Calm => Underway(c)

Launches ==
  /\ Strangers
  /\ \A d \in Daemons : Leaving(d)
  /\ \A c \in Clients : Launched(c)

\* What Calm excludes.
LEMMA CalmFacts ==
  /\ Calm => ~Overlap /\ Orderly /\ Neat
  /\ harm \subseteq harm' => (Calm' => Calm) /\ (Overlap => Overlap')
BY DEF Calm, Overlap, Orderly, Neat

\* A client with a daemon of its own holds the lock, and no other daemon starts or serves.
LEMMA Alone ==
  ASSUME Service, NEW c \in Clients, cpc[c] \in {"poll", "term"}
  PROVE  /\ lock = c /\ own[c] \in Daemons /\ want[c] \in Configs
         /\ \A b \in Clients \ {c} : cpc[b] \in {"idle", "lock"}
         /\ dpc[own[c]] # "gone" => dcfg[own[c]] = want[c]
         /\ ~Overlap => \A d \in Daemons \ {own[c]} :
              /\ dpc[d] \in {"gone", "serving", "teardown"}
              /\ dpc[d] = "serving" => d \in halted
<1>1. lock = c /\ \A b \in Clients \ {c} : cpc[b] \in {"idle", "lock"}
  BY DEF Service, Holding
<1>2. /\ own[c] \in Daemons /\ want[c] \in Configs
      /\ dpc[own[c]] # "gone" => dcfg[own[c]] = want[c]
  BY DEF Service, Types, ClientTypes, Clientele
<1>3. ASSUME ~Overlap, NEW d \in Daemons \ {own[c]}
      PROVE  /\ dpc[d] \in {"gone", "serving", "teardown"}
             /\ dpc[d] = "serving" => d \in halted
  BY <1>1, <1>3 DEF Service, Types, DaemonTypes, Supervised, Overlap, Stages, Starting, Closing
<1>. QED
  BY <1>1, <1>2, <1>3

\* Unless something goes wrong the private socket is that of the daemon being launched.
LEMMA AloneInCalm ==
  ASSUME Service, Launches, Calm, NEW c \in Clients, cpc[c] = "poll"
  PROVE  /\ \A d \in Daemons \ {own[c]} : dpc[d] \in {"gone", "teardown"}
         /\ priv \in {Nil, own[c]}
<1>1. ASSUME NEW d \in Daemons \ {own[c]} PROVE dpc[d] \in {"gone", "teardown"}
  BY CalmFacts, Alone DEF Launches, Leaving, Closing
<1>2. ASSUME NEW d \in Daemons \ {own[c]}, priv = d PROVE FALSE
  BY <1>1, <1>2, CalmFacts, Alone DEF Service, Files, Closing
<1>. QED
  BY <1>1, <1>2 DEF Service, Types, PathTypes

\* The steps of clients that leave daemons and paths alone.
LEMMA LaunchesUntouched ==
  ASSUME Launches, harm \subseteq harm',
         UNCHANGED <<dpc, halted, kid, pub, priv>>,
         UNCHANGED <<config, receipts>> \/ \A c \in Clients : cpc'[c] \notin {"poll", "term"},
         \A c \in Clients : cpc'[c] \in {"poll", "term"} =>
           cpc'[c] = cpc[c] /\ want'[c] = want[c] /\ own'[c] = own[c],
         \A d \in Daemons : ~Overlap' /\ Owned(d) /\ dpc[d] \in Closing =>
           Owned(d)' \/ d \in halted
  PROVE  Launches'
<1>1. Strangers'
  BY DEF Launches, Strangers
<1>2. ASSUME NEW d \in Daemons PROVE Leaving(d)'
  <2>1. Leaving(d)
    BY DEF Launches
  <2>. QED
    BY <2>1, CalmFacts DEF Leaving
<1>3. ASSUME NEW c \in Clients PROVE Launched(c)'
  <2>1. Launched(c)
    BY DEF Launches
  <2>. QED
    BY <2>1, CalmFacts DEF Launched, Underway
<1>. QED
  BY <1>1, <1>2, <1>3 DEF Launches

LEMMA CallLaunches ==
  ASSUME Service, Launches, NEW c \in Clients, NEW r \in Commands, Call(c, r)
  PROVE  Launches'
<1>1. \A b \in Clients : cpc'[b] \in {"poll", "term"} => cpc'[b] = cpc[b]
  BY DEF Call, Service, Types, ClientTypes
<1>2. \A d \in Daemons : Owned(d) => Owned(d)'
  BY DEF Call, Service, Types, ClientTypes, Holding
<1>. QED
  BY <1>1, <1>2, LaunchesUntouched DEF Call

\* A client that neither has a daemon nor gets one: nothing changes for the others.
LEMMA ApartLaunches ==
  ASSUME Service, Launches, NEW c \in Clients, cpc[c] \notin {"poll", "term"},
         NEW p \in Phases \ {"poll", "term"}, cpc' = [cpc EXCEPT ![c] = p],
         \A b \in Clients \ {c} : want'[b] = want[b] /\ own'[b] = own[b],
         lock \notin {Nil, c} => lock' = lock,
         UNCHANGED <<dpc, halted, kid, pub, priv, config, receipts>>, harm \subseteq harm'
  PROVE  Launches'
<1>1. \A b \in Clients : cpc'[b] \in {"poll", "term"} =>
        cpc'[b] = cpc[b] /\ want'[b] = want[b] /\ own'[b] = own[b]
  BY DEF Service, Types, ClientTypes
<1>2. \A d \in Daemons : Owned(d) => Owned(d)'
  BY DEF Service, Types, ClientTypes
<1>. QED
  BY <1>1, <1>2, LaunchesUntouched

LEMMA LockLaunches ==
  ASSUME Service, Launches, NEW c \in Clients, GetsLock(c)
  PROVE  Launches'
<1>1. CASE Acquire(c)
  BY <1>1, ApartLaunches DEF Acquire, Phases
<1>2. CASE LockTimeout(c)
  <2>1. \A b \in Clients \ {c} : want'[b] = want[b] /\ own'[b] = own[b]
    BY <1>2 DEF LockTimeout, Finish, Service, Types, ClientTypes
  <2>. QED
    BY <1>2, <2>1, ApartLaunches DEF LockTimeout, Finish, Phases
<1>. QED
  BY <1>1, <1>2 DEF GetsLock

\* What happens before and after a launch.
LEMMA AsksLaunches ==
  ASSUME Service, Launches, NEW c \in Clients,
         \/ Survey(c) \/ SurveySlow(c) \/ Ask(c) \/ AskLost(c) \/ GiveUp(c)
         \/ AwaitStopped(c) \/ AwaitTimeout(c)
         \/ ProbeStart(c) \/ ProbeSlow(c) \/ LaunchFails(c) \/ Final(c)
  PROVE  Launches'
<1>0. /\ cpc[c] \notin {"poll", "term"}
      /\ UNCHANGED <<dpc, halted, kid, pub, priv, config, receipts>>
  BY DEF Survey, SurveySlow, Ask, AskLost, GiveUp, AwaitStopped, AwaitTimeout,
         ProbeStart, ProbeSlow, LaunchFails, Final
<1>1. harm \subseteq harm'
  BY DEF Survey, SurveySlow, Ask, AskLost, GiveUp, AwaitStopped, AwaitTimeout,
         ProbeStart, ProbeSlow, LaunchFails, Final, Mishap, Expires
<1>2. /\ \A b \in Clients \ {c} : want'[b] = want[b] /\ own'[b] = own[b]
      /\ lock \notin {Nil, c} => lock' = lock
  <2>1. CASE Survey(c) \/ SurveySlow(c)
    BY <2>1 DEF Survey, SurveySlow, Surveyed, Finish, Service, Types, ClientTypes
  <2>2. CASE Ask(c) \/ AskLost(c) \/ GiveUp(c)
    BY <2>2 DEF Ask, AskLost, GiveUp, Finish, Service, Types, ClientTypes
  <2>3. CASE AwaitStopped(c) \/ AwaitTimeout(c)
    BY <2>3 DEF AwaitStopped, AwaitTimeout, Finish, Service, Types, ClientTypes
  <2>4. CASE ProbeStart(c) \/ ProbeSlow(c) \/ LaunchFails(c) \/ Final(c)
    BY <2>4 DEF ProbeStart, ProbeSlow, LaunchFails, Final, Finish, Service, Types, ClientTypes
  <2>. QED
    BY <2>1, <2>2, <2>3, <2>4
<1>3. \E p \in Phases \ {"poll", "term"} : cpc' = [cpc EXCEPT ![c] = p]
  <2>1. CASE Survey(c) \/ SurveySlow(c)
    BY <2>1 DEF Survey, SurveySlow, Surveyed, Finish, Phases
  <2>2. CASE Ask(c) \/ AskLost(c) \/ GiveUp(c)
    BY <2>2 DEF Ask, AskLost, GiveUp, Finish, Phases
  <2>3. CASE AwaitStopped(c) \/ AwaitTimeout(c)
    BY <2>3 DEF AwaitStopped, AwaitTimeout, Finish, Phases
  <2>4. CASE ProbeStart(c) \/ ProbeSlow(c) \/ LaunchFails(c) \/ Final(c)
    BY <2>4 DEF ProbeStart, ProbeSlow, LaunchFails, Final, Finish, Phases
  <2>. QED
    BY <2>1, <2>2, <2>3, <2>4
<1>. QED
  BY <1>0, <1>1, <1>2, <1>3, ApartLaunches

\* A client lets go of its daemon: it serves, or it is gone.
LEMMA EndsLaunches ==
  ASSUME Service, Launches, NEW c \in Clients, cpc[c] \in {"poll", "term"},
         NEW p \in Phases \ {"poll", "term"}, cpc' = [cpc EXCEPT ![c] = p],
         UNCHANGED <<dpc, halted, kid, pub, priv>>, harm \subseteq harm',
         dpc[own[c]] \notin Closing \/ Overlap'
  PROVE  Launches'
<1>1. \A b \in Clients : cpc'[b] \notin {"poll", "term"}
  BY Alone DEF Service, Types, ClientTypes
<1>2. \A d \in Daemons : ~Overlap' /\ dpc[d] \in Closing => ~Owned(d)
  BY Alone
<1>. QED
  BY <1>1, <1>2, LaunchesUntouched

LEMMA PollEndsLaunches ==
  ASSUME Service, Launches, NEW c \in Clients,
         \/ PollReady(c) /\ ~Terminate(c, "failed")
         \/ PollExited(c) \/ TermWait(c)
         \/ Kill(c)
  PROVE  Launches'
<1>1. CASE PollReady(c) /\ ~Terminate(c, "failed")
  <2>1. UNCHANGED <<dpc, halted, kid, pub, priv>> /\ harm' = harm
    BY <1>1 DEF PollReady
  <2>2. \E p \in Phases \ {"poll", "term"} : cpc' = [cpc EXCEPT ![c] = p]
    BY <1>1 DEF PollReady, Finish, Phases
  <2>3. rpc \in Daemons /\ dpc[rpc] = "serving" /\ rpc \notin halted
    BY <1>1 DEF PollReady, Ready, Answering, Service, Types, PathTypes
  <2>4. ~Overlap => rpc = own[c]
    BY <1>1, <2>3, Alone DEF PollReady
  <2>. QED
    BY <1>1, <2>1, <2>2, <2>3, <2>4, EndsLaunches DEF PollReady, Overlap, Closing
<1>2. CASE PollExited(c) \/ TermWait(c)
  <2>1. /\ UNCHANGED <<dpc, halted, kid, pub, priv>> /\ harm' = harm
        /\ cpc[c] \in {"poll", "term"} /\ dpc[own[c]] = "gone"
    BY <1>2 DEF PollExited, TermWait
  <2>2. cpc' = [cpc EXCEPT ![c] = "idle"]
    <3>1. PICK v : Finish(c, v)
      BY <1>2 DEF PollExited, TermWait, Ended
    <3>. QED
      BY <3>1 DEF Finish
  <2>. QED
    BY <2>1, <2>2, EndsLaunches DEF Phases, Closing
<1>3. CASE Kill(c)
  <2>1. /\ UNCHANGED <<dpc, halted, kid, pub, priv, config, receipts>> /\ Overlap'
        /\ harm \subseteq harm' /\ cpc' = [cpc EXCEPT ![c] = "idle"]
    BY <1>3 DEF Kill, Finish, Mishap, Overlap
  <2>2. CASE cpc[c] \in {"poll", "term"}
    BY <2>1, <2>2, EndsLaunches DEF Phases
  <2>3. CASE cpc[c] \notin {"poll", "term"}
    <3>1. /\ \A b \in Clients \ {c} : want'[b] = want[b] /\ own'[b] = own[b]
          /\ lock \notin {Nil, c} => lock' = lock
      BY <1>3 DEF Kill, Finish, Service, Types, ClientTypes
    <3>. QED
      BY <2>1, <2>3, <3>1, ApartLaunches DEF Phases
  <2>. QED
    BY <2>2, <2>3
<1>. QED
  BY <1>1, <1>2, <1>3

\* A launch finds the listener free and no receipt of the generation it uses.
LEMMA LaunchLaunches ==
  ASSUME Service, Launches, NEW c \in Clients, NEW d \in Daemons, Launch(c, d)
  PROVE  Launches'
<1>0. /\ Free(d) /\ lock = c /\ cpc' = [cpc EXCEPT ![c] = "poll"] /\ lock' = lock
      /\ \A b \in Clients \ {c} : cpc[b] \in {"idle", "lock"}
  BY FreeDaemon DEF Launch, Service, Holding
<1>1. Strangers'
  BY DEF Launches, Strangers, Launch
<1>2. ASSUME NEW e \in Daemons PROVE Leaving(e)'
  <2>1. /\ Leaving(e) /\ ~Owned(e) /\ d \notin halted
        /\ \A l \in Listeners : pub[l] # d
    BY <1>0 DEF Launches, Launch, Service, Unused, Free, Dead, Starting
  <2>2. /\ UNCHANGED <<halted, pub, harm>>
        /\ dpc' = [dpc EXCEPT ![d] = "boot"] /\ dpc \in [Daemons -> Stages]
    BY DEF Launch, Service, Types, DaemonTypes
  <2>. QED
    BY <2>1, <2>2 DEF Leaving, Overlap, Calm, Closing
<1>3. ASSUME NEW b \in Clients PROVE Launched(b)'
  <2>1. CASE b # c
    BY <1>0, <2>1 DEF Launched, Service, Types, ClientTypes
  <2>2. CASE b = c
    <3>1. /\ want'[c] = Chosen(c, d) /\ own'[c] = d /\ dpc'[d] = "boot"
          /\ d \notin halted /\ LaunchFault(c) = "none"
      BY <1>0 DEF Launch, Service, Types, ClientTypes, DaemonTypes, Unused, Free, Dead
    <3>2. Chosen(c, d).listener = Target(c) /\ pub[Target(c)] = Nil
      BY <3>1 DEF LaunchFault, Chosen, Reuses, Target
    <3>3. Chosen(c, d).gen \notin receipts
      BY <1>0, <3>1 DEF LaunchFault, Chosen, Free, Referenced
    <3>. QED
      BY <2>2, <3>1, <3>2, <3>3 DEF Launch, Launched, Underway, Starting
  <2>. QED
    BY <2>1, <2>2
<1>. QED
  BY <1>1, <1>2, <1>3 DEF Launches

\* A daemon that ends gives up its listener; Strangers and Leaving are kept anyhow.
LEMMA DiesLeaving ==
  ASSUME Service, Launches, NEW d \in Daemons, Die(d), harm \subseteq harm',
         \A e \in Daemons : Owned(e) => Owned(e)'
  PROVE  Strangers' /\ \A e \in Daemons : Leaving(e)'
<1>1. Strangers'
  BY DEF Launches, Strangers, Die
<1>2. ASSUME NEW e \in Daemons PROVE Leaving(e)'
  <2>1. Leaving(e)
    BY DEF Launches
  <2>. QED
    BY <2>1, CalmFacts DEF Leaving, Die, Service, Types, DaemonTypes, Closing
<1>. QED
  BY <1>1, <1>2

\* The wait of a client that gives its daemon up.
LEMMA TermLaunches ==
  ASSUME Service, Launches, NEW c \in Clients,
         \/ \E v \in {"failed", "timeout"} : Terminate(c, v) /\ UNCHANGED <<priv, receipts>>
                                             /\ harm \subseteq harm' /\ cpc[c] = "poll"
         \/ TermKill(c)
  PROVE  Launches'
<1>1. /\ Signal(own[c]) \/ Die(own[c])
      /\ cpc' = [cpc EXCEPT ![c] = "term"] /\ cpc[c] \in {"poll", "term"}
      /\ UNCHANGED <<want, own, lock, receipts>> /\ harm \subseteq harm'
  <2>1. CASE TermKill(c)
    BY <2>1 DEF TermKill, Mishap, Expires, Service, Types, ClientTypes
  <2>. QED
    BY <2>1 DEF Terminate
<1>2. lock = c /\ own[c] \in Daemons /\ \A e \in Daemons : Owned(e) => Owned(e)'
  BY <1>1, Alone DEF Service, Types, ClientTypes
<1>3. /\ pub' = pub \/ pub' = [l \in Listeners |-> IF pub[l] = own[c] THEN Nil ELSE pub[l]]
      /\ Strangers' /\ \A e \in Daemons : Leaving(e)'
  <2>1. CASE Die(own[c])
    BY <1>1, <1>2, <2>1, DiesLeaving DEF Die
  <2>2. CASE /\ UNCHANGED <<dpc, halted, pub>> \/ (dpc[own[c]] = "serving"
                     /\ dpc' = [dpc EXCEPT ![own[c]] = "stopping"] /\ UNCHANGED <<halted, pub>>)
    <3>1. Strangers'
      BY <1>1, <2>2 DEF Launches, Strangers
    <3>2. ASSUME NEW e \in Daemons PROVE Leaving(e)'
      <4>1. Leaving(e)
        BY DEF Launches
      <4>. QED
        BY <1>1, <1>2, <2>2, <4>1, CalmFacts DEF Leaving, Service, Types, DaemonTypes, Closing
    <3>. QED
      BY <2>2, <3>1, <3>2
  <2>. QED
    BY <1>1, <2>1, <2>2 DEF Signal
<1>4. ASSUME NEW b \in Clients PROVE Launched(b)'
  <2>1. CASE b # c
    BY <1>1, <2>1, Alone DEF Launched, Service, Types, ClientTypes
  <2>2. CASE b = c
    <3>1. want[c].listener \in Listeners /\ cpc'[c] = "term" /\ Launched(c)
      BY <1>1, Alone, ConfigFacts DEF Launches, Service, Types, ClientTypes
    <3>. QED
      BY <1>1, <1>2, <1>3, <2>2, <3>1, CalmFacts DEF Launched
  <2>. QED
    BY <2>1, <2>2
<1>. QED
  BY <1>3, <1>4 DEF Launches

-----------------------------------------------------------------------------

\* What holds of each client holds after a step of a daemon, whose own client may learn
\* from it that it ended.
LEMMA DaemonLaunches ==
  ASSUME Service, Launches, NEW d \in Daemons, UNCHANGED <<clientVars, lock>>,
         harm \subseteq harm',
         \A e \in Daemons \ {d} : dpc'[e] = dpc[e] /\ kid'[e] = kid[e],
         halted' \subseteq halted,
         \A l \in Listeners : pub'[l] \in {pub[l], Nil, Outside},
         Strangers', \A e \in Daemons : Leaving(e)',
         \A c \in Clients : cpc[c] \in {"poll", "term"} /\ ~Overlap' /\ want[c].gen \in receipts' =>
           want[c].gen \in receipts \/ "foreign" \in harm',
         \A c \in Clients : cpc[c] = "poll" /\ Calm' =>
           IF own[c] = d THEN Underway(c)'
           ELSE /\ UNCHANGED <<config, priv>> /\ receipts \subseteq receipts'
  PROVE  Launches'
<1>1. ASSUME NEW c \in Clients PROVE Launched(c)'
  <2>0. cpc' = cpc /\ own' = own /\ want' = want /\ Launched(c)
    BY DEF Launches
  <2>1. ASSUME cpc[c] \in {"poll", "term"}, ~Overlap'
        PROVE  /\ pub'[want[c].listener] \in {own[c], Outside, Nil}
               /\ want[c].gen \in receipts' => "foreign" \in harm'
    <3>1. want[c].listener \in Listeners /\ ~Overlap
      BY <2>1, Alone, ConfigFacts, CalmFacts
    <3>. QED
      BY <2>0, <2>1, <3>1 DEF Launched
  <2>2. ASSUME cpc[c] = "poll", Calm' PROVE Underway(c)'
    <3>1. CASE own[c] = d
      BY <2>2, <3>1
    <3>2. CASE own[c] # d
      <4>1. own[c] \in Daemons \ {d} /\ Underway(c)
        BY <2>0, <2>2, <3>2, Alone, CalmFacts DEF Launched
      <4>. QED
        BY <2>0, <2>2, <3>2, <4>1 DEF Underway
    <3>. QED
      BY <3>1, <3>2
  <2>. QED
    BY <2>0, <2>1, <2>2 DEF Launched
<1>. QED
  BY <1>1 DEF Launches

\* A daemon that ends.  If its client polls, it ended for a cause.
LEMMA DiesLaunches ==
  ASSUME Service, Launches, NEW d \in Daemons, Die(d), UNCHANGED <<clientVars, lock, config>>,
         harm \subseteq harm',
         \A e \in Daemons \ {d} : kid'[e] = kid[e],
         receipts' = receipts \/ (receipts' = receipts \cup {dcfg[d].gen} /\ dpc[d] = "prepare"
                                  /\ \E l \in Listeners : l = dcfg[d].listener /\ pub[l] # Nil),
         \A c \in Clients : cpc[c] = "poll" /\ Calm' =>
           IF own[c] = d
             THEN want[c].gen \in receipts' \/ (config # Nil /\ config.listener # want[c].listener)
             ELSE priv' = priv \/ (priv' = Nil /\ priv \in {Nil, sockid[d]})
  PROVE  Launches'
<1>1. Strangers' /\ \A e \in Daemons : Leaving(e)'
  BY DiesLeaving
<1>2. /\ \A e \in Daemons \ {d} : dpc'[e] = dpc[e]
      /\ dpc'[d] = "gone" /\ halted' = halted \ {d}
      /\ \A l \in Listeners : pub'[l] \in {pub[l], Nil}
  BY DEF Die, Service, Types, DaemonTypes
<1>3. ASSUME NEW c \in Clients, cpc[c] \in {"poll", "term"}, ~Overlap',
             want[c].gen \in receipts'
      PROVE  want[c].gen \in receipts \/ "foreign" \in harm'
  <2>1. CASE receipts' # receipts
    <3>1. /\ own[c] = d /\ dcfg[d] = want[c] /\ dpc[d] = "prepare"
          /\ pub[want[c].listener] # Nil /\ want[c].listener \in Listeners
      BY <1>3, <2>1, Alone, CalmFacts, ConfigFacts
    <3>2. pub[want[c].listener] = Outside
      BY <1>3, <3>1, CalmFacts DEF Launches, Launched, Leaving
    <3>. QED
      BY <3>1, <3>2 DEF Launches, Strangers
  <2>. QED
    BY <1>3, <2>1
<1>4. ASSUME NEW c \in Clients, cpc[c] = "poll", Calm'
      PROVE  IF own[c] = d THEN Underway(c)'
             ELSE /\ UNCHANGED <<config, priv>> /\ receipts \subseteq receipts'
  <2>1. CASE own[c] = d
    BY <1>2, <1>4, <2>1 DEF Underway
  <2>2. CASE own[c] # d
    <3>1. priv \in {Nil, own[c]} /\ Calm /\ sockid[d] \in {Nil, d} /\ own[c] # Nil
      BY <1>4, CalmFacts, Alone, AloneInCalm DEF Service, Files
    <3>. QED
      BY <1>4, <2>2, <3>1
  <2>. QED
    BY <2>1, <2>2
<1>. QED
  BY <1>1, <1>2, <1>3, <1>4, DaemonLaunches

\* A daemon that only moves on.
LEMMA MovesLeaving ==
  ASSUME Service, Launches, NEW d \in Daemons, UNCHANGED <<clientVars, lock, halted>>,
         harm \subseteq harm', NEW t \in Stages, dpc' = [dpc EXCEPT ![d] = t],
         pub' = pub, t \in {"boot", "prepare"} => dpc[d] = "boot",
         t \in Closing /\ ~Overlap => dpc[d] \in Closing \/ Owned(d),
         Calm /\ d \in halted => t \in Closing
  PROVE  Strangers' /\ \A e \in Daemons : Leaving(e)'
<1>1. Strangers'
  BY DEF Launches, Strangers
<1>2. ASSUME NEW e \in Daemons PROVE Leaving(e)'
  <2>1. Leaving(e) /\ dpc \in [Daemons -> Stages] /\ Owned(e)' = Owned(e)
    BY DEF Launches, Service, Types, DaemonTypes
  <2>2. CASE e = d
    BY <2>1, <2>2, CalmFacts DEF Leaving
  <2>3. CASE e # d
    BY <2>1, <2>3, CalmFacts DEF Leaving
  <2>. QED
    BY <2>2, <2>3
<1>. QED
  BY <1>1, <1>2

\* The daemon of a client that polls is the only one that starts.
LEMMA StartsAlone ==
  ASSUME Service, NEW c \in Clients, cpc[c] \in {"poll", "term"}, NEW d \in Daemons,
         dpc[d] \in Starting, ~Overlap
  PROVE  own[c] = d /\ dcfg[d] = want[c]
BY Alone DEF Starting

LEMMA BootLaunches ==
  ASSUME Service, Launches, NEW d \in Daemons, Boot(d)
  PROVE  Launches'
<1>0. /\ UNCHANGED <<clientVars, lock, config, kid, priv, receipts, harm>> /\ dpc[d] = "boot"
      /\ dpc \in [Daemons -> Stages]
  BY DEF Boot, Service, Types, DaemonTypes
<1>1. CASE Die(d) /\ config # Nil /\ config.listener # dcfg[d].listener
  <2>1. \A c \in Clients : cpc[c] = "poll" /\ own[c] = d => dcfg[d] = want[c]
    BY <1>0, Alone
  <2>. QED
    BY <1>0, <1>1, <2>1, DiesLaunches
<1>2. CASE Step(d, "boot", "prepare") /\ UNCHANGED pub
  <2>1. dpc' = [dpc EXCEPT ![d] = "prepare"] /\ halted' = halted /\ d \notin halted
    BY <1>0, <1>2 DEF Step, Service, Unused, Starting
  <2>2. Strangers' /\ \A e \in Daemons : Leaving(e)'
    BY <1>0, <1>2, <2>1, MovesLeaving DEF Stages, Starting, Closing
  <2>3. \A c \in Clients : cpc[c] = "poll" /\ own[c] = d => Underway(c)'
    BY <1>0, <2>1 DEF Underway, Starting
  <2>. QED
    BY <1>0, <1>2, <2>1, <2>2, <2>3, DaemonLaunches
<1>. QED
  BY <1>1, <1>2 DEF Boot

LEMMA PrepareLaunches ==
  ASSUME Service, Launches, NEW d \in Daemons, Prepare(d)
  PROVE  Launches'
<1>0. /\ UNCHANGED <<clientVars, lock, config, priv, harm>> /\ dpc[d] = "prepare"
      /\ dpc \in [Daemons -> Stages] /\ kid \in [Daemons -> {"none", "starting", "up"}]
  BY DEF Prepare, Service, Types, DaemonTypes
<1>1. CASE priv # Nil /\ Die(d) /\ UNCHANGED <<kid, receipts>>
  <2>1. \A c \in Clients : cpc[c] = "poll" /\ own[c] = d /\ Calm => FALSE
    BY <1>0, <1>1, AloneInCalm DEF Service, Unused
  <2>. QED
    BY <1>0, <1>1, <2>1, CalmFacts, DiesLaunches
<1>2. CASE pub[dcfg[d].listener] # Nil /\ Die(d)
           /\ receipts' = receipts \cup {dcfg[d].gen} /\ UNCHANGED kid
  <2>1. \A c \in Clients : cpc[c] = "poll" /\ own[c] = d => want[c].gen \in receipts'
    BY <1>0, <1>2, Alone
  <2>2. dcfg[d].listener \in Listeners
    BY <1>0, ConfigFacts DEF Service, Types, DaemonTypes
  <2>. QED
    BY <1>0, <1>2, <2>1, <2>2, DiesLaunches
<1>3. CASE /\ priv = Nil /\ Step(d, "prepare", "wait")
           /\ pub' = [pub EXCEPT ![dcfg[d].listener] = d]
           /\ kid' = [kid EXCEPT ![d] = "starting"] /\ UNCHANGED receipts
  <2>0. dcfg[d].listener \in Listeners /\ pub \in [Listeners -> Daemons \cup {Outside, Nil}]
    BY <1>0, ConfigFacts DEF Service, Types, DaemonTypes, PathTypes
  <2>1. dpc' = [dpc EXCEPT ![d] = "wait"] /\ halted' = halted /\ d \notin halted
    BY <1>0, <1>3 DEF Step, Service, Unused, Starting
  <2>2. Strangers' /\ \A e \in Daemons : Leaving(e)'
    <3>1. \A l \in Listeners : pub'[l] = pub[l] \/ (pub'[l] = d /\ d \notin halted)
      BY <1>3, <2>0, <2>1
    <3>2. Strangers'
      BY <1>0, <3>1 DEF Launches, Strangers
    <3>3. ASSUME NEW e \in Daemons PROVE Leaving(e)'
      <4>1. Leaving(e) /\ (Overlap' <=> Overlap) /\ (Calm' <=> Calm)
        BY <1>0 DEF Launches, Overlap, Calm
      <4>. QED
        BY <1>0, <2>1, <3>1, <4>1 DEF Leaving, Closing
    <3>. QED
      BY <3>2, <3>3
  <2>3. ASSUME NEW c \in Clients PROVE Launched(c)'
    <3>1. Launched(c) /\ (Overlap' <=> Overlap) /\ (Calm' => Calm /\ ~Overlap)
      BY <1>0, CalmFacts DEF Launches, Overlap, Calm
    <3>2. ASSUME cpc[c] \in {"poll", "term"}, ~Overlap PROVE own[c] = d /\ dcfg[d] = want[c]
      BY <1>0, <3>2, StartsAlone DEF Starting
    <3>3. CASE cpc[c] \in {"poll", "term"} /\ ~Overlap
      <4>1. /\ own[c] = d /\ dcfg[d] = want[c] /\ pub'[want[c].listener] = d
            /\ want[c].gen \in receipts => "foreign" \in harm
        BY <1>3, <2>0, <3>1, <3>2, <3>3 DEF Launched
      <4>2. Underway(c)'
        BY <1>0, <1>3, <2>1, <4>1 DEF Underway, Starting
      <4>. QED
        BY <1>0, <1>3, <4>1, <4>2 DEF Launched
    <3>4. CASE cpc[c] \notin {"poll", "term"} \/ Overlap
      BY <1>0, <3>1, <3>4 DEF Launched
    <3>. QED
      BY <3>3, <3>4
  <2>. QED
    BY <2>2, <2>3 DEF Launches
<1>. QED
  BY <1>1, <1>2, <1>3 DEF Prepare

LEMMA ChildListensLaunches ==
  ASSUME Service, Launches, NEW d \in Daemons, ChildListens(d)
  PROVE  Launches'
<1>0. /\ UNCHANGED <<clientVars, lock, config, dpc, halted, pub, receipts, harm>>
      /\ kid[d] = "starting" /\ kid \in [Daemons -> {"none", "starting", "up"}]
      /\ kid' = [kid EXCEPT ![d] = IF priv = Nil THEN "up" ELSE "none"]
      /\ priv' = IF priv = Nil THEN d ELSE priv
  BY DEF ChildListens, Service, Types, DaemonTypes
<1>1. Strangers' /\ \A e \in Daemons : Leaving(e)'
  BY <1>0 DEF Launches, Strangers, Leaving, Overlap, Calm
<1>2. ASSUME NEW c \in Clients, cpc[c] = "poll", Calm'
      PROVE  own[c] = d /\ Underway(c)'
  <2>1. Calm /\ dpc[d] = "wait" /\ own[c] = d
    BY <1>0, <1>2, CalmFacts, StartsAlone DEF Service, Files, Starting
  <2>2. Underway(c)
    BY <1>2, <2>1 DEF Launches, Launched
  <2>. QED
    BY <1>0, <2>1, <2>2 DEF Underway
<1>. QED
  BY <1>0, <1>1, <1>2, DaemonLaunches

LEMMA WaitLaunches ==
  ASSUME Service, Launches, NEW d \in Daemons, WaitSocket(d) \/ WaitFails(d)
  PROVE  Launches'
<1>0. /\ UNCHANGED <<clientVars, lock, config, receipts>> /\ dpc[d] = "wait"
      /\ harm \subseteq harm' /\ (kid[d] # "none" /\ WaitFails(d) => ~Calm')
      /\ dpc \in [Daemons -> Stages] /\ kid \in [Daemons -> {"none", "starting", "up"}]
      /\ d \notin halted
  <2>1. /\ UNCHANGED <<clientVars, lock, config, receipts>> /\ dpc[d] = "wait"
        /\ WaitSocket(d) \/ kid[d] = "none" => harm' = harm
        /\ kid[d] # "none" /\ WaitFails(d) => harm' = harm \cup {"slowstart"}
    BY DEF WaitSocket, WaitFails, Mishap
  <2>2. /\ dpc \in [Daemons -> Stages] /\ kid \in [Daemons -> {"none", "starting", "up"}]
        /\ d \notin halted
    BY <2>1 DEF Service, Types, DaemonTypes, Unused, Starting
  <2>. QED
    BY <2>1, <2>2 DEF Calm
<1>1. ASSUME NEW c \in Clients, cpc[c] = "poll", Calm', own[c] = d
      PROVE  kid[d] = (IF priv = Nil THEN "starting" ELSE "up") /\ priv \in {Nil, d}
  BY <1>0, <1>1, CalmFacts, AloneInCalm DEF Launches, Launched, Underway
<1>2. CASE dpc' = [dpc EXCEPT ![d] = "commit"] /\ UNCHANGED <<halted, kid, pub, priv, harm>>
  <2>1. Strangers' /\ \A e \in Daemons : Leaving(e)'
    BY <1>0, <1>2, MovesLeaving DEF Stages, Starting, Closing
  <2>2. \A c \in Clients : cpc[c] = "poll" /\ own[c] = d => Underway(c)'
    BY <1>0, <1>2 DEF Underway, Starting
  <2>. QED
    BY <1>0, <1>2, <2>1, <2>2, DaemonLaunches
<1>3. ASSUME NEW i, Rollback(d, i), WaitFails(d) \/ priv # Nil,
             ~(priv # Nil /\ kid[priv] = "up" /\ kid[d] # "none")
      PROVE  Launches'
  <2>1. Die(d) /\ kid' = [kid EXCEPT ![d] = "none"]
    BY <1>3 DEF Rollback, Torn
  <2>2. \A c \in Clients : cpc[c] = "poll" => ~Calm'
    <3>. SUFFICES ASSUME NEW c \in Clients, cpc[c] = "poll", Calm' PROVE FALSE
      OBVIOUS
    <3>1. own[c] = d
      BY <1>0, CalmFacts, StartsAlone DEF Starting
    <3>2. kid[d] = (IF priv = Nil THEN "starting" ELSE "up") /\ priv \in {Nil, d}
      BY <1>1, <3>1
    <3>. QED
      BY <1>0, <1>3, <3>2
  <2>. QED
    BY <1>0, <2>1, <2>2, DiesLaunches
<1>4. CASE WaitSocket(d)
  <2>1. CASE kid[priv] = "up" /\ kid[d] # "none"
    BY <1>2, <1>4, <2>1 DEF WaitSocket
  <2>2. CASE ~(kid[priv] = "up" /\ kid[d] # "none")
    BY <1>3, <1>4, <2>2 DEF WaitSocket
  <2>. QED
    BY <2>1, <2>2
<1>5. CASE WaitFails(d)
  BY <1>3, <1>5 DEF WaitFails
<1>. QED
  BY <1>4, <1>5

LEMMA OpensLaunches ==
  ASSUME Service, Launches, NEW d \in Daemons, Commit(d) \/ Open(d) \/ Serve(d)
  PROVE  Launches'
<1>0. /\ UNCHANGED <<clientVars, lock, halted, kid, pub, priv, receipts, harm>>
      /\ dpc[d] \in Starting /\ dpc \in [Daemons -> Stages] /\ d \notin halted
  BY DEF Commit, Open, Serve, Step, Service, Types, DaemonTypes, Unused, Starting
<1>1. PICK t \in {"open", "bound", "serving", "teardown"} : dpc' = [dpc EXCEPT ![d] = t]
  BY DEF Commit, Open, Serve, Step
<1>2. Strangers' /\ \A e \in Daemons : Leaving(e)'
  <2>1. ~Overlap => Owned(d)
    BY <1>0 DEF Service, Supervised, Overlap
  <2>. QED
    BY <1>0, <1>1, <2>1, MovesLeaving DEF Stages, Starting, Closing
<1>3. ASSUME NEW c \in Clients, cpc[c] = "poll", Calm'
      PROVE  own[c] = d /\ t # "teardown"
  <2>1. Calm /\ ~Overlap /\ own[c] = d
    BY <1>0, <1>3, CalmFacts, StartsAlone
  <2>2. CASE Open(d)
    <3>1. ~(rpc # Nil /\ Accepting(rpc))
      BY <1>3, <2>1, <2>2, AloneInCalm DEF Open, Step, Service, Types, PathTypes
    <3>. QED
      BY <1>1, <2>1, <2>2, <3>1 DEF Open, Step, Service, Types, DaemonTypes
  <2>3. CASE Commit(d) \/ Serve(d)
    BY <1>0, <1>1, <2>1, <2>3 DEF Commit, Serve, Step
  <2>. QED
    BY <2>2, <2>3
<1>4. \A c \in Clients : cpc[c] = "poll" /\ Calm' => own[c] = d /\ Underway(c)'
  BY <1>0, <1>1, <1>3 DEF Underway, Starting
<1>. QED
  BY <1>0, <1>1, <1>2, <1>4, DaemonLaunches

\* The daemon that closes is not that of a client that polls.
LEMMA ClosesLaunches ==
  ASSUME Service, Launches, NEW d \in Daemons, CloseRpc(d) \/ CheckPath(d) \/ UnlinkPath(d)
  PROVE  Launches'
<1>0. /\ UNCHANGED <<clientVars, lock, halted, kid, config, pub, priv, receipts, harm>>
      /\ dpc[d] \in Closing \ {"teardown"} /\ dpc \in [Daemons -> Stages]
  BY DEF CloseRpc, CheckPath, UnlinkPath, Step, Service, Types, DaemonTypes, Closing
<1>1. PICK t \in Closing : dpc' = [dpc EXCEPT ![d] = t]
  BY DEF CloseRpc, CheckPath, UnlinkPath, Step, Closing
<1>2. Strangers' /\ \A e \in Daemons : Leaving(e)'
  BY <1>0, <1>1, MovesLeaving DEF Stages, Closing
<1>3. \A c \in Clients : cpc[c] = "poll" /\ Calm => own[c] # d
  BY <1>0 DEF Launches, Launched, Underway, Starting, Closing
<1>. QED
  BY <1>0, <1>1, <1>2, <1>3, CalmFacts, DaemonLaunches

LEMMA RunsLaunches ==
  ASSUME Service, Launches, NEW d \in Daemons, Runs(d)
  PROVE  Launches'
BY BootLaunches, PrepareLaunches, ChildListensLaunches, WaitLaunches, OpensLaunches,
   ClosesLaunches DEF Runs

\* A request is answered: its client had asked and has no daemon, nor has anybody else.
LEMMA RefusesLaunches ==
  ASSUME Service, Launches, NEW d \in Daemons, NEW q \in inbox[d], MaintainRefuses(d, q)
  PROVE  Launches'
<1>0. UNCHANGED <<dpc, halted, kid, config, pub, priv, receipts, harm>> /\ Reply(q, "failed")
  BY DEF MaintainRefuses
<1>1. CASE q.from = Nil
  BY <1>0, <1>1, LaunchesUntouched DEF Reply
<1>2. CASE q.from # Nil
  <2>1. q.from \in Clients /\ cpc[q.from] = "asked"
    BY <1>2, RequestFacts DEF Service, Types, DaemonTypes, Asking
  <2>2. Finish(q.from, "failed")
    BY <1>0, <1>2 DEF Reply
  <2>3. \A b \in Clients \ {q.from} : want'[b] = want[b] /\ own'[b] = own[b]
    BY <2>2 DEF Finish, Service, Types, ClientTypes
  <2>. QED
    BY <1>0, <2>1, <2>2, <2>3, ApartLaunches DEF Finish, Phases
<1>. QED
  BY <1>1, <1>2

LEMMA TerminatesLaunches ==
  ASSUME Service, Launches, NEW d \in Daemons, NEW q \in inbox[d], NEW s \in BOOLEAN,
         MaintainTerminates(d, q, s)
  PROVE  Launches'
<1>0. /\ harm \subseteq harm' /\ (s => ~Calm') /\ dpc[d] = "serving"
      /\ halted' = halted \cup {d} /\ dpc \in [Daemons -> Stages]
      /\ pub' = [l \in Listeners |-> IF pub[l] = d THEN Nil ELSE pub[l]]
  <2>1. /\ halted' = halted \cup {d}
        /\ pub' = [l \in Listeners |-> IF pub[l] = d THEN Nil ELSE pub[l]]
    BY DEF MaintainTerminates
  <2>2. harm \subseteq harm' /\ (s => ~Calm') /\ dpc[d] = "serving"
    BY DEF MaintainTerminates, MayTerminate, Mishap, Calm
  <2>. QED
    BY <2>1, <2>2 DEF Service, Types, DaemonTypes
<1>1. dpc' = [dpc EXCEPT ![d] = IF ~s /\ priv \in {Nil, sockid[d]} THEN "stopping" ELSE @]
  BY DEF MaintainTerminates
<1>2. ASSUME ~Overlap'
      PROVE  \A b \in Clients : cpc[b] \notin {"poll", "term"} /\ cpc'[b] \notin {"poll", "term"}
  <2>1. q.from \in Clients /\ cpc[q.from] = "asked"
    BY <1>0, <1>2, CalmFacts, RequestFacts DEF Service, Types, DaemonTypes, Asking
  <2>2. \A b \in Clients : cpc[b] \notin {"poll", "term"}
    BY <2>1 DEF Service, Holding
  <2>3. \E p \in {"await", "idle"} : cpc' = [cpc EXCEPT ![q.from] = p]
    BY <2>1 DEF MaintainTerminates, Reply, Finish
  <2>. QED
    BY <2>1, <2>2, <2>3 DEF Service, Types, ClientTypes
<1>3. Strangers'
  BY <1>0 DEF Launches, Strangers
<1>4. ASSUME NEW e \in Daemons PROVE Leaving(e)'
  <2>1. Leaving(e) /\ Leaving(d)
    BY DEF Launches
  <2>2. ~Overlap' => ~Owned(e)
    BY <1>2 DEF Service, Types, ClientTypes
  <2>3. Calm' => dpc'[d] = "stopping"
    <3>. SUFFICES ASSUME Calm' PROVE ~s /\ priv \in {Nil, sockid[d]}
      BY <1>0, <1>1
    <3>1. d \notin halted
      BY <1>0, <2>1, CalmFacts DEF Leaving, Closing
    <3>. QED
      BY <1>0, <3>1, CalmFacts DEF Service, Files, Closing
  <2>4. CASE e = d
    BY <1>0, <2>3, <2>4 DEF Leaving, Closing
  <2>5. CASE e # d
    BY <1>0, <1>1, <2>1, <2>2, <2>5, CalmFacts DEF Leaving
  <2>. QED
    BY <2>4, <2>5
<1>5. ASSUME NEW c \in Clients PROVE Launched(c)'
  BY <1>2, CalmFacts DEF Launched, Calm, Overlap
<1>. QED
  BY <1>3, <1>4, <1>5 DEF Launches

LEMMA TeardownLaunches ==
  ASSUME Service, Launches, NEW d \in Daemons, NEW s \in BOOLEAN, Teardown(d, s) \/ Crash(d)
  PROVE  Launches'
<1>0. /\ Die(d) /\ UNCHANGED <<clientVars, lock, config, receipts>> /\ harm \subseteq harm'
      /\ kid' = kid \/ kid' = [kid EXCEPT ![d] = "none"]
      /\ Crash(d) => ~Calm'
      /\ Teardown(d, s) => dpc[d] = "teardown" /\ priv' = IF priv = sockid[d] THEN Nil ELSE priv
  BY DEF Teardown, Crash, Mishap, Torn, Calm
<1>1. \A e \in Daemons \ {d} : kid'[e] = kid[e]
  BY <1>0 DEF Service, Types, DaemonTypes
<1>2. ASSUME NEW c \in Clients, cpc[c] = "poll", Calm'
      PROVE  own[c] # d /\ (priv' = priv \/ (priv' = Nil /\ priv \in {Nil, sockid[d]}))
  <2>1. Underway(c) /\ dpc[d] = "teardown"
    BY <1>0, <1>2, CalmFacts DEF Launches, Launched
  <2>. QED
    BY <1>0, <1>2, <2>1 DEF Underway, Starting
<1>. QED
  BY <1>0, <1>1, <1>2, DiesLaunches

LEMMA MisfortuneLaunches ==
  ASSUME Service, Launches, Misfortune
  PROVE  Launches'
<1>1. ASSUME NEW c \in Clients,
             SurveySlow(c) \/ GiveUp(c) \/ ProbeSlow(c) \/ TermKill(c) \/ Kill(c)
      PROVE  Launches'
  BY <1>1, AsksLaunches, TermLaunches, PollEndsLaunches
<1>2. ASSUME NEW d \in Daemons, Crash(d) PROVE Launches'
  BY <1>2, TeardownLaunches
<1>3. ASSUME NEW d \in Daemons, ChildDies(d) PROVE Launches'
  <2>0. /\ UNCHANGED <<clientVars, dpc, halted, lock, config, pub, priv, receipts>>
        /\ harm \subseteq harm' /\ ~Calm'
    BY <1>3 DEF ChildDies, Mishap, Calm
  <2>1. Strangers' /\ \A e \in Daemons : Leaving(e)'
    BY <2>0, CalmFacts DEF Launches, Strangers, Leaving
  <2>2. ASSUME NEW c \in Clients PROVE Launched(c)'
    BY <2>0, CalmFacts DEF Launches, Launched
  <2>. QED
    BY <2>1, <2>2 DEF Launches
<1>4. ASSUME NEW l \in Listeners, ForeignBinds(l) \/ ForeignLeaves(l) PROVE Launches'
  <2>0. /\ UNCHANGED <<clientVars, dpc, halted, kid, lock, config, priv, receipts>>
        /\ harm \subseteq harm'
        /\ \/ pub' = [pub EXCEPT ![l] = Outside] /\ "foreign" \in harm'
           \/ pub' = [pub EXCEPT ![l] = Nil]
        /\ pub \in [Listeners -> Daemons \cup {Outside, Nil}]
    BY <1>4 DEF ForeignBinds, ForeignLeaves, Mishap, Service, Types, PathTypes
  <2>1. \A k \in Listeners : pub'[k] \in {pub[k], Nil} \/ (pub'[k] = Outside /\ "foreign" \in harm')
    BY <2>0
  <2>2. Strangers'
    BY <2>0, <2>1 DEF Launches, Strangers
  <2>3. ASSUME NEW e \in Daemons PROVE Leaving(e)'
    BY <2>0, <2>1, CalmFacts DEF Launches, Leaving
  <2>4. ASSUME NEW c \in Clients PROVE Launched(c)'
    <3>1. Launched(c) /\ (Calm' => Calm) /\ (Overlap => Overlap')
      BY <2>0, CalmFacts DEF Launches
    <3>2. cpc[c] \in {"poll", "term"} => want[c].listener \in Listeners
      BY Alone, ConfigFacts
    <3>. QED
      BY <2>0, <2>1, <3>1, <3>2 DEF Launched, Underway
  <2>. QED
    BY <2>2, <2>3, <2>4 DEF Launches
<1>5. ASSUME NEW l \in Listeners, TimeWaitEnds(l) PROVE Launches'
  BY <1>5, LaunchesUntouched DEF TimeWaitEnds, Owned
<1>. QED
  BY <1>1, <1>2, <1>3, <1>4, <1>5 DEF Misfortune

LEMMA LaunchesKept == Service /\ Launches /\ [Next]_vars => Launches'
<1>. SUFFICES ASSUME Service, Launches, [Next]_vars PROVE Launches'
  OBVIOUS
<1>1. ASSUME NEW c \in Clients, NEW r \in Commands, Call(c, r) PROVE Launches'
  BY <1>1, CallLaunches
<1>2. ASSUME NEW c \in Clients, Client(c) PROVE Launches'
  <2>1. CASE \/ Survey(c) \/ Ask(c) \/ AskLost(c) \/ AwaitStopped(c) \/ AwaitTimeout(c)
             \/ ProbeStart(c) \/ LaunchFails(c) \/ Final(c)
    BY <2>1, AsksLaunches
  <2>2. ASSUME NEW d \in Daemons, Launch(c, d) PROVE Launches'
    BY <2>2, LaunchLaunches
  <2>3. CASE (PollReady(c) /\ ~Terminate(c, "failed")) \/ PollExited(c) \/ TermWait(c)
    BY <2>3, PollEndsLaunches
  <2>4. CASE (PollReady(c) /\ Terminate(c, "failed")) \/ PollDegraded(c) \/ PollTimeout(c)
    <3>1. /\ \E v \in {"failed", "timeout"} : Terminate(c, v)
          /\ UNCHANGED <<priv, receipts>> /\ harm \subseteq harm' /\ cpc[c] = "poll"
      BY <2>4 DEF PollReady, PollDegraded, PollTimeout, Mishap
    <3>. QED
      BY <3>1, TermLaunches
  <2>. QED
    BY <1>2, <2>1, <2>2, <2>3, <2>4, LockLaunches DEF Client, Supervises
<1>3. ASSUME NEW d \in Daemons, Daemon(d) PROVE Launches'
  <2>1. CASE Runs(d)
    BY <2>1, RunsLaunches
  <2>2. CASE Maintain(d)
    BY <2>2, RefusesLaunches, TerminatesLaunches DEF Maintain
  <2>3. ASSUME NEW s \in BOOLEAN, Teardown(d, s) PROVE Launches'
    BY <2>3, TeardownLaunches
  <2>. QED
    BY <1>3, <2>1, <2>2, <2>3 DEF Daemon
<1>4. CASE Misfortune
  BY <1>4, MisfortuneLaunches
<1>5. CASE UNCHANGED vars
  BY <1>5, LaunchesUntouched DEF vars
<1>. QED
  BY <1>1, <1>2, <1>3, <1>4, <1>5 DEF Next

LEMMA InitLaunches == Init => Launches
<1>. SUFFICES ASSUME Init PROVE Launches
  OBVIOUS
<1>1. Strangers
  BY DEF Init, Strangers
<1>2. ASSUME NEW d \in Daemons PROVE Leaving(d)
  BY DEF Init, Leaving, Closing
<1>3. ASSUME NEW c \in Clients PROVE Launched(c)
  BY DEF Init, Launched
<1>. QED
  BY <1>1, <1>2, <1>3 DEF Launches

\* A daemon that comes up is ready when it serves: the deadline is not reached.
LEMMA NeverLate ==
  ASSUME Service, Launches, NEW c \in Clients, PollTimeout(c), Calm'
  PROVE  FALSE
<1>1. cpc[c] = "poll" /\ Stopped /\ dpc[own[c]] = "serving" /\ Calm
  BY DEF PollTimeout, Mishap, Calm
<1>2. own[c] \in Daemons /\ own[c] \notin halted /\ rpc = own[c]
  BY <1>1, CalmFacts, Alone DEF Launches, Launched, Underway, Service, Supervised
<1>. QED
  BY <1>1, <1>2 DEF Stopped, Ready, Degraded, Answering

Failures == {"exited", "timeout", "in_use"}

\* How a command comes to one of these verdicts.
LEMMA FailsWhile ==
  ASSUME Service, [Next]_vars, NEW c \in Clients, out'[c] # out[c], out'[c] \in Failures
  PROVE  \/ LaunchFails(c) /\ out'[c] = "in_use" /\ ~Bindable(Target(c)) /\ harm' = harm
         \/ PollTimeout(c) /\ out'[c] = "timeout"
         \/ /\ cpc[c] \in {"poll", "term"} /\ dpc[own[c]] = "gone" /\ harm' = harm
            /\ IF want[c].gen \in receipts \/ ~Bindable(want[c].listener)
                 THEN out'[c] = "in_use"
                 ELSE cpc[c] = "poll" /\ out'[c] = "exited"
<1>. USE DEF Finish
<1>0. out \in [Clients -> Verdicts] /\ Failures \cap {"none", "done", "stopped", "failed"} = {}
  BY DEF Service, Types, ClientTypes, Failures
<1>1. ASSUME NEW b \in Clients, NEW r \in Commands, Call(b, r) PROVE FALSE
  BY <1>0, <1>1 DEF Call
<1>2. ASSUME NEW b \in Clients, Client(b)
      PROVE  b = c /\ (LaunchFails(c) \/ PollTimeout(c) \/ PollExited(c) \/ TermWait(c))
  <2>1. CASE GetsLock(b) \/ Survey(b) \/ Ask(b) \/ AskLost(b)
    BY <1>0, <2>1 DEF GetsLock, Acquire, LockTimeout, Survey, Surveyed, Ask, AskLost
  <2>2. CASE AwaitStopped(b) \/ AwaitTimeout(b)
    BY <1>0, <2>2 DEF AwaitStopped, AwaitTimeout
  <2>3. CASE ProbeStart(b) \/ Final(b) \/ \E d \in Daemons : Launch(b, d)
    BY <1>0, <2>3 DEF ProbeStart, Final, Launch
  <2>4. CASE PollReady(b) \/ PollDegraded(b)
    BY <1>0, <2>4 DEF PollReady, PollDegraded, Terminate
  <2>5. CASE LaunchFails(b) \/ PollTimeout(b)
    BY <1>0, <2>5 DEF LaunchFails, PollTimeout, Terminate
  <2>6. CASE PollExited(b) \/ TermWait(b)
    BY <1>0, <2>6 DEF PollExited, TermWait, Ended
  <2>. QED
    BY <1>2, <2>1, <2>2, <2>3, <2>4, <2>5, <2>6 DEF Client, Supervises
<1>3. ASSUME NEW d \in Daemons, Daemon(d) PROVE FALSE
  <2>1. CASE Runs(d) \/ \E s \in BOOLEAN : Teardown(d, s)
    BY <2>1 DEF Runs, Boot, Prepare, ChildListens, WaitSocket, WaitFails, Commit, Open,
                Serve, CloseRpc, CheckPath, UnlinkPath, Teardown
  <2>2. ASSUME NEW q, NEW v \in {"completed", "failed"}, Reply(q, v) PROVE FALSE
    BY <1>0, <2>2 DEF Reply
  <2>3. CASE Maintain(d)
    BY <2>2, <2>3 DEF Maintain, MaintainRefuses, MaintainTerminates
  <2>. QED
    BY <1>3, <2>1, <2>3 DEF Daemon
<1>4. CASE Misfortune
  <2>1. ASSUME NEW b \in Clients,
               SurveySlow(b) \/ GiveUp(b) \/ ProbeSlow(b) \/ TermKill(b) \/ Kill(b)
        PROVE  FALSE
    BY <1>0, <2>1 DEF SurveySlow, Surveyed, GiveUp, ProbeSlow, TermKill, Kill
  <2>2. ~UNCHANGED clientVars
    OBVIOUS
  <2>. QED
    BY <1>4, <2>1, <2>2 DEF Misfortune, Crash, ChildDies, ForeignBinds, ForeignLeaves,
                             TimeWaitEnds
<1>5. CASE LaunchFails(c)
  BY <1>0, <1>5 DEF LaunchFails, LaunchFault, Failures
<1>6. CASE PollTimeout(c)
  BY <1>0, <1>6 DEF PollTimeout, Terminate
<1>7. CASE PollExited(c)
  BY <1>0, <1>7 DEF PollExited, Ended
<1>8. CASE TermWait(c)
  BY <1>0, <1>8 DEF TermWait, Ended
<1>9. CASE UNCHANGED vars
  BY <1>9 DEF vars
<1>. QED
  BY <1>1, <1>2, <1>3, <1>4, <1>5, <1>6, <1>7, <1>8, <1>9 DEF Next

\* While a client launches, nothing of ours is on the listener it wants.
LEMMA FreeListener ==
  ASSUME Service, Launches, NEW c \in Clients, cpc[c] = "launch", ~Overlap,
         NEW l \in Listeners, pub[l] # Nil
  PROVE  "foreign" \in harm
<1>1. lock = c
  BY DEF Service, Holding
<1>2. ASSUME NEW d \in Daemons, pub[l] = d PROVE FALSE
  <2>1. dpc[d] # "gone" /\ d \notin halted
    BY <1>2 DEF Service, Unused, Launches, Leaving
  <2>2. own[c] = Nil
    BY DEF Service, Types, ClientTypes
  <2>3. dpc[d] \notin Starting \cup Closing
    BY <1>1, <2>1 DEF Service, Supervised, Overlap, Launches, Leaving
  <2>. QED
    BY <1>1, <2>1, <2>2, <2>3 DEF Service, Types, DaemonTypes, Stages, Supervised
<1>. QED
  BY <1>2 DEF Launches, Strangers, Service, Types, PathTypes

\* A launch fails, by an exit or by the deadline, only when something went wrong or the
\* listener is not the configured one; and an address is in use only because of another
\* program, or of a TUI's connection to an earlier daemon that is in TIME_WAIT.  Nothing
\* else that earlier commands and daemons left is the cause (the survey, the receipts
\* and the supervision of the spawned daemon in ServiceManager, _listener_available).
THEOREM LaunchFailuresAreExplained == Spec => LaunchFailuresExplained
<1>1. ASSUME Service, Launches, [Next]_vars, NEW c \in Clients, out'[c] # out[c]
      PROVE  /\ out'[c] \in {"exited", "timeout"} =>
                  \/ harm' \ {"foreign"} # {}
                  \/ config # Nil /\ want[c].listener # config.listener
             /\ out'[c] = "in_use" =>
                  \/ "foreign" \in harm' \/ Overlap
                  \/ (IF cpc[c] = "launch" THEN Target(c) ELSE want[c].listener) \in timewait
  <2>1. ASSUME out'[c] \in {"exited", "timeout"}, Calm'
        PROVE  config # Nil /\ want[c].listener # config.listener
    <3>1. ~PollTimeout(c)
      BY <1>1, <2>1, NeverLate
    <3>2. /\ cpc[c] = "poll" /\ dpc[own[c]] = "gone" /\ harm' = harm
          /\ want[c].gen \notin receipts
      BY <1>1, <2>1, <3>1, FailsWhile DEF Failures
    <3>. QED
      BY <1>1, <2>1, <3>2 DEF Calm, Launches, Launched, Underway
  <2>2. ASSUME out'[c] = "in_use", ~Overlap,
               (IF cpc[c] = "launch" THEN Target(c) ELSE want[c].listener) \notin timewait
        PROVE  "foreign" \in harm'
    <3>1. CASE cpc[c] = "launch" /\ ~Bindable(Target(c)) /\ harm' = harm
      <4>1. Target(c) \in Listeners
        BY <1>1, ConfigFacts, OrderFacts
           DEF Service, Types, ClientTypes, PathTypes, Target, Keeps
      <4>. QED
        BY <1>1, <2>2, <3>1, <4>1, FreeListener
    <3>2. CASE /\ cpc[c] \in {"poll", "term"} /\ dpc[own[c]] = "gone" /\ harm' = harm
               /\ want[c].gen \in receipts \/ ~Bindable(want[c].listener)
      <4>1. want[c].listener \in Listeners /\ own[c] \in Daemons
        BY <1>1, <3>2, Alone, ConfigFacts
      <4>2. pub[want[c].listener] # own[c]
        BY <1>1, <3>2, <4>1 DEF Service, Unused
      <4>. QED
        BY <1>1, <2>2, <3>2, <4>1, <4>2 DEF Launches, Launched, Strangers
    <3>. QED
      BY <1>1, <2>2, <3>1, <3>2, FailsWhile DEF Failures, LaunchFails
  <2>. QED
    BY <2>1, <2>2 DEF Calm
<1>2. Service /\ Launches /\ [Next]_vars => [\A c \in Clients : out'[c] # out[c] =>
        /\ out'[c] \in {"exited", "timeout"} =>
             \/ harm' \ {"foreign"} # {}
             \/ config # Nil /\ want[c].listener # config.listener
        /\ out'[c] = "in_use" =>
             \/ "foreign" \in harm' \/ Overlap
             \/ (IF cpc[c] = "launch" THEN Target(c) ELSE want[c].listener) \in timewait]_vars
  BY <1>1
<1>3. Spec => []Launches
  BY InitLaunches, LaunchesKept, ServiceHolds, PTL DEF Spec
<1>. QED
  BY <1>2, <1>3, ServiceHolds, PTL DEF Spec, LaunchFailuresExplained
====
