------------------------------ MODULE Lifecycle ------------------------------
(***************************************************************************)
(* The life of the global service: the clients that start, stop and        *)
(* restart it under the start lock (ServiceManager, instance.py), the      *)
(* daemon they spawn (_serve, cli.py), its Unix socket (RpcServer, rpc.py) *)
(* and the Codex child and private socket it owns (GlobalWorkerService,    *)
(* service.py).                                                            *)
(*                                                                         *)
(* Clients and daemons are processes that share nothing but files, sockets *)
(* and signals.  Every deadline of the code (2 s for the lock, for         *)
(* readiness and for a stop; 5 s for the private socket; 30 s for a call)  *)
(* may expire whenever it is awaited.  The deadlines whose expiry leaves   *)
(* something behind, and what goes wrong from outside, are mishaps: there  *)
(* are at most MaxMishaps of them and `harm` remembers which.              *)
(*                                                                         *)
(* Abstracted: permissions and ownership of files, the worker and          *)
(* migration state a status reports, what a refusal says.  Maintenance     *)
(* inside the daemon (module Gateway) is one step here: refused, completed *)
(* or failed.  The child's file stays behind when the child is killed.     *)
(***************************************************************************)
EXTENDS Integers, FiniteSets

CONSTANTS Clients,    \* processes that run a daemon command, or one that needs it
          Daemons,    \* spawned daemons, reused when nothing refers to them
          Listeners,  \* public listener addresses
          Version,    \* Version[c]: the worker version client c expects
          Commands,   \* the commands clients run: [op, listener, force]
          Default,    \* DEFAULT_PUBLIC_LISTENER
          Attached,   \* listeners that Codex TUIs connect to
          Kinds,      \* the mishaps that may happen
          MaxMishaps,
          Any,        \* no listener given
          Nil,        \* no process, no path, no configuration
          Unknown     \* a service is there; its processes are not known

Mishaps == {"crash", "kill", "child", "foreign", "slowstart", "slowcall", "slowstop",
            "teardown"}

Orders == [op : {"start", "stop", "restart"}, listener : Listeners \cup {Any},
           force : BOOLEAN]
Configs == [listener : Listeners, version : {Version[c] : c \in Clients}, gen : Daemons]
Outside == "outside"    \* a process that is not ours, on a listener

ASSUME LifecycleAssumption ==
  /\ IsFiniteSet(Daemons)
  /\ Commands \subseteq Orders
  /\ Kinds \subseteq Mishaps /\ MaxMishaps \in Nat
  /\ Nil \notin Clients \cup Daemons \cup Listeners \cup Configs
  /\ Outside \notin Daemons \cup {Nil}
  /\ Attached \subseteq Listeners
  /\ Default \in Listeners /\ Any \notin Listeners /\ Unknown \notin Daemons \cup {Nil}

VARIABLES
  cpc,       \* client: what it is about to do
  cmd,       \* the command it runs
  basis,     \* `before`: the daemon whose end it awaits
  renew,     \* clients whose start replaces a service (`replacement`)
  prev,      \* `previous`: the configuration read before the launch
  want,      \* `config`: the one it launches
  own,       \* `process`: the daemon it spawned
  out,       \* how its last command ended
  dpc,       \* daemon: what it is about to do
  dcfg,      \* the configuration it was spawned with
  sockid,    \* _private_socket_identity
  halted,    \* daemons whose _stopping is set
  inbox,     \* maintenance requests in its handler threads
  kid,       \* its Codex child: none, starting, up
  lock,      \* holder of the start lock
  config,    \* service.json
  pub,       \* pub[l]: who is bound to listener l
  timewait,  \* listeners with connections that a daemon closed and the kernel keeps
             \* in TIME_WAIT
  rpc,       \* the daemon whose socket is at the path of the service
  priv,      \* the daemon whose child bound the private socket
  receipts,  \* generations whose startup receipt exists
  left,      \* mishaps that may still happen
  harm       \* kinds that happened

callVars == <<cmd, basis, renew, prev, want, own>>
clientVars == <<cpc, callVars, out>>
daemonVars == <<dpc, dcfg, sockid, halted, inbox, kid>>
pathVars == <<pub, timewait, rpc, priv, receipts>>
luckVars == <<left, harm>>
vars == <<clientVars, daemonVars, lock, config, pathVars, luckVars>>

Requests == [from : Clients \cup {Nil}, force : BOOLEAN]
NoCommand == [op |-> "start", listener |-> Any, force |-> FALSE]

Starting == {"boot", "prepare", "wait", "commit", "open", "bound"}
Closing == {"stopping", "closing", "unlink", "teardown"}

Init ==
  /\ cpc = [c \in Clients |-> "idle"]
  /\ cmd = [c \in Clients |-> NoCommand]
  /\ basis = [c \in Clients |-> Nil]
  /\ renew = {}
  /\ prev = [c \in Clients |-> Nil]
  /\ want = [c \in Clients |-> Nil]
  /\ own = [c \in Clients |-> Nil]
  /\ out = [c \in Clients |-> "none"]
  /\ dpc = [d \in Daemons |-> "gone"]
  /\ dcfg = [d \in Daemons |-> Nil]
  /\ sockid = [d \in Daemons |-> Nil]
  /\ halted = {}
  /\ inbox = [d \in Daemons |-> {}]
  /\ kid = [d \in Daemons |-> "none"]
  /\ lock = Nil /\ config = Nil
  /\ pub = [l \in Listeners |-> Nil] /\ timewait = {}
  /\ rpc = Nil /\ priv = Nil /\ receipts = {}
  /\ left = MaxMishaps /\ harm = {}

(***************************************************************************)
(* What a client sees of the daemon behind the socket's path.              *)
(***************************************************************************)
Accepting(d) == dpc[d] \in {"bound", "serving", "stopping"}
Answering == rpc # Nil /\ dpc[rpc] = "serving"
Ready == Answering /\ rpc \notin halted /\ kid[rpc] = "up" /\ pub[dcfg[rpc].listener] = rpc
Degraded == Answering /\ rpc \notin halted /\ ~Ready
Stopped == ~Ready /\ ~Degraded    \* readiness: no answer, or daemon_stopped
Dead(d) == dpc[d] = "gone" /\ kid[d] = "none"

Mishap(kind) ==
  /\ kind \in Kinds /\ left > 0
  /\ left' = left - 1 /\ harm' = harm \cup {kind}

\* A deadline may expire early; once something went wrong it expires for sure.
Expires(kind) ==
  \/ Mishap(kind)
  \/ harm # {} /\ left = 0 /\ kind \in Kinds /\ harm' = harm \cup {kind} /\ UNCHANGED left

(***************************************************************************)
(* Every command ends here: the lock is released and the locals are gone.  *)
(***************************************************************************)
Finish(c, verdict) ==
  /\ cpc' = [cpc EXCEPT ![c] = "idle"]
  /\ out' = [out EXCEPT ![c] = verdict]
  /\ cmd' = [cmd EXCEPT ![c] = NoCommand]
  /\ basis' = [basis EXCEPT ![c] = Nil]
  /\ renew' = renew \ {c}
  /\ prev' = [prev EXCEPT ![c] = Nil]
  /\ want' = [want EXCEPT ![c] = Nil]
  /\ own' = [own EXCEPT ![c] = Nil]
  /\ lock' = IF lock = c THEN Nil ELSE lock

Goto(c, pc) == cpc' = [cpc EXCEPT ![c] = pc] /\ UNCHANGED <<out, lock>>

Call(c, r) ==
  /\ cpc[c] = "idle"
  /\ cmd' = [cmd EXCEPT ![c] = r]
  /\ out' = [out EXCEPT ![c] = "none"]
  /\ cpc' = [cpc EXCEPT ![c] = "lock"]
  /\ UNCHANGED <<basis, renew, prev, want, own, daemonVars, lock, config, pathVars, luckVars>>

\* Mutant: a lock that two may hold.
AcquireAnyway(c) ==
  /\ cpc[c] = "lock"
  /\ lock' = c
  /\ cpc' = [cpc EXCEPT ![c] = IF cmd[c].op = "start" THEN "probe" ELSE "survey"]
  /\ UNCHANGED <<callVars, out, daemonVars, config, pathVars, luckVars>>

Acquire(c) ==
  /\ cpc[c] = "lock" /\ lock = Nil
  /\ lock' = c
  /\ cpc' = [cpc EXCEPT ![c] = IF cmd[c].op = "start" THEN "probe" ELSE "survey"]
  /\ UNCHANGED <<callVars, out, daemonVars, config, pathVars, luckVars>>

LockTimeout(c) ==
  /\ cpc[c] = "lock" /\ lock # Nil
  /\ Finish(c, "failed")
  /\ UNCHANGED <<daemonVars, config, pathVars, luckVars>>

(***************************************************************************)
(* stop and restart first ask what there is to stop.  With force the       *)
(* short readiness call decides, and an endpoint that does not answer it   *)
(* still counts as a service; without force it is the public status, which *)
(* a degraded service refuses and which may take longer than the call.     *)
(***************************************************************************)
Before(c) ==
  IF cmd[c].force
    THEN IF Ready THEN rpc ELSE IF rpc # Nil THEN Unknown ELSE Nil
    ELSE IF Answering THEN rpc ELSE Nil

\* The listener a restart is for.
Requested(c, before) ==
  CASE cmd[c].listener # Any -> cmd[c].listener
    [] cmd[c].listener = Any /\ before \in Daemons -> dcfg[before].listener
    [] OTHER -> IF config # Nil THEN config.listener ELSE Default

Surveyed(c, before) ==
  IF before = Nil /\ cmd[c].op = "stop" THEN Finish(c, "done") ELSE
    /\ basis' = [basis EXCEPT ![c] = before]
    /\ renew' = IF before = Nil THEN renew \cup {c} ELSE renew \ {c}
    /\ cmd' = [cmd EXCEPT ![c].listener =
                IF cmd[c].op = "stop" THEN @ ELSE Requested(c, before)]
    /\ Goto(c, IF before = Nil THEN "probe" ELSE "ask")
    /\ UNCHANGED <<prev, want, own>>

Survey(c) ==
  /\ cpc[c] = "survey"
  /\ IF ~cmd[c].force /\ Degraded
       THEN Finish(c, "failed")
       ELSE Surveyed(c, Before(c))
  /\ UNCHANGED <<daemonVars, config, pathVars, luckVars>>

SurveySlow(c) ==
  /\ cpc[c] = "survey" /\ Answering
  /\ Mishap("slowcall")
  /\ Surveyed(c, IF cmd[c].force THEN Unknown ELSE Nil)
  /\ UNCHANGED <<daemonVars, config, pathVars>>

(***************************************************************************)
(* service/stop and service/restart.  A start that replaces a service of   *)
(* another version asks without force.  The request is at the daemon once  *)
(* its socket accepted it; a daemon that goes away resets the connection.  *)
(***************************************************************************)
Ask(c) ==
  /\ cpc[c] = "ask"
  /\ IF rpc # Nil /\ Accepting(rpc)
       THEN /\ inbox' = [inbox EXCEPT ![rpc] =
                 @ \cup {[from |-> c, force |-> cmd[c].force /\ c \notin renew]}]
            /\ Goto(c, "asked")
            /\ UNCHANGED callVars
       ELSE Finish(c, "failed") /\ UNCHANGED inbox
  /\ UNCHANGED <<dpc, dcfg, sockid, halted, kid, config, pathVars, luckVars>>

Waiting(c) == \E d \in Daemons : \E q \in inbox[d] : q.from = c

\* Mutant: a loss noticed by the path only.
AskLostWithPath(c) ==
  /\ cpc[c] = "asked" /\ ~Waiting(c) /\ rpc = Nil
  /\ Finish(c, "failed")
  /\ UNCHANGED <<daemonVars, config, pathVars, luckVars>>

AskLost(c) ==
  /\ cpc[c] = "asked" /\ ~Waiting(c)
  /\ Finish(c, "failed")
  /\ UNCHANGED <<daemonVars, config, pathVars, luckVars>>

\* The call's 30 s pass: the request stays with the daemon, without its client.
GiveUp(c) ==
  /\ cpc[c] = "asked" /\ Waiting(c)
  /\ Mishap("slowcall")
  /\ inbox' = [d \in Daemons |->
       {[q EXCEPT !.from = IF @ = c THEN Nil ELSE @] : q \in inbox[d]}]
  /\ Finish(c, "failed")
  /\ UNCHANGED <<dpc, dcfg, sockid, halted, kid, config, pathVars>>

\* The client's side of a reply: `tail` of Maintain below.
Reply(q, verdict) ==
  IF q.from = Nil THEN UNCHANGED <<clientVars, lock>>
  ELSE IF verdict = "completed" THEN Goto(q.from, "await") /\ UNCHANGED callVars
  ELSE Finish(q.from, verdict)

(***************************************************************************)
(* _await_stopped: the path is free and the processes it knows are dead.   *)
(***************************************************************************)
\* Mutant: a daemon that answers no more, though its files are still there.
SilentOnly(c) == ~Answering
Gone(c) == rpc = Nil /\ (basis[c] \in Daemons => Dead(basis[c]))

AwaitStopped(c) ==
  /\ cpc[c] = "await" /\ Gone(c)
  /\ CASE cmd[c].op = "stop" -> Finish(c, "stopped")
       [] cmd[c].op = "restart" /\ c \notin renew ->
            /\ renew' = renew \cup {c}
            /\ basis' = [basis EXCEPT ![c] = Nil]
            /\ Goto(c, "probe")
            /\ UNCHANGED <<cmd, prev, want, own>>
       [] OTHER ->
            /\ basis' = [basis EXCEPT ![c] = Nil]
            /\ Goto(c, "launch")
            /\ UNCHANGED <<cmd, renew, prev, want, own>>
  /\ UNCHANGED <<daemonVars, config, pathVars, luckVars>>

\* 2 s, while the daemon may take 6 s to shut its dispatcher down.
AwaitTimeout(c) ==
  /\ cpc[c] = "await" /\ ~Gone(c)
  /\ Expires("slowstop")
  /\ Finish(c, "failed")
  /\ UNCHANGED <<daemonVars, config, pathVars>>

(***************************************************************************)
(* _ensure_running_locked: a service that is ready and of the right        *)
(* listener and version is taken as it is; one of another version, or any  *)
(* a restart still finds, is asked to make room, never with force.         *)
(***************************************************************************)
ProbeStart(c) ==
  /\ cpc[c] = "probe"
  /\ IF Degraded THEN Finish(c, "failed")
     ELSE IF ~Ready THEN Goto(c, "launch") /\ UNCHANGED callVars
     ELSE IF cmd[c].listener \notin {Any, dcfg[rpc].listener} THEN Finish(c, "failed")
     ELSE IF dcfg[rpc].version = Version[c] /\ c \notin renew THEN Finish(c, "done")
     ELSE /\ basis' = [basis EXCEPT ![c] = rpc]
          /\ Goto(c, "ask")
          /\ UNCHANGED <<cmd, renew, prev, want, own>>
  /\ UNCHANGED <<daemonVars, config, pathVars, luckVars>>

ProbeSlow(c) ==
  /\ cpc[c] = "probe" /\ Ready
  /\ Mishap("slowcall")
  /\ Goto(c, "launch")
  /\ UNCHANGED <<callVars, daemonVars, config, pathVars>>

\* A daemon slot nothing refers to any more.
InUse == {config} \cup {dcfg[e] : e \in Daemons}
           \cup UNION {{prev[c], want[c]} : c \in Clients}
Referenced == {rpc, priv} \cup receipts \cup {sockid[e] : e \in Daemons}
                \cup UNION {{basis[c], own[c]} : c \in Clients}
                \cup {g.gen : g \in InUse \ {Nil}}
Free(d) == Dead(d) /\ d \notin Referenced
NextFree == IF \E d \in Daemons : Free(d) THEN {CHOOSE d \in Daemons : Free(d)} ELSE {}

\* A start keeps to the durable configuration, and reuses its generation when
\* the version fits; a restart replaces it.
Keeps(c) == c \notin renew /\ config # Nil
Reuses(c) == Keeps(c) /\ config.version = Version[c]
Target(c) ==
  IF Keeps(c) THEN config.listener
  ELSE IF cmd[c].listener = Any THEN Default ELSE cmd[c].listener
Chosen(c, d) ==
  IF Reuses(c) THEN config
  ELSE [listener |-> Target(c), version |-> Version[c], gen |-> d]

\* _listener_available binds without SO_REUSEADDR, so that closed connections of an
\* earlier daemon are in its way; the gateway's own bind, in the websockets library's
\* serve, sets it.
Bindable(l) == pub[l] = Nil /\ l \notin timewait

\* Nothing is spawned for a listener that is not the configured one, that is
\* in use, or over the receipt of an earlier spawn of the same generation.
LaunchFault(c) ==
  IF Keeps(c) /\ cmd[c].listener \notin {Any, config.listener} THEN "failed"
  ELSE IF ~Bindable(Target(c)) THEN "in_use"
  ELSE IF Reuses(c) /\ config.gen \in receipts THEN "failed"
  ELSE "none"

LaunchFails(c) ==
  /\ cpc[c] = "launch" /\ LaunchFault(c) # "none"
  /\ Finish(c, LaunchFault(c))
  /\ UNCHANGED <<daemonVars, config, pathVars, luckVars>>

Launch(c, d) ==
  /\ cpc[c] = "launch" /\ LaunchFault(c) = "none" /\ d \in NextFree
  /\ dpc' = [dpc EXCEPT ![d] = "boot"]
  /\ dcfg' = [dcfg EXCEPT ![d] = Chosen(c, d)]
  /\ own' = [own EXCEPT ![c] = d]
  /\ want' = [want EXCEPT ![c] = Chosen(c, d)]
  /\ prev' = [prev EXCEPT ![c] = config]
  /\ Goto(c, "poll")
  /\ UNCHANGED <<cmd, basis, renew, sockid, halted, inbox, kid, config, pathVars, luckVars>>

(***************************************************************************)
(* The listener is closed, and from this side every connection of a TUI    *)
(* that is attached or has left not long ago.                              *)
(***************************************************************************)
Unbind(d) ==
  /\ pub' = [l \in Listeners |-> IF pub[l] = d THEN Nil ELSE pub[l]]
  /\ timewait' \in {timewait, timewait \cup {l \in Attached : pub[l] = d}}

(***************************************************************************)
(* A daemon process ends: the kernel closes its listener and connections.  *)
(* Its child is in a session of its own and lives on unless it was killed, *)
(* and no file goes away by itself.                                        *)
(***************************************************************************)
Die(d) ==
  /\ dpc' = [dpc EXCEPT ![d] = "gone"]
  /\ dcfg' = [dcfg EXCEPT ![d] = Nil]
  /\ sockid' = [sockid EXCEPT ![d] = Nil]
  /\ halted' = halted \ {d}
  /\ inbox' = [inbox EXCEPT ![d] = {}]
  /\ Unbind(d)

\* terminate_spawn sends SIGTERM: a daemon without its handlers dies of it.  One that
\* stops has them until serve_forever returns, and the default ones after that.
Signal(d) ==
  \/ dpc[d] \in {"gone", "stopping"} /\ UNCHANGED <<daemonVars, pub, timewait>>
  \/ /\ dpc[d] = "serving"
     /\ dpc' = [dpc EXCEPT ![d] = "stopping"]
     /\ UNCHANGED <<dcfg, sockid, halted, inbox, kid, pub, timewait>>
  \/ dpc[d] \notin {"gone", "serving"} /\ Die(d) /\ UNCHANGED kid

\* Mutant: the handle of the daemon dropped before its end is seen.
TerminateForgets(c, verdict) ==
  /\ Signal(own[c])
  /\ cpc' = [cpc EXCEPT ![c] = "term"]
  /\ out' = [out EXCEPT ![c] = verdict]
  /\ own' = [own EXCEPT ![c] = Nil]
  /\ UNCHANGED <<cmd, basis, renew, prev, want, lock, config>>

Terminate(c, verdict) ==
  /\ Signal(own[c])
  /\ cpc' = [cpc EXCEPT ![c] = "term"]
  /\ out' = [out EXCEPT ![c] = verdict]
  /\ UNCHANGED <<callVars, lock, config>>

\* The configuration is another one than the launch found or wanted.
Overtaken(c) == config # want[c] /\ config # prev[c]

PollReady(c) ==
  /\ cpc[c] = "poll" /\ Ready
  /\ IF \/ dcfg[rpc].listener # want[c].listener
        \/ dcfg[rpc].version # Version[c]
        \/ Overtaken(c)
       THEN Terminate(c, "failed")
       ELSE /\ config' = want[c]
            /\ IF cmd[c].op = "restart" THEN Goto(c, "final") /\ UNCHANGED callVars
               ELSE Finish(c, "done")
            /\ UNCHANGED <<daemonVars, pub, timewait>>
  /\ UNCHANGED <<rpc, priv, receipts, luckVars>>

PollDegraded(c) ==
  /\ cpc[c] = "poll" /\ Degraded
  /\ Terminate(c, "failed")
  /\ UNCHANGED <<rpc, priv, receipts, luckVars>>

\* A daemon that serves and is not seen ready, its path unlinked by another or
\* itself stopping, never will be: the deadline ends the wait in any case.
PollTimeout(c) ==
  /\ cpc[c] = "poll" /\ Stopped /\ dpc[own[c]] # "gone"
  /\ IF dpc[own[c]] = "serving" THEN UNCHANGED luckVars ELSE Mishap("slowstart")
  /\ Terminate(c, "timeout")
  /\ UNCHANGED <<rpc, priv, receipts>>

\* What is said of a daemon that ended, or was ended, before it was ready.
\* A collision its receipt tells of, or that still lasts, comes first.
Ended(c, verdict) ==
  LET told == want[c].gen \in receipts IN
  /\ Finish(c, IF told \/ ~Bindable(want[c].listener) THEN "in_use" ELSE verdict)
  /\ receipts' = receipts \ {want[c].gen}

PollExited(c) ==
  /\ cpc[c] = "poll" /\ Stopped /\ dpc[own[c]] = "gone"
  /\ Ended(c, "exited")
  /\ UNCHANGED <<daemonVars, config, pub, timewait, rpc, priv, luckVars>>

TermWait(c) ==
  /\ cpc[c] = "term" /\ dpc[own[c]] = "gone"
  /\ IF out[c] = "timeout" THEN Ended(c, "timeout")
     ELSE Finish(c, out[c]) /\ UNCHANGED receipts
  /\ UNCHANGED <<daemonVars, config, pub, timewait, rpc, priv, luckVars>>

\* SIGKILL, when the daemon has not ended 2 s after SIGTERM: one that served
\* has its dispatcher to shut down first, which may take longer.
TermKill(c) ==
  /\ cpc[c] = "term" /\ dpc[own[c]] # "gone"
  /\ Expires("slowstart")
  /\ Die(own[c])
  /\ UNCHANGED <<clientVars, kid, lock, config, rpc, priv, receipts>>

\* The public status a successful restart ends with.
Final(c) ==
  /\ cpc[c] = "final"
  /\ Finish(c, IF Answering /\ ~Degraded THEN "done" ELSE "failed")
  /\ UNCHANGED <<daemonVars, config, pathVars, luckVars>>

\* A client dies; the kernel releases its lock, its daemon goes on.
Kill(c) ==
  /\ cpc[c] # "idle"
  /\ Mishap("kill")
  /\ inbox' = [d \in Daemons |->
       {[q EXCEPT !.from = IF @ = c THEN Nil ELSE @] : q \in inbox[d]}]
  /\ Finish(c, "failed")
  /\ UNCHANGED <<dpc, dcfg, sockid, halted, kid, config, pathVars>>

(***************************************************************************)
(* The daemon: _serve up to serve_forever.                                 *)
(***************************************************************************)
Step(d, from, to) ==
  /\ dpc[d] = from
  /\ dpc' = [dpc EXCEPT ![d] = to]
  /\ UNCHANGED <<dcfg, sockid, halted, inbox>>

Boot(d) ==
  /\ dpc[d] = "boot"
  /\ IF config # Nil /\ config.listener # dcfg[d].listener
       THEN Die(d)
       ELSE Step(d, "boot", "prepare") /\ UNCHANGED <<pub, timewait>>
  /\ UNCHANGED <<clientVars, kid, lock, config, rpc, priv, receipts, luckVars>>

\* A private socket left behind is never unlinked; a listener in use is told
\* to the client by a receipt; else the listener is bound and Codex spawned.
Prepare(d) ==
  LET l == dcfg[d].listener IN
  /\ dpc[d] = "prepare"
  /\ IF priv # Nil THEN Die(d) /\ UNCHANGED <<kid, receipts>>
     ELSE IF pub[l] # Nil
       THEN Die(d) /\ receipts' = receipts \cup {dcfg[d].gen} /\ UNCHANGED kid
     ELSE /\ Step(d, "prepare", "wait")
          /\ pub' = [pub EXCEPT ![l] = d]
          /\ kid' = [kid EXCEPT ![d] = "starting"]
          /\ UNCHANGED <<timewait, receipts>>
  /\ UNCHANGED <<clientVars, lock, config, rpc, priv, luckVars>>

\* Codex binds the private socket, or exits when something is there.
ChildListens(d) ==
  /\ kid[d] = "starting"
  /\ kid' = [kid EXCEPT ![d] = IF priv = Nil THEN "up" ELSE "none"]
  /\ priv' = IF priv = Nil THEN d ELSE priv
  /\ UNCHANGED <<clientVars, dpc, dcfg, sockid, halted, inbox, lock, config,
                 pub, timewait, rpc, receipts, luckVars>>

\* _terminate_resources: the listener, the child, and the private socket if it
\* is still the one this daemon saw.  A child that does not die keeps the rest
\* from none of it.
\* Mutant: the private socket is left to Codex to remove.
TornByHalf(d, survives, id) ==
  /\ kid' = IF survives THEN kid ELSE [kid EXCEPT ![d] = "none"]
  /\ UNCHANGED priv

Torn(d, survives, id) ==
  /\ kid' = IF survives THEN kid ELSE [kid EXCEPT ![d] = "none"]
  /\ priv' = IF priv = id THEN Nil ELSE priv

Rollback(d, id) == Die(d) /\ Torn(d, FALSE, id)

WaitSocket(d) ==
  /\ dpc[d] = "wait" /\ priv # Nil
  /\ IF kid[priv] = "up" /\ kid[d] # "none"
       THEN /\ dpc' = [dpc EXCEPT ![d] = "commit"]
            /\ sockid' = [sockid EXCEPT ![d] = priv]
            /\ UNCHANGED <<dcfg, halted, inbox, kid, pub, timewait, priv>>
       ELSE Rollback(d, priv)
  /\ UNCHANGED <<clientVars, lock, config, rpc, receipts, luckVars>>

WaitFails(d) ==
  /\ dpc[d] = "wait" /\ priv = Nil
  /\ IF kid[d] = "none" THEN UNCHANGED luckVars ELSE Mishap("slowstart")
  /\ Rollback(d, Nil)
  /\ UNCHANGED <<clientVars, lock, config, rpc, receipts>>

\* The listener generation becomes durable.
\* Mutant: only the first configuration is ever written.
CommitOnce(d) ==
  /\ Step(d, "commit", "open")
  /\ config' = IF config = Nil THEN dcfg[d] ELSE config
  /\ UNCHANGED <<clientVars, kid, lock, pathVars, luckVars>>

Commit(d) ==
  /\ Step(d, "commit", "open")
  /\ config' = dcfg[d]
  /\ UNCHANGED <<clientVars, kid, lock, pathVars, luckVars>>

\* RpcServer.__init__, under the lock of the socket's path: a stale socket is
\* replaced, one that accepts is respected.
Open(d) ==
  /\ IF rpc # Nil /\ Accepting(rpc)
       THEN Step(d, "open", "teardown") /\ UNCHANGED rpc
       ELSE Step(d, "open", "bound") /\ rpc' = d
  /\ UNCHANGED <<clientVars, kid, lock, config, pub, timewait, priv, receipts, luckVars>>

Serve(d) ==
  /\ Step(d, "bound", "serving")
  /\ UNCHANGED <<clientVars, kid, lock, config, pathVars, luckVars>>

(***************************************************************************)
(* Maintenance in a handler thread, and the shutdown a completed one asks  *)
(* for before anything else can be answered.                               *)
(***************************************************************************)
Answered(d, q) == inbox' = [inbox EXCEPT ![d] = @ \ {q}]

MaintainRefuses(d, q) ==
  /\ dpc[d] = "serving" /\ q \in inbox[d] /\ ~q.force /\ d \notin halted
  /\ Answered(d, q) /\ Reply(q, "failed")
  /\ UNCHANGED <<dpc, dcfg, sockid, halted, kid, config, pathVars, luckVars>>

MayTerminate(d, q) ==
  /\ dpc[d] = "serving" /\ q \in inbox[d]
  /\ q.force \/ d \in halted \/ kid[d] = "up"

MaintainTerminates(d, q, survives) ==
  LET whole == ~survives /\ priv \in {Nil, sockid[d]} IN
  /\ MayTerminate(d, q)
  /\ IF survives THEN kid[d] = "up" /\ Mishap("teardown") ELSE UNCHANGED luckVars
  /\ Torn(d, survives, sockid[d])
  /\ sockid' = [sockid EXCEPT ![d] = IF priv \in {Nil, @} THEN Nil ELSE @]
  /\ halted' = halted \cup {d}
  /\ Unbind(d)
  /\ dpc' = [dpc EXCEPT ![d] = IF whole THEN "stopping" ELSE @]
  /\ Answered(d, q) /\ Reply(q, IF whole THEN "completed" ELSE "failed")
  /\ UNCHANGED <<dcfg, config, rpc, receipts>>

\* server_close after the dispatcher's shutdown: close the listening socket,
\* look whether the path still is ours, unlink the path.
CloseRpc(d) ==
  /\ Step(d, "stopping", "closing")
  /\ UNCHANGED <<clientVars, kid, lock, config, pathVars, luckVars>>

CheckPath(d) ==
  /\ Step(d, "closing", IF rpc = d THEN "unlink" ELSE "teardown")
  /\ UNCHANGED <<clientVars, kid, lock, config, pathVars, luckVars>>

UnlinkPath(d) ==
  /\ Step(d, "unlink", "teardown")
  /\ rpc' = Nil
  /\ UNCHANGED <<clientVars, kid, lock, config, pub, timewait, priv, receipts, luckVars>>

\* The last thing _serve does; a child that survives it is not reported.
Teardown(d, survives) ==
  /\ dpc[d] = "teardown"
  /\ IF survives THEN kid[d] = "up" /\ Mishap("teardown") ELSE UNCHANGED luckVars
  /\ Die(d) /\ Torn(d, survives, sockid[d])
  /\ UNCHANGED <<clientVars, lock, config, rpc, receipts>>

\* Mishaps that are nobody's step.
Crash(d) ==
  /\ dpc[d] # "gone" /\ Mishap("crash") /\ Die(d)
  /\ UNCHANGED <<clientVars, kid, lock, config, rpc, priv, receipts>>

ChildDies(d) ==
  /\ kid[d] # "none" /\ Mishap("child")
  /\ kid' = [kid EXCEPT ![d] = "none"]
  /\ UNCHANGED <<clientVars, dpc, dcfg, sockid, halted, inbox, lock, config, pathVars>>

ForeignBinds(l) ==
  /\ pub[l] = Nil /\ Mishap("foreign")
  /\ pub' = [pub EXCEPT ![l] = Outside]
  /\ UNCHANGED <<clientVars, daemonVars, lock, config, timewait, rpc, priv, receipts>>

ForeignLeaves(l) ==
  /\ pub[l] = Outside
  /\ pub' = [pub EXCEPT ![l] = Nil]
  /\ UNCHANGED <<clientVars, daemonVars, lock, config, timewait, rpc, priv, receipts,
                 luckVars>>

\* The kernel forgets the closed connections after a while.
TimeWaitEnds(l) ==
  /\ l \in timewait
  /\ timewait' = timewait \ {l}
  /\ UNCHANGED <<clientVars, daemonVars, lock, config, pub, rpc, priv, receipts, luckVars>>

GetsLock(c) == Acquire(c) \/ LockTimeout(c)
Supervises(c) ==
  \/ Survey(c) \/ Ask(c) \/ AskLost(c) \/ AwaitStopped(c) \/ AwaitTimeout(c)
  \/ ProbeStart(c) \/ LaunchFails(c) \/ \E d \in Daemons : Launch(c, d)
  \/ PollReady(c) \/ PollDegraded(c) \/ PollExited(c) \/ PollTimeout(c)
  \/ TermWait(c) \/ Final(c)
Client(c) == GetsLock(c) \/ Supervises(c)

Runs(d) ==
  \/ Boot(d) \/ Prepare(d) \/ ChildListens(d) \/ WaitSocket(d) \/ WaitFails(d)
  \/ Commit(d) \/ Open(d) \/ Serve(d)
  \/ CloseRpc(d) \/ CheckPath(d) \/ UnlinkPath(d)
Maintain(d) ==
  \E q \in inbox[d] : \/ MaintainRefuses(d, q)
                      \/ \E survives \in BOOLEAN : MaintainTerminates(d, q, survives)
Daemon(d) == Runs(d) \/ Maintain(d) \/ \E survives \in BOOLEAN : Teardown(d, survives)

Misfortune ==
  \/ \E c \in Clients : \/ SurveySlow(c) \/ GiveUp(c) \/ ProbeSlow(c)
                        \/ TermKill(c) \/ Kill(c)
  \/ \E d \in Daemons : Crash(d) \/ ChildDies(d)
  \/ \E l \in Listeners : ForeignBinds(l) \/ ForeignLeaves(l) \/ TimeWaitEnds(l)

Next ==
  \/ \E c \in Clients, r \in Commands : Call(c, r)
  \/ \E c \in Clients : Client(c)
  \/ \E d \in Daemons : Daemon(d)
  \/ Misfortune

Spec == Init /\ [][Next]_vars

\* Every process is scheduled; nobody has to run a command, nothing has to fail.
Fairness ==
  /\ \A c \in Clients : WF_vars(Client(c))
  /\ \A d \in Daemons : WF_vars(Daemon(d))
FairSpec == Spec /\ Fairness
------------------------------------------------------------------------------
(***************************************************************************)
(* Type invariant, with which fields go together.                          *)
(***************************************************************************)
TypeOK ==
  /\ cpc \in [Clients -> {"idle", "lock", "survey", "ask", "asked", "await",
                          "probe", "launch", "poll", "term", "final"}]
  /\ cmd \in [Clients -> Orders]
  /\ basis \in [Clients -> Daemons \cup {Nil, Unknown}]
  /\ renew \subseteq Clients
  /\ prev \in [Clients -> Configs \cup {Nil}]
  /\ want \in [Clients -> Configs \cup {Nil}]
  /\ own \in [Clients -> Daemons \cup {Nil}]
  /\ out \in [Clients -> {"none", "done", "stopped", "failed",
                          "in_use", "exited", "timeout"}]
  /\ dpc \in [Daemons -> {"gone", "serving"} \cup Starting \cup Closing]
  /\ dcfg \in [Daemons -> Configs \cup {Nil}]
  /\ sockid \in [Daemons -> Daemons \cup {Nil}]
  /\ halted \subseteq Daemons
  /\ inbox \in [Daemons -> SUBSET Requests]
  /\ kid \in [Daemons -> {"none", "starting", "up"}]
  /\ lock \in Clients \cup {Nil}
  /\ config \in Configs \cup {Nil}
  /\ pub \in [Listeners -> Daemons \cup {Outside, Nil}] /\ timewait \subseteq Attached
  /\ {rpc, priv} \subseteq Daemons \cup {Nil}
  /\ receipts \subseteq Daemons
  /\ left \in 0 .. MaxMishaps /\ harm \subseteq Kinds
  /\ \A d \in Daemons : (dpc[d] = "gone") <=> (dcfg[d] = Nil)
  /\ \A c \in Clients : (cpc[c] \in {"poll", "term", "final"}) <=> (own[c] # Nil)

\* A client stopped waiting for what still goes on: another may run beside it.
Overlap == harm \cap {"kill", "slowcall", "slowstop"} # {}

\* A daemon that serves is the one at the service's path: between the start
\* lock, the look at a path that accepts connections and the lock of the path,
\* no second daemon takes the path of a first that still serves, and no daemon
\* that closes unlinks the path of its successor.
ServiceReachable ==
  \A d \in Daemons : dpc[d] \in {"bound", "serving"} => rpc = d \/ Overlap

\* A daemon that is gone leaves no Codex child and no private socket behind,
\* through every early return and rollback of _serve and start, unless it or
\* its child was killed, was slow, or could not be killed.
Leftover(d) == dpc[d] = "gone" /\ (kid[d] # "none" \/ priv = d)
LeftoversExplained ==
  (\E d \in Daemons : Leftover(d)) =>
    harm \cap {"crash", "kill", "child", "slowstart", "teardown"} # {}

\* The durable configuration is the one of the service that answers, whichever
\* of two clients of different versions and listeners launched last, and
\* whether the daemon or its client wrote it.
ConfigFollows == Ready => config = dcfg[rpc] \/ Overlap

\* When a stop of a known service succeeds, no daemon is left that could serve,
\* and the private socket, which would keep the next one from starting, is gone.
StopCompletes == [][\A c \in Clients :
  out[c] # "stopped" /\ out'[c] = "stopped" /\ basis[c] \in Daemons =>
    \/ Overlap
    \/ /\ \A d \in Daemons : dpc[d] \in {"gone", "teardown"}
       /\ priv = Nil \/ harm \cap {"crash", "slowstart"} # {}]_vars

\* A launch that fails has a cause: a daemon that was spawned becomes ready whatever
\* earlier daemons and commands did, orderly, and an address is only in use when
\* another program uses it, or when a TUI was attached to an earlier daemon there and
\* the kernel keeps its connection in TIME_WAIT.  The exception is a restart on
\* another listener: see RestartMovesListener.
LaunchFailuresExplained == [][\A c \in Clients : out'[c] # out[c] =>
  /\ out'[c] \in {"exited", "timeout"} =>
       \/ harm' \ {"foreign"} # {}
       \/ config # Nil /\ want[c].listener # config.listener
  /\ out'[c] = "in_use" =>
       \/ "foreign" \in harm' \/ Overlap
       \/ (IF cpc[c] = "launch" THEN Target(c) ELSE want[c].listener) \in timewait]_vars

\* What the conflict of a start on another listener tells the user to run (its
\* next action: daemon restart --app-server-listen, "Change the listener only
\* through supervised maintenance"): a restart's daemon does not exit by itself
\* where nothing went wrong.
RestartMovesListener == [][\A c \in Clients :
  cpc[c] = "poll" /\ cmd[c].op = "restart" => out'[c] # "exited"]_vars

\* Every command ends, whoever holds the lock and whatever the daemon does.
CommandsEnd == \A c \in Clients : (cpc[c] # "idle") ~> (cpc[c] = "idle")
==============================================================================
