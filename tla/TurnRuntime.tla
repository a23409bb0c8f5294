----------------------------- MODULE TurnRuntime -----------------------------
(***************************************************************************)
(* One session of RuntimeStore (runtime.py) and the broker operations on   *)
(* it (broker.py): the bookkeeping of the turns of one Codex thread, told  *)
(* by notifications, by responses and by authoritative reads, which all    *)
(* arrive on the broker's one connection (websocket_transport.py).         *)
(*                                                                         *)
(* The reader thread of the connection takes messages off the stream.  It  *)
(* applies a notification itself; a response it hands to the thread that   *)
(* waits for it, which applies it later: that is where a response and the  *)
(* notifications overtake each other.                                      *)
(*                                                                         *)
(* Not modelled: items and the event log, the eviction of terminal         *)
(* snapshots and of published_terminal_ids beyond event_limit (a thread    *)
(* has fewer turns than that here, so no old end is told again), and       *)
(* the observers' work (module TerminalCallback).  Publishing a terminal   *)
(* is one step with committing it.                                         *)
(***************************************************************************)
EXTENDS Integers, FiniteSets, SequencesExt

CONSTANTS Clients,   \* threads that call turn/start, and wait
          Readers,   \* threads that call turn/status or session/resume
          MaxTurns,  \* bound: turns the thread ever has
          Orders     \* whether the stream may keep, or lose, its order

ASSUME TurnRuntimeAssumption ==
  /\ MaxTurns \in Nat
  /\ Orders \subseteq BOOLEAN

Turns == 1 .. MaxTurns
None == 0

VARIABLES
  ut,        \* the turns of the thread as the Codex child knows them
  stream,    \* messages on their way to the reader thread
  ordered,   \* the stream is delivered in order
  conn,      \* the connection is open
  detached,  \* detach_all has run
  attached, active, startPending, awaiting, observed,  \* _SessionRuntime
  terminal,  \* terminal_turns: none, done, or lost with the connection
  published, \* published_terminal_ids
  reports,   \* history: how often the observers were told of the turn's end
  cpc,       \* client threads
  cturn,     \* the turn of a client's call, which its response tells the client
  asleep,    \* clients in condition.wait()
  rpc,       \* reader threads
  snap,      \* the snapshot a reader is to apply
  stale,     \* readers whose snapshot later bookkeeping has superseded
  old,       \* history: the turns published when the reservation was made
  slips      \* history: what the code let happen (see below)

upVars == <<ut, stream, ordered, conn, detached>>
storeVars == <<attached, active, startPending, awaiting, observed, terminal,
               published, reports>>
clientVars == <<cpc, cturn>>
readVars == <<rpc, snap, stale>>
history == <<old, slips>>
vars == <<upVars, storeVars, clientVars, asleep, readVars, history>>

\* "stale": a read or resume was applied over later notifications.  "late": a
\* notification or a response was applied after the detach.  "stolen": a client whose
\* response was refused cancelled the reservation that another had made since.
Slips == {"stale", "late", "stolen"}

Message ==
  [type : {"started", "completed"}, turn : Turns]
  \cup [type : {"reply"}, client : Clients, turn : Turns]
  \cup [type : {"snapshot"}, reader : Readers, active : Turns \cup {None},
        last : Turns \cup {None}]

ClientPCs == {"idle", "calling", "started", "answered", "cancelling",
              "waiting", "waitingAny", "misled"}

TypeOK ==
  /\ ut \in [Turns -> {"none", "running", "done"}]
  /\ stream \in Seq(Message)
  /\ ordered \in BOOLEAN /\ conn \in BOOLEAN /\ detached \in BOOLEAN
  /\ attached \in BOOLEAN /\ active \in Turns \cup {None}
  /\ startPending \in BOOLEAN /\ awaiting \in BOOLEAN
  /\ observed \in Turns \cup {None}
  /\ terminal \in [Turns -> {"none", "done", "lost"}]
  /\ published \subseteq Turns /\ reports \in [Turns -> Nat]
  /\ cpc \in [Clients -> ClientPCs] /\ cturn \in [Clients -> Turns \cup {None}]
  /\ \A c \in Clients : cturn[c] # None <=> cpc[c] \in {"started", "answered", "waiting"}
  /\ asleep \subseteq {c \in Clients : cpc[c] \in {"waiting", "waitingAny"}}
  /\ rpc \in [Readers -> {"idle", "asked", "answered"}]
  /\ snap \in [Readers -> [active : Turns \cup {None}, last : Turns \cup {None}]]
  /\ stale \subseteq Readers /\ old \subseteq Turns /\ slips \subseteq Slips

NoSnapshot == [active |-> None, last |-> None]

Init ==
  /\ ut = [t \in Turns |-> "none"] /\ stream = <<>>
  /\ ordered \in Orders /\ conn = TRUE /\ detached = FALSE
  /\ attached = TRUE /\ active = None /\ startPending = FALSE
  /\ awaiting = FALSE /\ observed = None
  /\ terminal = [t \in Turns |-> "none"] /\ published = {}
  /\ reports = [t \in Turns |-> 0]
  /\ cpc = [c \in Clients |-> "idle"] /\ cturn = [c \in Clients |-> None]
  /\ asleep = {}
  /\ rpc = [r \in Readers |-> "idle"] /\ snap = [r \in Readers |-> NoSnapshot]
  /\ stale = {} /\ old = {} /\ slips = {}

-----------------------------------------------------------------------------
(* The Codex child.                                                        *)

Running == {t \in Turns : ut[t] = "running"}
Unstarted == {t \in Turns : ut[t] = "none"}
Done == {t \in Turns : ut[t] = "done"}

\* Turns of a thread run one at a time, in the order of their ids.
NextTurn == Min(Unstarted)
MayRun == conn /\ Running = {} /\ Unstarted # {}

\* A broker's turn/start.  Its response and the notification go out in any order.
UpstreamStart(c) ==
  /\ cpc[c] = "calling" /\ MayRun
  /\ ut' = [ut EXCEPT ![NextTurn] = "running"]
  /\ LET reply == [type |-> "reply", client |-> c, turn |-> NextTurn]
         note == [type |-> "started", turn |-> NextTurn]
     IN  stream' \in {stream \o <<reply, note>>, stream \o <<note, reply>>}
  /\ cpc' = [cpc EXCEPT ![c] = "started"]
  /\ cturn' = [cturn EXCEPT ![c] = NextTurn]
  /\ UNCHANGED <<ordered, conn, detached, storeVars, asleep, readVars, history>>

\* A turn of the TUI, or of a broker call that has timed out.
ExternalStart ==
  /\ MayRun
  /\ ut' = [ut EXCEPT ![NextTurn] = "running"]
  /\ stream' = Append(stream, [type |-> "started", turn |-> NextTurn])
  /\ UNCHANGED <<ordered, conn, detached, storeVars, clientVars, asleep, readVars,
                 history>>

UpstreamFinish ==
  /\ conn
  /\ \E t \in Running :
       /\ ut' = [ut EXCEPT ![t] = "done"]
       /\ stream' = Append(stream, [type |-> "completed", turn |-> t])
  /\ UNCHANGED <<ordered, conn, detached, storeVars, clientVars, asleep, readVars,
                 history>>

\* thread/read: the running turn, and the last that has ended.
UpstreamRead(r) ==
  /\ rpc[r] = "asked" /\ conn
  /\ \A i \in DOMAIN stream : stream[i].type = "snapshot" => stream[i].reader # r
  /\ stream' = Append(stream,
       [type |-> "snapshot", reader |-> r,
        active |-> IF Running = {} THEN None ELSE Max(Running),
        last |-> IF Done = {} THEN None ELSE Max(Done)])
  /\ UNCHANGED <<ut, ordered, conn, detached, storeVars, clientVars, asleep,
                 readVars, history>>

-----------------------------------------------------------------------------
(* The reader thread of the connection: on_notification and responses.     *)

\* Take message i; in order, the first.
Take(i) ==
  /\ i \in DOMAIN stream
  /\ ordered => i = 1
  /\ stream' = RemoveAt(stream, i)

\* A terminal of t becomes known: kept for the waiters, and told to the observers
\* unless it is marked as published.
Commit(t) ==
  /\ terminal' = [terminal EXCEPT ![t] = "done"]
  /\ published' = published \cup {t}
  /\ reports' = [reports EXCEPT ![t] = IF t \in published THEN @ ELSE @ + 1]

\* turn/started: it does not notify the waiters.
OnStarted(t) ==
  /\ IF t \in published /\ ~awaiting
     THEN UNCHANGED <<active, startPending, observed>>
     ELSE /\ active' = t
          /\ startPending' = FALSE
          /\ observed' = IF awaiting THEN t ELSE observed
  /\ UNCHANGED <<attached, awaiting, terminal, published, reports, asleep>>

\* Mutants of OnCompleted: the active turn stays, and the end of a turn that is not
\* the active one is dropped.
OnCompletedKeepsActive(t) ==
  /\ Commit(t)
  /\ asleep' = {}
  /\ UNCHANGED <<attached, awaiting, active, observed, startPending>>

OnCompletedActiveOnly(t) ==
  /\ IF active # t
     THEN UNCHANGED <<active, terminal, published, reports, asleep>>
     ELSE active' = None /\ Commit(t) /\ asleep' = {}
  /\ UNCHANGED <<attached, awaiting, startPending, observed>>

\* turn/completed.
OnCompleted(t) ==
  /\ IF t \in published /\ active # t
     THEN UNCHANGED <<active, startPending, observed, terminal, published, reports,
                      asleep>>
     ELSE /\ IF awaiting /\ observed \in {None, t} /\ active \in {None, t}
             THEN observed' = t /\ startPending' = FALSE
             ELSE UNCHANGED <<observed, startPending>>
          /\ active' = IF active = t THEN None ELSE active
          /\ Commit(t)
          /\ asleep' = {}
  /\ UNCHANGED <<attached, awaiting>>

\* History: snapshots in hand are superseded, and whether the detach was already.
Supersede ==
  /\ stale' = {r \in Readers : rpc[r] = "answered"}
  /\ slips' = IF detached THEN slips \cup {"late"} ELSE slips

Deliver(i) ==
  /\ Take(i)
  /\ stream[i].type \in {"started", "completed"}
  /\ IF stream[i].type = "started" THEN OnStarted(stream[i].turn)
                                   ELSE OnCompleted(stream[i].turn)
  /\ Supersede
  /\ UNCHANGED <<ut, ordered, conn, detached, clientVars, rpc, snap, old>>

\* A response is handed to the thread that waits for it; a response to a call that
\* has failed, and any that is dispatched after the connection failed, to nobody.
HandReply(i) ==
  /\ Take(i)
  /\ stream[i].type = "reply"
  /\ LET c == stream[i].client
     IN  cpc' = IF conn /\ cpc[c] = "started" /\ cturn[c] = stream[i].turn
                THEN [cpc EXCEPT ![c] = "answered"] ELSE cpc
  /\ UNCHANGED <<ut, ordered, conn, detached, storeVars, cturn, asleep, readVars,
                 history>>

HandSnapshot(i) ==
  /\ Take(i)
  /\ stream[i].type = "snapshot"
  /\ LET r == stream[i].reader
     IN  IF conn
         THEN /\ rpc' = [rpc EXCEPT ![r] = "answered"]
              /\ snap' = [snap EXCEPT ![r] =
                            [active |-> stream[i].active, last |-> stream[i].last]]
         ELSE UNCHANGED <<rpc, snap>>
  /\ UNCHANGED <<ut, ordered, conn, detached, storeVars, clientVars, asleep, stale,
                 history>>

\* _fail_transport: threads that wait for a response get the error; frames that
\* were received before it are still dispatched.
Fail ==
  /\ conn
  /\ conn' = FALSE
  /\ \E n \in 0 .. Len(stream) : stream' = SubSeq(stream, 1, n)
  /\ UNCHANGED <<ut, ordered, detached, storeVars, clientVars, asleep, readVars,
                 history>>

\* Mutant: the active turn is dropped without a terminal.
DetachForgets ==
  /\ ~conn /\ ~detached
  /\ detached' = TRUE
  /\ attached' = FALSE /\ active' = None /\ startPending' = FALSE
  /\ awaiting' = FALSE /\ observed' = None
  /\ asleep' = {}
  /\ UNCHANGED <<ut, stream, ordered, conn, terminal, published, reports, clientVars,
                 readVars, history>>

\* The observers are told of the lost turn too, if there is one.
ReportLost == IF active = None THEN reports ELSE [reports EXCEPT ![active] = @ + 1]

\* The failing thread's transport/error: detach_all.  The lost turn is published
\* without a look at published_terminal_ids, and without being marked there.
Detach ==
  /\ ~conn /\ ~detached
  /\ detached' = TRUE
  /\ attached' = FALSE /\ active' = None /\ startPending' = FALSE
  /\ awaiting' = FALSE /\ observed' = None
  /\ terminal' = IF active = None THEN terminal
                                  ELSE [terminal EXCEPT ![active] = "lost"]
  /\ reports' = ReportLost
  /\ asleep' = {}
  /\ UNCHANGED <<ut, stream, ordered, conn, published, clientVars, readVars, history>>

-----------------------------------------------------------------------------
(* A client: start_turn, then wait for that turn; or turn_wait.            *)

InFlight == {c \in Clients : cpc[c] \in {"calling", "started", "answered"}}

\* Mutant: a start is reserved although another is under way.
ReserveOver(c) ==
  /\ cpc[c] = "idle"
  /\ attached /\ ~startPending /\ active = None
  /\ startPending' = TRUE /\ awaiting' = TRUE /\ observed' = None
  /\ cpc' = [cpc EXCEPT ![c] = "calling"]
  /\ old' = published
  /\ UNCHANGED <<upVars, attached, active, terminal, published, reports, cturn, asleep,
                 readVars, slips>>

\* reserve_start; any other state of the session is refused, without effect.
Reserve(c) ==
  /\ cpc[c] = "idle"
  /\ attached /\ ~startPending /\ ~awaiting /\ active = None
  /\ startPending' = TRUE /\ awaiting' = TRUE /\ observed' = None
  /\ cpc' = [cpc EXCEPT ![c] = "calling"]
  /\ old' = published
  /\ UNCHANGED <<upVars, attached, active, terminal, published, reports, cturn, asleep,
                 readVars, slips>>

\* cancel_start: whoever holds the reservation.
Cancel ==
  /\ startPending' = FALSE /\ awaiting' = FALSE /\ observed' = None
  /\ asleep' = {}
  /\ UNCHANGED <<attached, active, terminal, published, reports>>

\* The call is refused, times out or loses its connection.
StartFails(c) ==
  /\ cpc[c] \in {"calling", "started"}
  /\ Cancel
  /\ cpc' = [cpc EXCEPT ![c] = "idle"]
  /\ cturn' = [cturn EXCEPT ![c] = None]
  /\ UNCHANGED <<upVars, readVars, history>>

\* Mutant: the response makes its turn active although it may have ended already.
AcceptStartAnyway(c) ==
  /\ cpc[c] = "answered" /\ awaiting
  /\ observed \in {None, cturn[c]}
  /\ active' = cturn[c]
  /\ awaiting' = FALSE /\ startPending' = FALSE /\ observed' = None
  /\ asleep' = {}
  /\ cpc' = [cpc EXCEPT ![c] = "waiting"]
  /\ Supersede
  /\ UNCHANGED <<upVars, attached, terminal, published, reports, cturn, rpc, snap, old>>

\* reconcile_start accepts the response; the client goes on to wait for the turn,
\* or returns.
AcceptStart(c) ==
  /\ cpc[c] = "answered" /\ awaiting
  /\ observed \in {None, cturn[c]}
  /\ observed = None => active \in {None, cturn[c]}
  /\ active' = IF observed = None THEN cturn[c] ELSE active
  /\ awaiting' = FALSE /\ startPending' = FALSE /\ observed' = None
  /\ asleep' = {}
  /\ \/ cpc' = [cpc EXCEPT ![c] = "waiting"] /\ UNCHANGED cturn
     \/ cpc' = [cpc EXCEPT ![c] = "idle"] /\ cturn' = [cturn EXCEPT ![c] = None]
  /\ Supersede
  /\ UNCHANGED <<upVars, attached, terminal, published, reports, rpc, snap, old>>

\* reconcile_start raises: no reservation, or a reservation with another identity.
RefuseStart(c) ==
  /\ cpc[c] = "answered"
  /\ \/ /\ ~awaiting
        /\ UNCHANGED <<awaiting, startPending, observed, asleep>>
     \/ /\ awaiting
        /\ observed \notin {None, cturn[c]} \/ (observed = None /\ active \notin {None, cturn[c]})
        /\ awaiting' = FALSE /\ startPending' = FALSE /\ observed' = None
        /\ asleep' = {}
  /\ cpc' = [cpc EXCEPT ![c] = "cancelling"]
  /\ cturn' = [cturn EXCEPT ![c] = None]
  /\ UNCHANGED <<upVars, attached, active, terminal, published, reports, readVars,
                 history>>

\* The exception handler of start_turn, in a critical section of its own.
CancelRefused(c) ==
  /\ cpc[c] = "cancelling"
  /\ Cancel
  /\ cpc' = [cpc EXCEPT ![c] = "idle"]
  /\ slips' = IF awaiting THEN slips \cup {"stolen"} ELSE slips
  /\ UNCHANGED <<upVars, cturn, readVars, old>>

TurnWait(c) ==
  /\ cpc[c] = "idle" /\ attached
  /\ cpc' = [cpc EXCEPT ![c] = "waitingAny"]
  /\ UNCHANGED <<upVars, storeVars, cturn, asleep, readVars, history>>

\* The condition of the loop in wait(), for one turn or for whichever is active.
MustWait(c) == IF cpc[c] = "waiting" THEN active = cturn[c]
                                     ELSE startPending \/ active # None

WaitSleep(c) ==
  /\ cpc[c] \in {"waiting", "waitingAny"} /\ c \notin asleep /\ MustWait(c)
  /\ asleep' = asleep \cup {c}
  /\ UNCHANGED <<upVars, storeVars, clientVars, readVars, history>>

\* wait() returns the terminal of the turn; there may be none (NoTurn).
WaitReturn(c) ==
  /\ cpc[c] \in {"waiting", "waitingAny"} /\ c \notin asleep /\ ~MustWait(c)
  /\ cpc' = [cpc EXCEPT ![c] =
       IF @ = "waiting" /\ terminal[cturn[c]] = "none" THEN "misled" ELSE "idle"]
  /\ cturn' = [cturn EXCEPT ![c] = None]
  /\ UNCHANGED <<upVars, storeVars, asleep, readVars, history>>

\* Mutant: a wait that timed out stays among the sleepers.
WaitTimeoutAsleep(c) ==
  /\ cpc[c] \in {"waiting", "waitingAny"} /\ c \in asleep
  /\ cpc' = [cpc EXCEPT ![c] = "idle"]
  /\ cturn' = [cturn EXCEPT ![c] = None]
  /\ UNCHANGED <<upVars, storeVars, asleep, readVars, history>>

WaitTimeout(c) ==
  /\ cpc[c] \in {"waiting", "waitingAny"} /\ c \in asleep
  /\ cpc' = [cpc EXCEPT ![c] = "idle"]
  /\ cturn' = [cturn EXCEPT ![c] = None]
  /\ asleep' = asleep \ {c}
  /\ UNCHANGED <<upVars, storeVars, readVars, history>>

-----------------------------------------------------------------------------
(* A reader: turn_status, which reconciles a thread/read, or the resume    *)
(* of the session, which attaches it.                                      *)

ReadAsk(r) ==
  /\ rpc[r] = "idle"
  /\ rpc' = [rpc EXCEPT ![r] = "asked"]
  /\ UNCHANGED <<upVars, storeVars, clientVars, asleep, snap, stale, history>>

ReadFails(r) ==
  /\ rpc[r] = "asked" /\ ~conn
  /\ rpc' = [rpc EXCEPT ![r] = "idle"]
  /\ UNCHANGED <<upVars, storeVars, clientVars, asleep, snap, stale, history>>

Applied(r) ==
  /\ rpc' = [rpc EXCEPT ![r] = "idle"]
  /\ snap' = [snap EXCEPT ![r] = NoSnapshot]
  /\ stale' = stale \ {r}
  /\ slips' = slips \cup (IF r \in stale THEN {"stale"} ELSE {})
                    \cup (IF detached THEN {"late"} ELSE {})
  /\ asleep' = {}
  /\ UNCHANGED <<upVars, clientVars, old>>

\* Mutant: the last ended turn of the read counts as observed by a pending start.
ReconcilePoisons(r) ==
  /\ rpc[r] = "answered"
  /\ attached' = TRUE
  /\ active' = snap[r].active
  /\ observed' = IF ~awaiting THEN observed
                 ELSE IF snap[r].active # None THEN snap[r].active ELSE snap[r].last
  /\ IF snap[r].last = None THEN UNCHANGED <<terminal, published, reports>>
                            ELSE Commit(snap[r].last)
  /\ Applied(r)
  /\ UNCHANGED <<startPending, awaiting>>

\* reconcile_thread.
Reconcile(r) ==
  /\ rpc[r] = "answered"
  /\ attached' = TRUE
  /\ active' = snap[r].active
  /\ observed' = IF awaiting /\ snap[r].active # None THEN snap[r].active
                                                      ELSE observed
  /\ IF snap[r].last = None THEN UNCHANGED <<terminal, published, reports>>
                            ELSE Commit(snap[r].last)
  /\ Applied(r)
  /\ UNCHANGED <<startPending, awaiting>>

\* attach, with the response of thread/resume, whose contents are not used.
Attach(r) ==
  /\ rpc[r] = "answered"
  /\ attached' = TRUE
  /\ Applied(r)
  /\ UNCHANGED <<active, startPending, awaiting, observed, terminal, published, reports>>

-----------------------------------------------------------------------------

Upstream == ExternalStart \/ UpstreamFinish
            \/ (\E c \in Clients : UpstreamStart(c))
            \/ (\E r \in Readers : UpstreamRead(r))

Transport == Fail \/ Detach
             \/ \E i \in DOMAIN stream : Deliver(i) \/ HandReply(i) \/ HandSnapshot(i)

Client(c) == \/ Reserve(c) \/ StartFails(c) \/ AcceptStart(c) \/ RefuseStart(c)
             \/ CancelRefused(c) \/ TurnWait(c) \/ WaitSleep(c) \/ WaitReturn(c)
             \/ WaitTimeout(c)

Reader(r) == ReadAsk(r) \/ ReadFails(r) \/ Reconcile(r) \/ Attach(r)

Next == \/ Upstream \/ Transport
        \/ \E c \in Clients : Client(c)
        \/ \E r \in Readers : Reader(r)

Spec == Init /\ [][Next]_vars

(* Fairness: a turn ends; the reader thread dispatches what it received,   *)
(* and a failing transport detaches; a call is answered or times out, and  *)
(* a thread with an answer goes on.  Nothing obliges anyone to start a     *)
(* turn or to ask, and no wait to time out.                                *)
Fairness ==
  /\ WF_vars(UpstreamFinish) /\ WF_vars(Detach)
  /\ WF_vars(Deliver(1) \/ HandReply(1) \/ HandSnapshot(1))
  /\ \A c \in Clients : WF_vars(\/ StartFails(c) \/ AcceptStart(c) \/ RefuseStart(c)
                                \/ CancelRefused(c) \/ WaitSleep(c) \/ WaitReturn(c))
  /\ \A r \in Readers : WF_vars(ReadFails(r) \/ Reconcile(r) \/ Attach(r))

FairSpec == Spec /\ Fairness

-----------------------------------------------------------------------------
(* Properties.  The connection delivers in order; unless it does not, or   *)
(* one of the slips happened, the books are right.                         *)

Sound == ordered /\ slips = {}

\* Observers (the callback dispatcher) are told of a turn's end once, as done or as
\* lost with the connection, however its notification, its reads and the detach
\* cross.  detach_all tells of the active turn whatever was published before, so it
\* takes more than the mark: no turn may be active once its end is published, and
\* nothing be told after the detach, which Sound excepts: there the code tells of the
\* turn again, and differently.  (on_notification, reconcile_thread, detach_all)
ReportedOnce == Sound => \A t \in Turns : reports[t] <= 1

\* While the session is attached a reservation stands exactly as long as its start is
\* under way, and there is one at most: a client never starts a turn over another's
\* start.  Only a refused response, which cancels twice, breaks it: the second time
\* the reservation may be another's.  (reserve_start, cancel_start, start_turn's
\* handler)
ReservationExclusive ==
  ~detached /\ "stolen" \notin slips =>
    /\ Cardinality(InFlight) <= 1
    /\ awaiting <=> InFlight # {}

\* A turn that had ended before a start was reserved is never taken for the turn of
\* that start.  (runtime.py:289 and 424, "must not poison the pending response")
PendingIdentityFresh == Sound /\ awaiting => observed \notin old

\* A client that waits for the turn it started is never told there is none, as long as
\* the stream keeps its order and there was no slip.  (wait)
WaiterNotMisled ==
  \A c \in Clients : cpc[c] = "misled" => ~Sound

\* "A completion snapshot is immutable once terminal" (codex-worker-server-design:352).
TerminalImmutable ==
  [][\A t \in Turns : terminal[t] # "none" => terminal'[t] = terminal[t]]_vars

\* It is, as long as the stream keeps its order and there was no slip.
TerminalStable ==
  [][Sound' =>
       \A t \in Turns : terminal[t] # "none" => terminal'[t] = terminal[t]]_vars

\* A client's wait for the turn it started comes to its end without a timeout: the
\* turn ends or is lost with the connection, and either wakes the client.  (wait)
WaitEnds ==
  \A c \in Clients :
    cpc[c] = "waiting" ~> cpc[c] # "waiting" \/ ~Sound

\* The end of every turn is published, or the connection was lost before.
EndsPublished ==
  \A t \in Turns : ut[t] = "done" ~> t \in published \/ ~conn
=============================================================================
