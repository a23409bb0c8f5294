--------------------------- MODULE TerminalCallback ---------------------------
(***************************************************************************)
(* TerminalCallbackDispatcher (callback_dispatcher.py) over CallbackStore  *)
(* (callback_store.py): how the end of a turn becomes a callback.          *)
(*                                                                         *)
(* Per turn two threads meet: the thread that publishes the terminal from  *)
(* RuntimeStore, and the client's, which started the turn, registers its   *)
(* projection context and waits (facade._start_and_wait).  One worker      *)
(* thread projects, persists and sends; shutdown drains what it left.  The *)
(* durable outbox survives the process.                                    *)
(*                                                                         *)
(* Not modelled: what an event says, its conversion to an artifact when it *)
(* is too large (an operation of the store like the others), the attempt   *)
(* counters, and bindings that are not enabled.                            *)
(***************************************************************************)
EXTENDS Integers, FiniteSets

CONSTANTS Turns,      \* turns, each with one client
          Worker,     \* the worker thread, and after it the thread in shutdown()
          NoTurn,
          Recovered,  \* turns of an earlier daemon, whose event is still pending
          Poisons,    \* choices of the turns whose terminal can never be persisted
          Oddities,   \* choices of the turns that end in a status of no known name
          MaxSends,   \* bound: frames sent for one turn
          MaxCrashes  \* bound: crashes of the daemon

ASSUME TerminalCallbackAssumption ==
  /\ Worker \notin Turns /\ NoTurn \notin Turns
  /\ Recovered \subseteq Turns
  /\ Poisons \subseteq SUBSET Turns /\ Oddities \subseteq SUBSET Turns
  /\ MaxSends \in Nat /\ MaxCrashes \in Nat

Threads == Turns \cup {Worker}   \* the client of turn k is thread k

VARIABLES
  book,      \* per turn: the tables of the dispatcher that have an entry of it
  retained,  \* RuntimeStore still has the terminal of the turn
  pub,       \* publishing thread
  pc,        \* clients and worker
  wkey,      \* the turn the worker is about
  batch,     \* the outbox entries it has still to attempt
  mode,      \* the worker thread runs, is gone, or shutdown drains, is down
  stopping,  \* _stopping
  asleep,    \* threads in _condition.wait() without a timeout
  outbox,    \* the store: durable entry of the turn
  faults,    \* the store: turns whose terminal fault was recorded (the binding
             \* shows the last attempt of its session)
  poison,    \* the choice from Poisons
  odd,       \* the choice from Oddities: RuntimeStore keeps whatever status the end of
             \* a turn names, "unknown" if it names none (and refuses a later read of
             \* such a turn); the dispatcher knows completed, failed and interrupted
  lossTold,  \* history: persistence losses diagnosed
  sends,     \* history: frames written to the target's socket
  unacked,   \* history: of these, not recorded as written
  projected, \* history: projections made of the turn's terminal
  dropped,   \* history: turns forgotten, in a crash or at the end of the drain, before
             \* there was a durable trace of their callback
  slips,     \* history: see Slips
  crashes

storeVars == <<outbox, faults, poison, odd>>
workerVars == <<wkey, batch, mode>>
history == <<lossTold, sends, unacked, projected, dropped, slips>>
vars == <<book, retained, pub, pc, workerVars, stopping, asleep, storeVars,
          history, crashes>>

\* In the present daemon.  "died": a store error ended the worker thread.  "overtaken":
\* a turn was forgotten between the two critical sections of _on_terminal, which then
\* handed its snapshot over to nobody.  "reclaimed": a fallback claimed a turn that
\* was done and forgotten already.
Slips == {"died", "overtaken", "reclaimed"}

\* The tables: _contexts, _snapshots, _completions, _projection_errors,
\* _projection_owners, _persistence_owners, _processing, _callback_done,
\* _callback_abandoned and _client_done.
Fields == {"context", "snapshot", "completion", "error", "projecting",
           "persisting", "processing", "done", "lost", "client"}
Forgotten == {}

ClientPCs == {"idle", "observe", "query", "queryHand", "wait", "complete", "fetch",
              "project", "projecting", "projected", "faulting", "recordingFault",
              "faulted", "fallback", "fallPersisting", "fallRecording",
              "abandon", "answered", "raised", "abandoned", "strayed", "crashed"}

\* Callers that have their answer, which no crash takes back.
Told == {"answered", "raised", "abandoned", "strayed"}

WorkerPCs == {"loop", "project", "projecting", "faulting", "recordingFault",
              "persist", "persisting", "recordingLoss", "persistFailed",
              "finish", "send", "acking"}

TypeOK ==
  /\ book \in [Turns -> SUBSET Fields]
  /\ retained \subseteq Turns
  /\ pub \in [Turns -> {"running", "observing", "handing", "releasing", "told"}]
  /\ pc \in [Threads -> ClientPCs \cup WorkerPCs]
  /\ pc[Worker] \in WorkerPCs /\ \A k \in Turns : pc[k] \in ClientPCs
  /\ wkey \in Turns \cup {NoTurn} /\ batch \subseteq Turns
  /\ wkey = NoTurn <=> pc[Worker] \in {"loop", "send"}
  /\ pc[Worker] \notin {"send", "acking"} => batch = {}
  /\ mode \in {"run", "gone", "drain", "down"}
  /\ stopping \in BOOLEAN
  /\ asleep \subseteq {th \in Threads : pc[th] \in {"project", "faulting", "persist"}}
  /\ outbox \in [Turns -> {"none", "pending", "written"}]
  /\ faults \subseteq Turns /\ poison \in Poisons /\ odd \in Oddities
  /\ lossTold \subseteq Turns /\ dropped \subseteq Turns
  /\ sends \in [Turns -> 0 .. MaxSends] /\ unacked \in [Turns -> 0 .. MaxSends]
  /\ projected \in [Turns -> Nat]
  /\ slips \subseteq Slips /\ crashes \in 0 .. MaxCrashes

Init ==
  /\ book = [k \in Turns |-> Forgotten] /\ retained = {}
  /\ pub = [k \in Turns |-> IF k \in Recovered THEN "told" ELSE "running"]
  /\ pc = [th \in Threads |-> CASE th = Worker -> "loop"
                               [] th \in Recovered -> "crashed"
                               [] OTHER -> "idle"]
  /\ wkey = NoTurn /\ batch = {} /\ mode = "run" /\ stopping = FALSE /\ asleep = {}
  /\ outbox = [k \in Turns |-> IF k \in Recovered THEN "pending" ELSE "none"]
  /\ faults = {} /\ poison \in Poisons /\ odd \in Oddities
  /\ lossTold = {} /\ dropped = {} /\ sends = [k \in Turns |-> 0]
  /\ unacked = [k \in Turns |-> 0] /\ projected = [k \in Turns |-> 0]
  /\ slips = {} /\ crashes = 0

-----------------------------------------------------------------------------
(* The tables.                                                             *)

\* Mutant: forgotten although its client is not done.
CleanupEarly(e) == IF ("done" \in e \/ "lost" \in e) /\ "processing" \notin e
                   THEN Forgotten ELSE e

\* _cleanup: a turn is forgotten when its callback and its client are done.
Cleanup(e) == IF /\ "done" \in e \/ "lost" \in e
                 /\ "client" \in e /\ "processing" \notin e
              THEN Forgotten ELSE e

\* Add and discard entries of turn k, with and without the clean-up.
Note(k, added, discarded) == (book[k] \ discarded) \cup added
Enter(k, added, discarded) ==
  book' = [book EXCEPT ![k] = Note(k, added, discarded)]
Settle(k, added, discarded) ==
  book' = [book EXCEPT ![k] = Cleanup(Note(k, added, discarded))]

\* _handoff: the first snapshot of the turn is kept, if its status is one of
\* _TERMINAL_STATUSES; else nothing is stored and nobody is notified.
Handoff(k) ==
  IF k \in odd THEN UNCHANGED <<book, asleep>>
               ELSE Enter(k, {"snapshot"}, {}) /\ asleep' = {}

Ready(k) == /\ "snapshot" \in book[k] /\ "context" \in book[k]
            /\ "processing" \notin book[k] /\ "done" \notin book[k] /\ "lost" \notin book[k]

\* There is a durable trace of the end of turn k: an event, or a fault; or its
\* loss was diagnosed.
Accounted(k) == outbox[k] # "none" \/ k \in faults \/ k \in lossTold

Tracked(k) == ~(book[k] \subseteq {"done", "client"})

\* The turn a thread is about.
Key(th) == IF th = Worker THEN wkey ELSE th
Goto(th, l) == pc' = [pc EXCEPT ![th] = l]

\* A store operation that raises may have replaced the file already.
Enqueued(k) == [outbox EXCEPT ![k] = IF @ = "none" THEN "pending" ELSE @]

-----------------------------------------------------------------------------
(* The end of a turn: RuntimeStore commits it, then tells the observer.    *)

TurnEnds(k) ==
  /\ pub[k] = "running" /\ pc[k] \notin {"idle", "crashed"}
  /\ retained' = retained \cup {k}
  /\ pub' = [pub EXCEPT ![k] = "observing"]
  /\ UNCHANGED <<book, pc, workerVars, stopping, asleep, storeVars, history, crashes>>

\* _on_terminal's critical section.
OnTerminal(k) ==
  /\ pub[k] = "observing"
  /\ pub' = [pub EXCEPT ![k] = IF "context" \notin book[k] THEN "told"
                               ELSE IF "client" \in book[k] THEN "releasing"
                               ELSE "handing"]
  /\ UNCHANGED <<book, retained, pc, workerVars, stopping, asleep, storeVars,
                 history, crashes>>

\* Its _handoff, in a critical section of its own.
PublisherHandoff(k) ==
  /\ pub[k] \in {"handing", "releasing"}
  /\ Handoff(k)
  /\ retained' = IF pub[k] = "releasing" THEN retained \ {k} ELSE retained
  /\ pub' = [pub EXCEPT ![k] = "told"]
  /\ slips' = IF "context" \in book[k] \/ k \in odd THEN slips
                                                   ELSE slips \cup {"overtaken"}
  /\ UNCHANGED <<pc, workerVars, stopping, storeVars, lossTold, sends, unacked,
                 projected, dropped, crashes>>

-----------------------------------------------------------------------------
(* The client: facade._start_and_wait, observe_turn, completion_for and    *)
(* abandon_completion.                                                     *)

\* start_turn has returned the id; the turn may have ended already.
TurnStarted(k) ==
  /\ pc[k] = "idle" /\ mode # "down"
  /\ Goto(k, "observe")
  /\ UNCHANGED <<book, retained, pub, workerVars, stopping, asleep, storeVars,
                 history, crashes>>

ObserveTurn(k) ==
  /\ pc[k] = "observe"
  /\ Enter(k, {"context"}, {}) /\ asleep' = {}
  /\ Goto(k, "query")
  /\ UNCHANGED <<retained, pub, workerVars, stopping, storeVars, history, crashes>>

\* Mutant: only what is published from now on is noticed.
QueryNothing(k) ==
  /\ pc[k] = "query"
  /\ Goto(k, "wait")
  /\ UNCHANGED <<book, retained, pub, workerVars, stopping, asleep, storeVars,
                 history, crashes>>

\* The terminal may have been published before the context was registered.
QueryTerminal(k) ==
  /\ pc[k] = "query"
  /\ Goto(k, IF k \in retained THEN "queryHand" ELSE "wait")
  /\ UNCHANGED <<book, retained, pub, workerVars, stopping, asleep, storeVars,
                 history, crashes>>

ClientHandoff(k) ==
  /\ pc[k] \in {"queryHand", "complete"}
  /\ Handoff(k)
  /\ retained' = IF pc[k] = "complete" THEN retained \ {k} ELSE retained
  /\ Goto(k, IF pc[k] = "complete" THEN "fetch" ELSE "wait")
  /\ UNCHANGED <<pub, workerVars, stopping, storeVars, history, crashes>>

\* The runtime's wait returns the terminal, or times out, or ends in any other error,
\* after which _start_and_wait abandons nothing.
WaitReturns(k) ==
  /\ pc[k] = "wait" /\ k \in retained
  /\ Goto(k, "complete")
  /\ UNCHANGED <<book, retained, pub, workerVars, stopping, asleep, storeVars,
                 history, crashes>>

WaitTimesOut(k) ==
  /\ pc[k] = "wait"
  /\ Goto(k, "abandon")
  /\ UNCHANGED <<book, retained, pub, workerVars, stopping, asleep, storeVars,
                 history, crashes>>

WaitFails(k) ==
  /\ pc[k] = "wait"
  /\ Goto(k, "strayed")
  /\ UNCHANGED <<book, retained, pub, workerVars, stopping, asleep, storeVars,
                 history, crashes>>

AbandonCompletion(k) ==
  /\ pc[k] = "abandon"
  /\ Settle(k, {"client"}, {})
  /\ Goto(k, "abandoned")
  /\ UNCHANGED <<retained, pub, workerVars, stopping, asleep, storeVars, history,
                 crashes>>

\* completion_for reads its context and snapshot; a missing one is a KeyError, which
\* ends the call and leaves the tables as they are.
FetchTurn(k) ==
  /\ pc[k] = "fetch" /\ "context" \in book[k] /\ "snapshot" \in book[k]
  /\ Goto(k, "project")
  /\ UNCHANGED <<book, retained, pub, workerVars, stopping, asleep, storeVars,
                 history, crashes>>

FetchFails(k) ==
  /\ pc[k] = "fetch" /\ ~({"context", "snapshot"} \subseteq book[k])
  /\ Goto(k, "strayed")
  /\ UNCHANGED <<book, retained, pub, workerVars, stopping, asleep, storeVars,
                 history, crashes>>

\* What is_alive() may say of the worker thread: one that has left its loop is alive
\* until it has been joined, or not.
WorkerThreadAlive ==
  {alive \in BOOLEAN : (mode = "run" => alive) /\ (mode \in {"drain", "down"} => ~alive)}

\* Mutants of RespondClient: the callback is left to the worker thread even if that
\* has ended, and the turn is not cleaned up.
RespondTrusting(k) ==
  /\ pc[k] = "projected"
  /\ Settle(k, {"client"}, {})
  /\ Goto(k, "answered")
  /\ UNCHANGED <<retained, pub, workerVars, stopping, asleep, storeVars, history,
                 crashes>>

RespondUntidy(k) ==
  /\ pc[k] = "projected"
  /\ Enter(k, {"client"}, {})
  /\ \E alive \in WorkerThreadAlive : Goto(k, IF alive THEN "answered" ELSE "fallback")
  /\ UNCHANGED <<retained, pub, workerVars, stopping, asleep, storeVars, history,
                 crashes>>

\* The completion is there: leave the callback to a worker that is alive, else
\* persist it oneself.
RespondClient(k) ==
  /\ pc[k] = "projected"
  /\ Settle(k, {"client"}, {})
  /\ \E alive \in WorkerThreadAlive : Goto(k, IF alive THEN "answered" ELSE "fallback")
  /\ UNCHANGED <<retained, pub, workerVars, stopping, asleep, storeVars, history,
                 crashes>>

\* completion_for raises after a projection error.
RaiseClient(k) ==
  /\ pc[k] = "faulted" /\ k \in Turns
  /\ Settle(k, {"client"}, {})
  /\ Goto(k, "raised")
  /\ UNCHANGED <<retained, pub, workerVars, stopping, asleep, storeVars, history,
                 crashes>>

\* _persist_fallback_once.  Its test of what the worker has done comes after the
\* clean-up of RespondClient, which may have forgotten that it was done.
ClaimFallback(k) ==
  /\ pc[k] = "fallback"
  /\ \/ /\ "done" \in book[k] \/ "lost" \in book[k] \/ "persisting" \in book[k]
        /\ Settle(k, {}, {})
        /\ Goto(k, "answered")
        /\ UNCHANGED slips
     \/ /\ "done" \notin book[k] /\ "lost" \notin book[k]
        /\ "persisting" \notin book[k]
        /\ Enter(k, {"persisting"}, {})
        /\ Goto(k, "fallPersisting")
        /\ slips' = IF "context" \in book[k] THEN slips ELSE slips \cup {"reclaimed"}
  /\ UNCHANGED <<retained, pub, workerVars, stopping, asleep, storeVars, lossTold,
                 sends, unacked, projected, dropped, crashes>>

FallbackPersists(k) ==
  /\ pc[k] = "fallPersisting" /\ k \notin poison
  /\ outbox' = Enqueued(k)
  /\ Settle(k, {"done"}, {"persisting"}) /\ asleep' = {}
  /\ Goto(k, "answered")
  /\ UNCHANGED <<retained, pub, workerVars, stopping, faults, poison, odd, history,
                 crashes>>

FallbackFails(k) ==
  /\ pc[k] = "fallPersisting"
  /\ outbox' \in {outbox} \cup (IF k \in poison THEN {} ELSE {Enqueued(k)})
  /\ Goto(k, "fallRecording")
  /\ UNCHANGED <<book, retained, pub, workerVars, stopping, asleep, faults, poison,
                 odd, history, crashes>>

FallbackRecords(k) ==
  /\ pc[k] = "fallRecording"
  /\ \/ faults' = faults \cup {k} /\ Settle(k, {"done"}, {"persisting"})
        /\ UNCHANGED lossTold
     \/ faults' \in {faults, faults \cup {k}} /\ Settle(k, {"lost"}, {"persisting"})
        /\ lossTold' = lossTold \cup {k}
  /\ asleep' = {}
  /\ Goto(k, "answered")
  /\ UNCHANGED <<retained, pub, workerVars, stopping, outbox, poison, odd, sends,
                 unacked, projected, dropped, slips, crashes>>

-----------------------------------------------------------------------------
(* _project_once and _durable_fault_once, for either thread.               *)

ProjectClaim(th) ==
  /\ pc[th] = "project" /\ th \notin asleep
  /\ LET k == Key(th) IN
     \/ /\ "completion" \in book[k]
        /\ Goto(th, IF th = Worker THEN "persist" ELSE "projected")
        /\ UNCHANGED <<book, asleep>>
     \/ /\ "completion" \notin book[k] /\ "error" \in book[k]
        /\ Goto(th, "faulting")
        /\ UNCHANGED <<book, asleep>>
     \/ /\ "completion" \notin book[k] /\ "error" \notin book[k]
        /\ "projecting" \notin book[k]
        /\ Enter(k, {"projecting"}, {})
        /\ Goto(th, "projecting")
        /\ UNCHANGED asleep
     \/ /\ "completion" \notin book[k] /\ "error" \notin book[k]
        /\ "projecting" \in book[k]
        /\ asleep' = asleep \cup {th}
        /\ UNCHANGED <<book, pc>>
  /\ UNCHANGED <<retained, pub, workerVars, stopping, storeVars, history, crashes>>

\* Mutant: the projection is not kept for the other thread.
ProjectEndUnshared(th) ==
  /\ pc[th] = "projecting"
  /\ projected' = [projected EXCEPT ![Key(th)] = @ + 1]
  /\ Enter(Key(th), {}, {"projecting"})
  /\ Goto(th, IF th = Worker THEN "persist" ELSE "projected")
  /\ asleep' = {}
  /\ UNCHANGED <<retained, pub, workerVars, stopping, storeVars, lossTold, sends,
                 unacked, dropped, slips, crashes>>

ProjectEnd(th) ==
  /\ pc[th] = "projecting"
  /\ LET k == Key(th) IN
     /\ projected' = [projected EXCEPT ![k] = @ + 1]
     /\ \/ /\ Enter(k, {"completion"}, {"projecting"})
           /\ Goto(th, IF th = Worker THEN "persist" ELSE "projected")
        \/ /\ Enter(k, {"error"}, {"projecting"})
           /\ Goto(th, "faulting")
  /\ asleep' = {}
  /\ UNCHANGED <<retained, pub, workerVars, stopping, storeVars, lossTold, sends,
                 unacked, dropped, slips, crashes>>

FaultClaim(th) ==
  /\ pc[th] = "faulting" /\ th \notin asleep
  /\ LET k == Key(th) IN
     \/ /\ "done" \in book[k]
        /\ Goto(th, IF th = Worker THEN "finish" ELSE "faulted")
        /\ UNCHANGED <<book, asleep>>
     \/ /\ "done" \notin book[k] /\ "persisting" \notin book[k]
        /\ Enter(k, {"persisting"}, {})
        /\ Goto(th, "recordingFault")
        /\ UNCHANGED asleep
     \/ /\ "done" \notin book[k] /\ "persisting" \in book[k]
        /\ asleep' = asleep \cup {th}
        /\ UNCHANGED <<book, pc>>
  /\ UNCHANGED <<retained, pub, workerVars, stopping, storeVars, history, crashes>>

\* record_terminal_fault succeeds, or raises; then only a stopping dispatcher gives
\* the turn up.
FaultAfter(th) == Goto(th, IF th = Worker THEN "finish" ELSE "faulted")

\* Mutant: the other thread is not woken.
FaultRecordedSilently(th) ==
  /\ pc[th] = "recordingFault"
  /\ faults' = faults \cup {Key(th)}
  /\ Settle(Key(th), {"done"}, {"persisting"})
  /\ FaultAfter(th)
  /\ UNCHANGED <<retained, pub, workerVars, stopping, asleep, outbox, poison, odd,
                 history, crashes>>

FaultRecorded(th) ==
  /\ pc[th] = "recordingFault"
  /\ faults' = faults \cup {Key(th)}
  /\ Settle(Key(th), {"done"}, {"persisting"}) /\ asleep' = {}
  /\ FaultAfter(th)
  /\ UNCHANGED <<retained, pub, workerVars, stopping, outbox, poison, odd, history,
                 crashes>>

FaultUnrecorded(th) ==
  /\ pc[th] = "recordingFault"
  /\ faults' \in {faults, faults \cup {Key(th)}}
  /\ Settle(Key(th), IF stopping THEN {"lost"} ELSE {}, {"persisting"})
  /\ lossTold' = IF stopping THEN lossTold \cup {Key(th)} ELSE lossTold
  /\ asleep' = {}
  /\ FaultAfter(th)
  /\ UNCHANGED <<retained, pub, workerVars, stopping, outbox, poison, odd, sends,
                 unacked, projected, dropped, slips, crashes>>

-----------------------------------------------------------------------------
(* The worker: _run, _process_terminal, _persist_once, _attempt; and the   *)
(* thread in shutdown, which runs the same steps in _drain_ready.          *)

\* The code takes the first ready turn in the order of the snapshots.
WorkerTake ==
  /\ pc[Worker] = "loop" /\ mode \in {"run", "drain"}
  /\ \E k \in Turns : Ready(k) /\ Enter(k, {"processing"}, {}) /\ wkey' = k
  /\ Goto(Worker, "project")
  /\ UNCHANGED <<retained, pub, batch, mode, stopping, asleep, storeVars, history,
                 crashes>>

PersistClaim ==
  /\ pc[Worker] = "persist" /\ Worker \notin asleep
  /\ \/ /\ "done" \in book[wkey] \/ "lost" \in book[wkey]
        /\ Goto(Worker, "finish")
        /\ UNCHANGED <<book, asleep>>
     \/ /\ "done" \notin book[wkey] /\ "lost" \notin book[wkey]
        /\ "persisting" \notin book[wkey]
        /\ Enter(wkey, {"persisting"}, {})
        /\ Goto(Worker, "persisting")
        /\ UNCHANGED asleep
     \/ /\ "done" \notin book[wkey] /\ "lost" \notin book[wkey]
        /\ "persisting" \in book[wkey]
        /\ asleep' = asleep \cup {Worker}
        /\ UNCHANGED <<book, pc>>
  /\ UNCHANGED <<retained, pub, workerVars, stopping, storeVars, history, crashes>>

WorkerPersists ==
  /\ pc[Worker] = "persisting" /\ wkey \notin poison
  /\ outbox' = Enqueued(wkey)
  /\ Settle(wkey, {"done"}, {"persisting"}) /\ asleep' = {}
  /\ Goto(Worker, "finish")
  /\ UNCHANGED <<retained, pub, workerVars, stopping, faults, poison, odd, history,
                 crashes>>

WorkerPersistFails ==
  /\ pc[Worker] = "persisting"
  /\ outbox' \in {outbox} \cup (IF wkey \in poison THEN {} ELSE {Enqueued(wkey)})
  /\ Goto(Worker, "recordingLoss")
  /\ UNCHANGED <<book, retained, pub, workerVars, stopping, asleep, faults, poison,
                 odd, history, crashes>>

\* The failure is recorded, or that fails too; a dispatcher that is not stopping
\* keeps the turn for a retry.
WorkerRecordsLoss ==
  /\ pc[Worker] = "recordingLoss"
  /\ faults' = faults \cup {wkey}
  /\ Settle(wkey, IF stopping THEN {"done"} ELSE {}, {"persisting"})
  /\ asleep' = {}
  /\ Goto(Worker, "persistFailed")
  /\ UNCHANGED <<retained, pub, workerVars, stopping, outbox, poison, odd, history,
                 crashes>>

WorkerLosesRecord ==
  /\ pc[Worker] = "recordingLoss"
  /\ faults' \in {faults, faults \cup {wkey}}
  /\ Settle(wkey, IF stopping THEN {"lost"} ELSE {}, {"persisting"})
  /\ lossTold' = IF stopping THEN lossTold \cup {wkey} ELSE lossTold
  /\ asleep' = {}
  /\ Goto(Worker, "persistFailed")
  /\ UNCHANGED <<retained, pub, workerVars, stopping, outbox, poison, odd, sends,
                 unacked, projected, dropped, slips, crashes>>

\* _persist_once returns _stopping; if false, the turn stays ready for a retry.
WorkerRetries ==
  /\ pc[Worker] = "persistFailed"
  /\ IF stopping
     THEN Goto(Worker, "finish") /\ UNCHANGED <<book, wkey>>
     ELSE /\ Enter(wkey, {}, {"processing"})
          /\ wkey' = NoTurn
          /\ Goto(Worker, "loop")
  /\ UNCHANGED <<retained, pub, batch, mode, stopping, asleep, storeVars, history,
                 crashes>>

WorkerFinish ==
  /\ pc[Worker] = "finish"
  /\ Settle(wkey, {}, {"processing"}) /\ asleep' = {}
  /\ wkey' = NoTurn
  /\ Goto(Worker, "loop")
  /\ UNCHANGED <<retained, pub, batch, mode, stopping, storeVars, history, crashes>>

Pending == {k \in Turns : outbox[k] = "pending"}

\* No turn is ready: attempt the pending entries.
WorkerScan ==
  /\ pc[Worker] = "loop" /\ mode = "run" /\ ~stopping
  /\ \A k \in Turns : ~Ready(k)
  /\ Pending # {}
  /\ batch' = Pending
  /\ Goto(Worker, "send")
  /\ UNCHANGED <<book, retained, pub, wkey, mode, stopping, asleep, storeVars,
                 history, crashes>>

\* _attempt: the frame is written to the target's socket.
WorkerSends ==
  /\ pc[Worker] = "send" /\ ~stopping
  /\ \E k \in batch :
       /\ sends[k] < MaxSends
       /\ sends' = [sends EXCEPT ![k] = @ + 1]
       /\ wkey' = k
  /\ Goto(Worker, "acking")
  /\ UNCHANGED <<book, retained, pub, batch, mode, stopping, asleep, storeVars,
                 lossTold, unacked, projected, dropped, slips, crashes>>

\* Mutant: the fault of the transport is not caught.
WorkerSendFailsUncaught ==
  /\ pc[Worker] = "send" /\ ~stopping /\ batch # {}
  /\ mode' = "gone" /\ batch' = {}
  /\ Goto(Worker, "loop")
  /\ UNCHANGED <<book, retained, pub, wkey, stopping, asleep, storeVars, history,
                 crashes>>

\* The transport refuses; record_failed leaves the entry pending.
WorkerSendFails ==
  /\ pc[Worker] = "send" /\ ~stopping
  /\ \E k \in batch : batch' = batch \ {k}
  /\ UNCHANGED <<book, retained, pub, pc, wkey, mode, stopping, asleep, storeVars,
                 history, crashes>>

\* store.binding raises, outside every handler: the thread ends.
WorkerDies ==
  /\ pc[Worker] = "send" /\ ~stopping /\ batch # {}
  /\ mode' = "gone"
  /\ batch' = {}
  /\ slips' = slips \cup {"died"}
  /\ Goto(Worker, "loop")
  /\ UNCHANGED <<book, retained, pub, wkey, stopping, asleep, storeVars, lossTold,
                 sends, unacked, projected, dropped, crashes>>

\* Mutant: the write is not recorded.
WorkerAcksNothing ==
  /\ pc[Worker] = "acking" /\ sends[wkey] < MaxSends
  /\ batch' = batch \ {wkey}
  /\ wkey' = NoTurn
  /\ Goto(Worker, "send")
  /\ UNCHANGED <<book, retained, pub, mode, stopping, asleep, storeVars, history,
                 crashes>>

WorkerAcks ==
  /\ pc[Worker] = "acking"
  /\ outbox' = [outbox EXCEPT ![wkey] = "written"]
  /\ batch' = batch \ {wkey}
  /\ wkey' = NoTurn
  /\ Goto(Worker, "send")
  /\ UNCHANGED <<book, retained, pub, mode, stopping, asleep, faults, poison, odd,
                 history, crashes>>

\* record_written raises, which is ignored.
WorkerAckFails ==
  /\ pc[Worker] = "acking" /\ sends[wkey] < MaxSends
  /\ outbox' \in {outbox, [outbox EXCEPT ![wkey] = "written"]}
  /\ unacked' = [unacked EXCEPT ![wkey] = @ + 1]
  /\ batch' = batch \ {wkey}
  /\ wkey' = NoTurn
  /\ Goto(Worker, "send")
  /\ UNCHANGED <<book, retained, pub, mode, stopping, asleep, faults, poison, odd,
                 lossTold, sends, projected, dropped, slips, crashes>>

\* Mutant: the rest of the batch is kept when stopping.
WorkerBatchAbandoned ==
  /\ pc[Worker] = "send"
  /\ batch = {} \/ stopping
  /\ mode' = IF batch # {} THEN "gone" ELSE mode
  /\ Goto(Worker, "loop")
  /\ UNCHANGED <<book, retained, pub, wkey, batch, stopping, asleep, storeVars,
                 history, crashes>>

\* The batch is done: back to the loop.  When stopping the thread ends at once.
WorkerBatchEnds ==
  /\ pc[Worker] = "send"
  /\ batch = {} \/ stopping
  /\ mode' = IF batch # {} THEN "gone" ELSE mode
  /\ batch' = {}
  /\ Goto(Worker, "loop")
  /\ UNCHANGED <<book, retained, pub, wkey, stopping, asleep, storeVars, history,
                 crashes>>

WorkerExits ==
  /\ pc[Worker] = "loop" /\ mode = "run" /\ stopping
  /\ \A k \in Turns : ~Ready(k)
  /\ mode' = "gone"
  /\ UNCHANGED <<book, retained, pub, pc, wkey, batch, stopping, asleep, storeVars,
                 history, crashes>>

-----------------------------------------------------------------------------
(* Shutdown and crashes.                                                   *)

Shutdown ==
  /\ ~stopping
  /\ stopping' = TRUE
  /\ asleep' = {}
  /\ UNCHANGED <<book, retained, pub, pc, workerVars, storeVars, history, crashes>>

\* The worker thread has ended: shutdown drains the ready turns.
DrainBegins ==
  /\ stopping /\ mode = "gone"
  /\ mode' = "drain"
  /\ UNCHANGED <<book, retained, pub, pc, wkey, batch, stopping, asleep, storeVars,
                 history, crashes>>

\* None is left, or the deadline has passed.
DrainEnds ==
  /\ mode = "drain" /\ pc[Worker] = "loop"
  /\ mode' = "down"
  /\ dropped' = dropped \cup {k \in Turns : Ready(k)}
  /\ UNCHANGED <<book, retained, pub, pc, wkey, batch, stopping, asleep, storeVars,
                 lossTold, sends, unacked, projected, slips, crashes>>

\* The daemon crashes (also when its shutdown gives up on a worker that is still
\* busy) and another is started on the same outbox.  Callers that were told stay told.
Crash ==
  /\ crashes < MaxCrashes
  /\ pc[Worker] = "acking" => sends[wkey] < MaxSends
  /\ crashes' = crashes + 1
  /\ book' = [k \in Turns |-> Forgotten] /\ retained' = {}
  /\ pub' = [k \in Turns |-> IF pc[k] = "idle" THEN "running" ELSE "told"]
  /\ pc' = [th \in Threads |-> IF th = Worker THEN "loop"
                               ELSE IF pc[th] \in {"idle"} \cup Told THEN pc[th]
                               ELSE "crashed"]
  /\ wkey' = NoTurn /\ batch' = {} /\ mode' = "run" /\ stopping' = FALSE
  /\ asleep' = {}
  /\ unacked' = IF pc[Worker] = "acking" THEN [unacked EXCEPT ![wkey] = @ + 1]
                                         ELSE unacked
  /\ dropped' = dropped \cup {k \in Turns : book[k] # Forgotten /\ ~Accounted(k)}
  /\ slips' = {}
  /\ UNCHANGED <<storeVars, lossTold, sends, projected>>

-----------------------------------------------------------------------------

Publisher(k) == TurnEnds(k) \/ OnTerminal(k) \/ PublisherHandoff(k)

ClientSteps(k) ==
  \/ ObserveTurn(k) \/ QueryTerminal(k) \/ ClientHandoff(k) \/ WaitReturns(k)
  \/ AbandonCompletion(k) \/ FetchTurn(k) \/ FetchFails(k) \/ RespondClient(k)
  \/ RaiseClient(k)
  \/ ClaimFallback(k) \/ FallbackPersists(k) \/ FallbackFails(k) \/ FallbackRecords(k)

Shared(th) == ProjectClaim(th) \/ ProjectEnd(th) \/ FaultClaim(th)
              \/ FaultRecorded(th) \/ FaultUnrecorded(th)

WorkerSteps ==
  \/ WorkerTake \/ PersistClaim \/ WorkerPersists \/ WorkerPersistFails
  \/ WorkerRecordsLoss \/ WorkerLosesRecord \/ WorkerRetries \/ WorkerFinish
  \/ WorkerScan \/ WorkerSends \/ WorkerSendFails \/ WorkerAcks \/ WorkerAckFails
  \/ WorkerBatchEnds \/ WorkerExits

Next == \/ \E k \in Turns : \/ Publisher(k) \/ TurnStarted(k) \/ WaitTimesOut(k)
                            \/ WaitFails(k) \/ ClientSteps(k)
        \/ \E th \in Threads : Shared(th)
        \/ WorkerSteps \/ WorkerDies
        \/ Shutdown \/ DrainBegins \/ DrainEnds \/ Crash

Spec == Init /\ [][Next]_vars

(* Fairness: every thread goes on, also the one that publishes; a turn     *)
(* ends; the store and the target of the callbacks work again and again.   *)
Fairness ==
  /\ \A k \in Turns : /\ WF_vars(Publisher(k))
                      /\ WF_vars(ClientSteps(k) \/ Shared(k))
  /\ WF_vars(WorkerSteps \/ Shared(Worker))
  /\ SF_vars(WorkerPersists) /\ SF_vars(WorkerRecordsLoss)
  /\ SF_vars(FaultRecorded(Worker))
  /\ SF_vars(WorkerSends) /\ SF_vars(WorkerAcks)
  /\ WF_vars(DrainBegins) /\ WF_vars(DrainEnds)

FairSpec == Spec /\ Fairness

-----------------------------------------------------------------------------
(* Properties.                                                             *)

\* Somebody has still to see to the callback of turn k.
Owned(k) == \/ "processing" \in book[k] \/ "persisting" \in book[k]
            \/ Ready(k) /\ mode # "down"

\* A client that has its completion leaves a callback that is durable, or recorded as
\* failed, or that somebody still owns: worker, shutdown and client never each leave
\* it to the other.  What is lost all the same was owned when the daemon crashed, or
\* when the drain ran out of time: then the caller was answered and there may be no
\* trace.  (completion_for, _persist_fallback_once, shutdown)
AnsweredIsAccounted ==
  \A k \in Turns : pc[k] \in {"answered", "raised"} =>
    Accounted(k) \/ Owned(k) \/ k \in dropped

\* The client finds its context and snapshot although other threads clean up, so a
\* KeyError of completion_for has one cause only: a status that _handoff refused.
ClientFindsItsTurn ==
  \A k \in Turns : pc[k] = "fetch" =>
    /\ "context" \in book[k]
    /\ "snapshot" \in book[k] <=> k \notin odd

\* Client and worker share one projection, so the callback says what the caller was
\* told.  (_project_once)
ProjectedOnce == \A k \in Turns : projected[k] <= 1

\* No thread sleeps on a claim that has been given up or fulfilled: _cleanup forgets
\* claims without a notification.
NoLostWakeup ==
  \A th \in asleep : LET e == book[Key(th)] IN
    /\ pc[th] = "project" => "completion" \notin e /\ "error" \notin e /\ "projecting" \in e
    /\ pc[th] = "faulting" => "done" \notin e /\ "persisting" \in e
    /\ pc[th] = "persist" => "done" \notin e /\ "lost" \notin e /\ "persisting" \in e

\* An event is sent again only if it was sent but not recorded as written, because of
\* a crash or of a store error.  ("A recorded written entry is never intentionally
\* replayed", callbacks-design)
DuplicatesExplained == \A k \in Turns : sends[k] <= unacked[k] + 1

\* A turn whose client and callback are done is forgotten (the code's tests wait for
\* tracked_turn_count to reach 0, test_callback_dispatcher.py:212), unless its
\* publisher was overtaken or its fallback came after the clean-up.  (A client that
\* strayed is not done: its turn stays.)
NothingLeftBehind ==
  slips \cap {"overtaken", "reclaimed"} = {} =>
    \A k \in Turns : pc[k] \in {"answered", "raised", "abandoned"} /\ Tracked(k) =>
      \/ Owned(k) \/ wkey = k
      \/ mode = "down"
      \/ pc[k] = "abandoned" /\ "snapshot" \notin book[k]

\* "schedules every recovered/non-written entry with bounded backoff"
\* (callbacks-design): a pending event is delivered while the dispatcher runs.
PendingDelivered ==
  \A k \in Turns : outbox[k] = "pending" ~> outbox[k] # "pending" \/ stopping

\* It is, unless a store error has ended the worker or a terminal that cannot be
\* persisted keeps the worker from the outbox.
PendingDeliveredUnlessBlocked ==
  \A k \in Turns :
    outbox[k] = "pending" ~>
      \/ outbox[k] # "pending" \/ stopping \/ "died" \in slips
      \/ \E p \in poison : Ready(p) \/ "processing" \in book[p]

\* The end of a turn whose context is registered leaves a trace, even if its client has
\* given up waiting, unless the dispatcher is down or its worker has died, the daemon
\* crashed before there was one, or the turn ended in a status the dispatcher does not
\* know: such an end leaves none.  (_on_terminal, _handoff, observe_turn)
EndsAccounted ==
  \A k \in Turns :
    "context" \in book[k] /\ k \in retained /\ k \notin odd ~>
      Accounted(k) \/ mode = "down" \/ "died" \in slips \/ k \in dropped
=============================================================================
