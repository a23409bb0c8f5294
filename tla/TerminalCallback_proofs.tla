------------------------ MODULE TerminalCallback_proofs ------------------------
(***************************************************************************)
(* Why the dispatcher and its clients keep their promises: the invariants  *)
(* of TerminalCallback.                                                    *)
(*                                                                         *)
(* The argument is about one turn at a time.  Its entry in the dispatcher's*)
(* tables says exactly what client and worker are doing with it: each claim*)
(* (processing, projecting, persisting) belongs to one of them, and lasts  *)
(* as long as that thread is in the section it claims (Claims).  Because a *)
(* turn is forgotten only when its client has left and its callback is     *)
(* settled, a client that waits and a worker that works find the turn      *)
(* registered (Registered), the one projection is kept for both (Results), *)
(* and what is settled has left a trace (Traced).  What was sent is counted*)
(* against what the store knows (Counted).                                 *)
(***************************************************************************)
EXTENDS TerminalCallback, TLAPS

\* Where the worker is with turn k.
At(k) == IF wkey = k THEN pc[Worker] ELSE "away"
Working(k) == At(k) \notin {"away", "acking"}

\* The client before its context is registered, between that and leaving, when it
\* needs the snapshot, and when it has left.
Before == {"idle", "observe"}
During == {"query", "queryHand", "wait", "complete", "fetch", "project", "projecting",
           "projected", "faulting", "recordingFault", "faulted", "abandon"}
Fetched == {"fetch", "project", "projecting", "projected", "faulting", "recordingFault",
            "faulted"}
Falling == {"fallback", "fallPersisting", "fallRecording"}
Left == {"answered", "raised", "abandoned"} \cup Falling

\* The worker with a completion it has to persist.
Persisting == {"persist", "persisting", "recordingLoss", "persistFailed"}

ClientHolds(k) == pc[k] \in {"recordingFault", "fallPersisting", "fallRecording"}
WorkerHolds(k) == At(k) \in {"recordingFault", "persisting", "recordingLoss"}

-----------------------------------------------------------------------------
(* The inductive invariant, for turn k.                                    *)

\* Frames sent and their acknowledgements; what is still to be attempted is pending.
Counted(k) ==
  /\ unacked[k] + (IF At(k) = "acking" THEN 1 ELSE 0) <= sends[k]
  /\ sends[k] <= unacked[k] + (IF At(k) = "acking" \/ outbox[k] = "written" THEN 1 ELSE 0)
  /\ k \in batch => outbox[k] = "pending"
  /\ At(k) = "acking" => k \in batch

\* A claim belongs to exactly one thread, which is in the section it claims, and on a
\* turn whose callback is not settled.
Claims(k) ==
  /\ "processing" \in book[k] <=> Working(k)
  /\ "projecting" \in book[k] <=> pc[k] = "projecting" \/ At(k) = "projecting"
  /\ ~(pc[k] = "projecting" /\ At(k) = "projecting")
  /\ "persisting" \in book[k] <=> ClientHolds(k) \/ WorkerHolds(k)
  /\ ~(ClientHolds(k) /\ WorkerHolds(k))
  /\ "persisting" \in book[k] => "done" \notin book[k]
  /\ \/ pc[k] \in {"fallPersisting", "fallRecording"}
     \/ At(k) \in {"persisting", "recordingLoss"}
     => "lost" \notin book[k]

\* What is in the tables while client and worker need it, and that it goes.
Registered(k) ==
  /\ Working(k) => "context" \in book[k] /\ "snapshot" \in book[k]
  /\ pc[k] \in Before \cup {"crashed"} =>
       book[k] = {} /\ pub[k] \notin {"handing", "releasing"}
  /\ pc[k] \in During => "context" \in book[k] /\ "client" \notin book[k]
  /\ pc[k] \in Fetched => "snapshot" \in book[k] \/ (pc[k] = "fetch" /\ k \in odd)
  /\ k \in odd => "snapshot" \notin book[k]
  /\ "client" \in book[k] => pc[k] \in Left
  /\ "context" \in book[k] /\ pc[k] \in Left =>
       "client" \in book[k] /\ (pc[k] # "abandoned" => "snapshot" \in book[k])
  /\ "context" \in book[k] /\ "client" \in book[k] /\ "processing" \notin book[k] =>
       "done" \notin book[k] /\ "lost" \notin book[k]
  /\ slips \cap {"overtaken", "reclaimed"} = {} /\ "context" \notin book[k] =>
       book[k] = {}

\* At most one projection is made, and its result is kept; a worker that will retry
\* has a turn that is not settled, because only a stopping dispatcher lets a client
\* fall back, and a turn has a completion or an error.
Results(k) ==
  /\ projected[k] <= 1
  /\ pc[k] \in Before => projected[k] = 0
  /\ "context" \in book[k] /\ projected[k] # 0 =>
       "completion" \in book[k] \/ "error" \in book[k]
  /\ "projecting" \in book[k] =>
       projected[k] = 0 /\ "completion" \notin book[k] /\ "error" \notin book[k]
  /\ ~("completion" \in book[k] /\ "error" \in book[k])
  /\ At(k) \in Persisting => "completion" \in book[k]
  /\ pc[k] \in {"faulting", "recordingFault"} => "error" \in book[k]
  /\ pc[k] \in Falling => mode # "run"
  /\ At(k) = "persistFailed" /\ ~stopping =>
       "done" \notin book[k] /\ "lost" \notin book[k]

\* What is settled has left a trace, and what a client has left is settled or owned, or
\* was owned when the daemon forgot it.
Traced(k) ==
  /\ "done" \in book[k] => outbox[k] # "none" \/ k \in faults
  /\ "lost" \in book[k] => k \in lossTold
  /\ pc[k] \in {"answered", "raised", "faulted"} =>
       Accounted(k) \/ Owned(k) \/ k \in dropped

\* The worker thread that is gone has left its loop for good, and shutdown drains.
Modes ==
  /\ mode \in {"gone", "down"} => pc[Worker] = "loop"
  /\ mode \in {"drain", "down"} => stopping

Turn(k) == Counted(k) /\ Claims(k) /\ Registered(k) /\ Results(k) /\ Traced(k)
Callback == TypeOK /\ Modes /\ \A k \in Turns : Turn(k)

\* The vocabulary of the model and of the invariant, visible in every step below.
USE TerminalCallbackAssumption
    DEF At, Working, Before, During, Fetched, Falling, Left, Persisting, ClientHolds,
        WorkerHolds, Threads, ClientPCs, WorkerPCs, Fields, Slips, Key, Goto, Handoff,
        Ready, Pending, Told, Enter, Settle, Note, Cleanup, Forgotten, Enqueued, Accounted,
        Owned, FaultAfter, WorkerThreadAlive, workerVars, storeVars, history

-----------------------------------------------------------------------------

\* It holds at first: nothing is tracked, nothing is sent, and what an earlier daemon
\* left is pending.
LEMMA InitCallback == Init => Callback
<1>. SUFFICES ASSUME Init PROVE Callback
  OBVIOUS
<1>1. TypeOK
  <2>1. /\ pc \in [Threads -> ClientPCs \cup WorkerPCs] /\ pc[Worker] = "loop"
        /\ \A k \in Turns : pc[k] \in {"crashed", "idle"}
    BY DEF Init
  <2>2. /\ pub \in [Turns -> {"running", "observing", "handing", "releasing", "told"}]
        /\ outbox \in [Turns -> {"none", "pending", "written"}]
    BY DEF Init
  <2>3. book \in [Turns -> SUBSET Fields] /\ asleep = {} /\ slips = {}
    BY DEF Init
  <2>4. /\ sends \in [Turns -> 0 .. MaxSends] /\ unacked \in [Turns -> 0 .. MaxSends]
        /\ projected \in [Turns -> Nat] /\ crashes \in 0 .. MaxCrashes
    BY DEF Init
  <2>5. /\ retained = {} /\ wkey = NoTurn /\ batch = {} /\ mode = "run"
        /\ stopping = FALSE /\ faults = {} /\ poison \in Poisons /\ lossTold = {}
        /\ odd \in Oddities /\ dropped = {}
    BY DEF Init
  <2>. QED
    BY <2>1, <2>2, <2>3, <2>4, <2>5 DEF TypeOK
<1>2. Modes
  BY DEF Init, Modes
<1>3. ASSUME NEW k \in Turns PROVE Turn(k)
  <2>1. Counted(k)
    BY DEF Init, Counted
  <2>2. Claims(k)
    BY DEF Init, Claims
  <2>3. Registered(k)
    BY DEF Init, Registered
  <2>4. Results(k) /\ Traced(k)
    BY DEF Init, Results, Traced
  <2>. QED
    BY <2>1, <2>2, <2>3, <2>4 DEF Turn
<1>. QED
  BY <1>1, <1>2, <1>3 DEF Callback

-----------------------------------------------------------------------------
(* Every step keeps it.                                                    *)

\* The thread that publishes the end of a turn keeps it.
LEMMA PublisherKeeps ==
  ASSUME Callback, NEW k \in Turns,
         TurnEnds(k) \/ OnTerminal(k) \/ PublisherHandoff(k)
  PROVE  Callback'
<1>1. CASE TurnEnds(k)
  <2>1. TypeOK'
    BY <1>1 DEF Callback, TypeOK, TurnEnds
  <2>2. Modes'
    BY <1>1 DEF Callback, Modes, TurnEnds
  <2>3. ASSUME NEW j \in Turns PROVE Turn(j)'
    BY <1>1, <2>1
       DEF Callback, Turn, Counted, Claims, Registered, Results, Traced, TurnEnds
  <2>. QED
    BY <2>1, <2>2, <2>3 DEF Callback
<1>2. CASE OnTerminal(k)
  <2>1. TypeOK'
    BY <1>2 DEF Callback, TypeOK, OnTerminal
  <2>2. Modes'
    BY <1>2 DEF Callback, Modes, OnTerminal
  <2>3. ASSUME NEW j \in Turns PROVE Turn(j)'
    BY <1>2, <2>1
       DEF Callback, Turn, Counted, Claims, Registered, Results, Traced, OnTerminal
  <2>. QED
    BY <2>1, <2>2, <2>3 DEF Callback
<1>3. CASE PublisherHandoff(k)
  <2>1. TypeOK'
    BY <1>3 DEF Callback, TypeOK, PublisherHandoff
  <2>2. Modes'
    BY <1>3 DEF Callback, Modes, PublisherHandoff
  <2>3. ASSUME NEW j \in Turns PROVE Turn(j)'
    <3>1. CASE k \in odd
      <4>1. UNCHANGED <<book, pc, workerVars, stopping, asleep, storeVars, history>>
        BY <1>3, <3>1 DEF PublisherHandoff
      <4>2. pub'[j] \in {"handing", "releasing"} => pub[j] \in {"handing", "releasing"}
        BY <1>3 DEF Callback, TypeOK, PublisherHandoff
      <4>. QED
        BY <4>1, <4>2 DEF Callback, Turn, Counted, Claims, Registered, Results, Traced
    <3>2. CASE k \notin odd
      <4>1. k = j \/ UNCHANGED <<book[j], pub[j]>>
        BY <1>3, <3>2 DEF Callback, TypeOK, PublisherHandoff
      <4>2. k = j => /\ book'[j] = book[j] \cup {"snapshot"} /\ pub'[j] = "told"
                     /\ slips' = IF "context" \in book[j] THEN slips
                                                         ELSE slips \cup {"overtaken"}
                     /\ pub[j] \in {"handing", "releasing"}
        BY <1>3, <3>2 DEF Callback, TypeOK, PublisherHandoff
      <4>3. /\ slips \subseteq slips'
            /\ UNCHANGED <<pc, workerVars, stopping, outbox, faults, odd, lossTold, sends,
                           unacked, projected, dropped>>
        BY <1>3 DEF PublisherHandoff
      <4>. QED
        BY <3>2, <4>1, <4>2, <4>3
           DEF Callback, Turn, Counted, Claims, Registered, Results, Traced
    <3>. QED
      BY <3>1, <3>2
  <2>. QED
    BY <2>1, <2>2, <2>3 DEF Callback
<1>. QED
  BY <1>1, <1>2, <1>3

\* So does the client of a turn.
LEMMA ClientKeeps ==
  ASSUME Callback, NEW k \in Turns,
         TurnStarted(k) \/ WaitTimesOut(k) \/ ObserveTurn(k) \/ QueryTerminal(k) \/
           ClientHandoff(k) \/ WaitReturns(k) \/ AbandonCompletion(k) \/ FetchTurn(k)
           \/ RespondClient(k) \/ RaiseClient(k) \/ ClaimFallback(k) \/
           FallbackPersists(k) \/ FallbackFails(k) \/ FallbackRecords(k)
           \/ WaitFails(k) \/ FetchFails(k)
  PROVE  Callback'
<1>1. CASE TurnStarted(k)
  <2>1. TypeOK'
    BY <1>1 DEF Callback, TypeOK, TurnStarted
  <2>2. Modes'
    BY <1>1 DEF Callback, Modes, TurnStarted
  <2>3. ASSUME NEW j \in Turns PROVE Turn(j)'
    BY <1>1, <2>1
       DEF Callback, Turn, Counted, Claims, Registered, Results, Traced, TurnStarted
  <2>. QED
    BY <2>1, <2>2, <2>3 DEF Callback
<1>2. CASE WaitTimesOut(k)
  <2>1. TypeOK'
    BY <1>2 DEF Callback, TypeOK, WaitTimesOut
  <2>2. Modes'
    BY <1>2 DEF Callback, Modes, WaitTimesOut
  <2>3. ASSUME NEW j \in Turns PROVE Turn(j)'
    BY <1>2, <2>1
       DEF Callback, Turn, Counted, Claims, Registered, Results, Traced, WaitTimesOut
  <2>. QED
    BY <2>1, <2>2, <2>3 DEF Callback
<1>3. CASE ObserveTurn(k)
  <2>1. TypeOK'
    BY <1>3 DEF Callback, TypeOK, ObserveTurn
  <2>2. Modes'
    BY <1>3 DEF Callback, Modes, ObserveTurn
  <2>3. ASSUME NEW j \in Turns PROVE Turn(j)'
    BY <1>3, <2>1
       DEF Callback, TypeOK, Turn, Counted, Claims, Registered, Results, Traced,
           ObserveTurn
  <2>. QED
    BY <2>1, <2>2, <2>3 DEF Callback
<1>4. CASE QueryTerminal(k)
  <2>1. TypeOK'
    BY <1>4 DEF Callback, TypeOK, QueryTerminal
  <2>2. Modes'
    BY <1>4 DEF Callback, Modes, QueryTerminal
  <2>3. ASSUME NEW j \in Turns PROVE Turn(j)'
    BY <1>4, <2>1
       DEF Callback, Turn, Counted, Claims, Registered, Results, Traced, QueryTerminal
  <2>. QED
    BY <2>1, <2>2, <2>3 DEF Callback
<1>5. CASE ClientHandoff(k)
  <2>1. TypeOK'
    BY <1>5 DEF Callback, TypeOK, ClientHandoff
  <2>2. Modes'
    BY <1>5 DEF Callback, Modes, ClientHandoff
  <2>3. ASSUME NEW j \in Turns PROVE Turn(j)'
    BY <1>5, <2>1
       DEF Callback, TypeOK, Turn, Counted, Claims, Registered, Results, Traced,
           ClientHandoff
  <2>. QED
    BY <2>1, <2>2, <2>3 DEF Callback
<1>6. CASE WaitReturns(k)
  <2>1. TypeOK'
    BY <1>6 DEF Callback, TypeOK, WaitReturns
  <2>2. Modes'
    BY <1>6 DEF Callback, Modes, WaitReturns
  <2>3. ASSUME NEW j \in Turns PROVE Turn(j)'
    BY <1>6, <2>1
       DEF Callback, Turn, Counted, Claims, Registered, Results, Traced, WaitReturns
  <2>. QED
    BY <2>1, <2>2, <2>3 DEF Callback
<1>7. CASE AbandonCompletion(k)
  <2>1. TypeOK'
    BY <1>7 DEF Callback, TypeOK, AbandonCompletion
  <2>2. Modes'
    BY <1>7 DEF Callback, Modes, AbandonCompletion
  <2>3. ASSUME NEW j \in Turns PROVE Turn(j)'
    BY <1>7, <2>1
       DEF Callback, TypeOK, Turn, Counted, Claims, Registered, Results, Traced,
           AbandonCompletion
  <2>. QED
    BY <2>1, <2>2, <2>3 DEF Callback
<1>8. CASE FetchTurn(k)
  <2>1. TypeOK'
    BY <1>8 DEF Callback, TypeOK, FetchTurn
  <2>2. Modes'
    BY <1>8 DEF Callback, Modes, FetchTurn
  <2>3. ASSUME NEW j \in Turns PROVE Turn(j)'
    BY <1>8, <2>1
       DEF Callback, Turn, Counted, Claims, Registered, Results, Traced, FetchTurn
  <2>. QED
    BY <2>1, <2>2, <2>3 DEF Callback
<1>9. CASE RespondClient(k)
  <2>1. TypeOK'
    BY <1>9 DEF Callback, TypeOK, RespondClient
  <2>2. Modes'
    BY <1>9 DEF Callback, Modes, RespondClient
  <2>3. ASSUME NEW j \in Turns PROVE Turn(j)'
    BY <1>9, <2>1
       DEF Callback, TypeOK, Turn, Counted, Claims, Registered, Results, Traced,
           RespondClient
  <2>. QED
    BY <2>1, <2>2, <2>3 DEF Callback
<1>10. CASE RaiseClient(k)
  <2>1. TypeOK'
    BY <1>10 DEF Callback, TypeOK, RaiseClient
  <2>2. Modes'
    BY <1>10 DEF Callback, Modes, RaiseClient
  <2>3. ASSUME NEW j \in Turns PROVE Turn(j)'
    BY <1>10, <2>1
       DEF Callback, TypeOK, Turn, Counted, Claims, Registered, Results, Traced,
           RaiseClient
  <2>. QED
    BY <2>1, <2>2, <2>3 DEF Callback
<1>11. CASE ClaimFallback(k)
  <2>1. TypeOK'
    <3>1. book' \in [Turns -> SUBSET Fields]
      BY <1>11 DEF Callback, TypeOK, ClaimFallback
    <3>2. slips' = slips \/ slips' = slips \cup {"reclaimed"}
      BY <1>11 DEF ClaimFallback
    <3>3. /\ pc' \in [Threads -> ClientPCs \cup WorkerPCs]
          /\ pc'[Worker] = pc[Worker] /\ pc'[k] \in {"answered", "fallPersisting"}
          /\ \A th \in Threads : th # k => pc'[th] = pc[th]
          /\ k \notin asleep
      BY <1>11 DEF Callback, TypeOK, ClaimFallback
    <3>. QED
      BY <1>11, <3>1, <3>2, <3>3 DEF Callback, TypeOK, ClaimFallback
  <2>2. Modes'
    BY <1>11 DEF Callback, TypeOK, Modes, ClaimFallback
  <2>3. ASSUME NEW j \in Turns PROVE Turn(j)'
    BY <1>11, <2>1
       DEF Callback, TypeOK, Turn, Counted, Claims, Registered, Results, Traced,
           ClaimFallback
  <2>. QED
    BY <2>1, <2>2, <2>3 DEF Callback
<1>12. CASE FallbackPersists(k)
  <2>1. TypeOK'
    BY <1>12 DEF Callback, TypeOK, FallbackPersists
  <2>2. Modes'
    BY <1>12 DEF Callback, Modes, FallbackPersists
  <2>3. ASSUME NEW j \in Turns PROVE Turn(j)'
    BY <1>12, <2>1
       DEF Callback, TypeOK, Modes, Turn, Counted, Claims, Registered, Results, Traced,
           FallbackPersists
  <2>. QED
    BY <2>1, <2>2, <2>3 DEF Callback
<1>13. CASE FallbackFails(k)
  <2>1. TypeOK'
    BY <1>13 DEF Callback, TypeOK, FallbackFails
  <2>2. Modes'
    BY <1>13 DEF Callback, Modes, FallbackFails
  <2>3. ASSUME NEW j \in Turns PROVE Turn(j)'
    BY <1>13, <2>1
       DEF Callback, TypeOK, Turn, Counted, Claims, Registered, Results, Traced,
           FallbackFails
  <2>. QED
    BY <2>1, <2>2, <2>3 DEF Callback
<1>14. CASE FallbackRecords(k)
  <2>1. TypeOK'
    BY <1>14 DEF Callback, TypeOK, FallbackRecords
  <2>2. Modes'
    BY <1>14 DEF Callback, Modes, FallbackRecords
  <2>3. ASSUME NEW j \in Turns PROVE Turn(j)'
    BY <1>14, <2>1
       DEF Callback, TypeOK, Modes, Turn, Counted, Claims, Registered, Results, Traced,
           FallbackRecords
  <2>. QED
    BY <2>1, <2>2, <2>3 DEF Callback
<1>15. CASE WaitFails(k)
  <2>1. TypeOK'
    BY <1>15 DEF Callback, TypeOK, WaitFails
  <2>2. Modes'
    BY <1>15 DEF Callback, Modes, WaitFails
  <2>3. ASSUME NEW j \in Turns PROVE Turn(j)'
    BY <1>15, <2>1
       DEF Callback, Turn, Counted, Claims, Registered, Results, Traced, WaitFails
  <2>. QED
    BY <2>1, <2>2, <2>3 DEF Callback
<1>16. CASE FetchFails(k)
  <2>1. TypeOK'
    BY <1>16 DEF Callback, TypeOK, FetchFails
  <2>2. Modes'
    BY <1>16 DEF Callback, Modes, FetchFails
  <2>3. ASSUME NEW j \in Turns PROVE Turn(j)'
    BY <1>16, <2>1
       DEF Callback, Turn, Counted, Claims, Registered, Results, Traced, FetchFails
  <2>. QED
    BY <2>1, <2>2, <2>3 DEF Callback
<1>. QED
  BY <1>1, <1>2, <1>3, <1>4, <1>5, <1>6, <1>7, <1>8, <1>9, <1>10, <1>11, <1>12, <1>13,
     <1>14, <1>15, <1>16

\* So do the steps of _project_once and _durable_fault_once, for client and worker.
LEMMA SharedKeeps ==
  ASSUME Callback, NEW th \in Threads,
         ProjectClaim(th) \/ ProjectEnd(th) \/ FaultClaim(th) \/ FaultRecorded(th) \/
           FaultUnrecorded(th)
  PROVE  Callback'
<1>1. CASE ProjectClaim(th)
  <2>1. TypeOK'
    BY <1>1 DEF Callback, TypeOK, ProjectClaim
  <2>2. Modes'
    BY <1>1 DEF Callback, TypeOK, Modes, ProjectClaim
  <2>3. ASSUME NEW j \in Turns PROVE Turn(j)'
    BY <1>1, <2>1
       DEF Callback, TypeOK, Turn, Counted, Claims, Registered, Results, Traced,
           ProjectClaim
  <2>. QED
    BY <2>1, <2>2, <2>3 DEF Callback
<1>2. CASE ProjectEnd(th)
  <2>1. TypeOK'
    BY <1>2 DEF Callback, TypeOK, ProjectEnd
  <2>2. Modes'
    BY <1>2 DEF Callback, TypeOK, Modes, ProjectEnd
  <2>3. ASSUME NEW j \in Turns PROVE Turn(j)'
    BY <1>2, <2>1
       DEF Callback, TypeOK, Turn, Counted, Claims, Registered, Results, Traced,
           ProjectEnd
  <2>. QED
    BY <2>1, <2>2, <2>3 DEF Callback
<1>3. CASE FaultClaim(th)
  <2>1. TypeOK'
    BY <1>3 DEF Callback, TypeOK, FaultClaim
  <2>2. Modes'
    BY <1>3 DEF Callback, TypeOK, Modes, FaultClaim
  <2>3. ASSUME NEW j \in Turns PROVE Turn(j)'
    BY <1>3, <2>1
       DEF Callback, TypeOK, Turn, Counted, Claims, Registered, Results, Traced,
           FaultClaim
  <2>. QED
    BY <2>1, <2>2, <2>3 DEF Callback
<1>4. CASE FaultRecorded(th)
  <2>1. TypeOK'
    BY <1>4 DEF Callback, TypeOK, FaultRecorded
  <2>2. Modes'
    BY <1>4 DEF Callback, Modes, FaultRecorded
  <2>3. ASSUME NEW j \in Turns PROVE Turn(j)'
    BY <1>4, <2>1
       DEF Callback, TypeOK, Turn, Counted, Claims, Registered, Results, Traced,
           FaultRecorded
  <2>. QED
    BY <2>1, <2>2, <2>3 DEF Callback
<1>5. CASE FaultUnrecorded(th)
  <2>1. TypeOK'
    BY <1>5 DEF Callback, TypeOK, FaultUnrecorded
  <2>2. Modes'
    BY <1>5 DEF Callback, Modes, FaultUnrecorded
  <2>3. ASSUME NEW j \in Turns PROVE Turn(j)'
    BY <1>5, <2>1
       DEF Callback, TypeOK, Modes, Turn, Counted, Claims, Registered, Results, Traced,
           FaultUnrecorded
  <2>. QED
    BY <2>1, <2>2, <2>3 DEF Callback
<1>. QED
  BY <1>1, <1>2, <1>3, <1>4, <1>5

\* So does the worker.
LEMMA WorkerKeeps ==
  ASSUME Callback,
         WorkerTake \/ PersistClaim \/ WorkerPersists \/ WorkerPersistFails \/
           WorkerRecordsLoss \/ WorkerLosesRecord \/ WorkerRetries \/ WorkerFinish \/
           WorkerScan \/ WorkerSends \/ WorkerSendFails \/ WorkerAcks \/
           WorkerAckFails \/ WorkerBatchEnds \/ WorkerExits \/ WorkerDies
  PROVE  Callback'
<1>1. CASE WorkerTake
  <2>1. TypeOK'
    BY <1>1 DEF Callback, TypeOK, WorkerTake
  <2>2. Modes'
    BY <1>1 DEF Callback, Modes, WorkerTake
  <2>3. ASSUME NEW j \in Turns PROVE Turn(j)'
    BY <1>1, <2>1
       DEF Callback, TypeOK, Turn, Counted, Claims, Registered, Results, Traced,
           WorkerTake
  <2>. QED
    BY <2>1, <2>2, <2>3 DEF Callback
<1>2. CASE PersistClaim
  <2>1. TypeOK'
    BY <1>2 DEF Callback, TypeOK, PersistClaim
  <2>2. Modes'
    BY <1>2 DEF Callback, Modes, PersistClaim
  <2>3. ASSUME NEW j \in Turns PROVE Turn(j)'
    BY <1>2, <2>1
       DEF Callback, TypeOK, Turn, Counted, Claims, Registered, Results, Traced,
           PersistClaim
  <2>. QED
    BY <2>1, <2>2, <2>3 DEF Callback
<1>3. CASE WorkerPersists
  <2>1. TypeOK'
    BY <1>3 DEF Callback, TypeOK, WorkerPersists
  <2>2. Modes'
    BY <1>3 DEF Callback, Modes, WorkerPersists
  <2>3. ASSUME NEW j \in Turns PROVE Turn(j)'
    BY <1>3, <2>1
       DEF Callback, TypeOK, Turn, Counted, Claims, Registered, Results, Traced,
           WorkerPersists
  <2>. QED
    BY <2>1, <2>2, <2>3 DEF Callback
<1>4. CASE WorkerPersistFails
  <2>1. TypeOK'
    BY <1>4 DEF Callback, TypeOK, WorkerPersistFails
  <2>2. Modes'
    BY <1>4 DEF Callback, Modes, WorkerPersistFails
  <2>3. ASSUME NEW j \in Turns PROVE Turn(j)'
    BY <1>4, <2>1
       DEF Callback, TypeOK, Turn, Counted, Claims, Registered, Results, Traced,
           WorkerPersistFails
  <2>. QED
    BY <2>1, <2>2, <2>3 DEF Callback
<1>5. CASE WorkerRecordsLoss
  <2>1. TypeOK'
    BY <1>5 DEF Callback, TypeOK, WorkerRecordsLoss
  <2>2. Modes'
    BY <1>5 DEF Callback, Modes, WorkerRecordsLoss
  <2>3. ASSUME NEW j \in Turns PROVE Turn(j)'
    BY <1>5, <2>1
       DEF Callback, TypeOK, Turn, Counted, Claims, Registered, Results, Traced,
           WorkerRecordsLoss
  <2>. QED
    BY <2>1, <2>2, <2>3 DEF Callback
<1>6. CASE WorkerLosesRecord
  <2>1. TypeOK'
    BY <1>6 DEF Callback, TypeOK, WorkerLosesRecord
  <2>2. Modes'
    BY <1>6 DEF Callback, Modes, WorkerLosesRecord
  <2>3. ASSUME NEW j \in Turns PROVE Turn(j)'
    BY <1>6, <2>1
       DEF Callback, TypeOK, Turn, Counted, Claims, Registered, Results, Traced,
           WorkerLosesRecord
  <2>. QED
    BY <2>1, <2>2, <2>3 DEF Callback
<1>7. CASE WorkerRetries
  <2>1. TypeOK'
    BY <1>7 DEF Callback, TypeOK, WorkerRetries
  <2>2. Modes'
    BY <1>7 DEF Callback, Modes, WorkerRetries
  <2>3. ASSUME NEW j \in Turns PROVE Turn(j)'
    BY <1>7, <2>1
       DEF Callback, TypeOK, Modes, Turn, Counted, Claims, Registered, Results, Traced,
           WorkerRetries
  <2>. QED
    BY <2>1, <2>2, <2>3 DEF Callback
<1>8. CASE WorkerFinish
  <2>1. TypeOK'
    BY <1>8 DEF Callback, TypeOK, WorkerFinish
  <2>2. Modes'
    BY <1>8 DEF Callback, Modes, WorkerFinish
  <2>3. ASSUME NEW j \in Turns PROVE Turn(j)'
    BY <1>8, <2>1
       DEF Callback, TypeOK, Modes, Turn, Counted, Claims, Registered, Results, Traced,
           WorkerFinish
  <2>. QED
    BY <2>1, <2>2, <2>3 DEF Callback
<1>9. CASE WorkerScan
  <2>1. TypeOK'
    BY <1>9 DEF Callback, TypeOK, WorkerScan
  <2>2. Modes'
    BY <1>9 DEF Callback, Modes, WorkerScan
  <2>3. ASSUME NEW j \in Turns PROVE Turn(j)'
    BY <1>9, <2>1
       DEF Callback, Turn, Counted, Claims, Registered, Results, Traced, WorkerScan
  <2>. QED
    BY <2>1, <2>2, <2>3 DEF Callback
<1>10. CASE WorkerSends
  <2>1. TypeOK'
    BY <1>10 DEF Callback, TypeOK, WorkerSends
  <2>2. Modes'
    BY <1>10 DEF Callback, Modes, WorkerSends
  <2>3. ASSUME NEW j \in Turns PROVE Turn(j)'
    BY <1>10, <2>1
       DEF Callback, TypeOK, Turn, Counted, Claims, Registered, Results, Traced,
           WorkerSends
  <2>. QED
    BY <2>1, <2>2, <2>3 DEF Callback
<1>11. CASE WorkerSendFails
  <2>1. TypeOK'
    BY <1>11 DEF Callback, TypeOK, WorkerSendFails
  <2>2. Modes'
    BY <1>11 DEF Callback, Modes, WorkerSendFails
  <2>3. ASSUME NEW j \in Turns PROVE Turn(j)'
    BY <1>11, <2>1
       DEF Callback, Turn, Counted, Claims, Registered, Results, Traced, WorkerSendFails
  <2>. QED
    BY <2>1, <2>2, <2>3 DEF Callback
<1>12. CASE WorkerAcks
  <2>1. TypeOK'
    BY <1>12 DEF Callback, TypeOK, WorkerAcks
  <2>2. Modes'
    BY <1>12 DEF Callback, Modes, WorkerAcks
  <2>3. ASSUME NEW j \in Turns PROVE Turn(j)'
    BY <1>12, <2>1
       DEF Callback, TypeOK, Turn, Counted, Claims, Registered, Results, Traced,
           WorkerAcks
  <2>. QED
    BY <2>1, <2>2, <2>3 DEF Callback
<1>13. CASE WorkerAckFails
  <2>1. TypeOK'
    BY <1>13 DEF Callback, TypeOK, Turn, Counted, WorkerAckFails
  <2>2. Modes'
    BY <1>13 DEF Callback, Modes, WorkerAckFails
  <2>3. ASSUME NEW j \in Turns PROVE Turn(j)'
    BY <1>13, <2>1
       DEF Callback, TypeOK, Turn, Counted, Claims, Registered, Results, Traced,
           WorkerAckFails
  <2>. QED
    BY <2>1, <2>2, <2>3 DEF Callback
<1>14. CASE WorkerBatchEnds
  <2>1. TypeOK'
    BY <1>14 DEF Callback, TypeOK, WorkerBatchEnds
  <2>2. Modes'
    BY <1>14 DEF Callback, TypeOK, Modes, WorkerBatchEnds
  <2>3. ASSUME NEW j \in Turns PROVE Turn(j)'
    BY <1>14, <2>1
       DEF Callback, Turn, Counted, Claims, Registered, Results, Traced, WorkerBatchEnds
  <2>. QED
    BY <2>1, <2>2, <2>3 DEF Callback
<1>15. CASE WorkerExits
  <2>1. TypeOK'
    BY <1>15 DEF Callback, TypeOK, WorkerExits
  <2>2. Modes'
    BY <1>15 DEF Callback, Modes, WorkerExits
  <2>3. ASSUME NEW j \in Turns PROVE Turn(j)'
    BY <1>15, <2>1
       DEF Callback, Turn, Counted, Claims, Registered, Results, Traced, WorkerExits
  <2>. QED
    BY <2>1, <2>2, <2>3 DEF Callback
<1>16. CASE WorkerDies
  <2>1. TypeOK'
    BY <1>16 DEF Callback, TypeOK, WorkerDies
  <2>2. Modes'
    BY <1>16 DEF Callback, TypeOK, Modes, WorkerDies
  <2>3. ASSUME NEW j \in Turns PROVE Turn(j)'
    BY <1>16, <2>1
       DEF Callback, Turn, Counted, Claims, Registered, Results, Traced, WorkerDies
  <2>. QED
    BY <2>1, <2>2, <2>3 DEF Callback
<1>. QED
  BY <1>1, <1>2, <1>3, <1>4, <1>5, <1>6, <1>7, <1>8, <1>9, <1>10, <1>11, <1>12, <1>13,
     <1>14, <1>15, <1>16

\* So do shutdown and crashes, after which only the outbox is left.
LEMMA DaemonKeeps ==
  ASSUME Callback,
         Shutdown \/ DrainBegins \/ DrainEnds \/ Crash
  PROVE  Callback'
<1>1. CASE Shutdown
  <2>1. TypeOK'
    BY <1>1 DEF Callback, TypeOK, Shutdown
  <2>2. Modes'
    BY <1>1 DEF Callback, Modes, Shutdown
  <2>3. ASSUME NEW j \in Turns PROVE Turn(j)'
    BY <1>1, <2>1
       DEF Callback, Turn, Counted, Claims, Registered, Results, Traced, Shutdown
  <2>. QED
    BY <2>1, <2>2, <2>3 DEF Callback
<1>2. CASE DrainBegins
  <2>1. TypeOK'
    BY <1>2 DEF Callback, TypeOK, DrainBegins
  <2>2. Modes'
    BY <1>2 DEF Callback, Modes, DrainBegins
  <2>3. ASSUME NEW j \in Turns PROVE Turn(j)'
    BY <1>2, <2>1
       DEF Callback, Turn, Counted, Claims, Registered, Results, Traced, DrainBegins
  <2>. QED
    BY <2>1, <2>2, <2>3 DEF Callback
<1>3. CASE DrainEnds
  <2>1. TypeOK'
    BY <1>3 DEF Callback, TypeOK, DrainEnds
  <2>2. Modes'
    BY <1>3 DEF Callback, Modes, DrainEnds
  <2>3. ASSUME NEW j \in Turns PROVE Turn(j)'
    BY <1>3, <2>1
       DEF Callback, Turn, Counted, Claims, Registered, Results, Traced, DrainEnds
  <2>. QED
    BY <2>1, <2>2, <2>3 DEF Callback
<1>4. CASE Crash
  <2>1. TypeOK'
    <3>1. /\ pc' \in [Threads -> ClientPCs \cup WorkerPCs] /\ pc'[Worker] = "loop"
          /\ \A k \in Turns : pc'[k] \in {"crashed", "idle"} \cup Told
      BY <1>4 DEF Callback, TypeOK, Crash
    <3>2. unacked' \in [Turns -> 0 .. MaxSends]
      <4>1. CASE pc[Worker] = "acking"
        <5>1. wkey \in Turns /\ unacked[wkey] + 1 <= MaxSends
          BY <1>4, <4>1 DEF Callback, TypeOK, Turn, Counted, Crash
        <5>. QED
          BY <1>4, <4>1, <5>1 DEF Callback, TypeOK, Crash
      <4>2. CASE pc[Worker] # "acking"
        BY <1>4, <4>2 DEF Callback, TypeOK, Crash
      <4>. QED
        BY <4>1, <4>2
    <3>3. pub' \in [Turns -> {"running", "observing", "handing", "releasing", "told"}]
      BY <1>4 DEF Callback, TypeOK, Crash
    <3>4. book' \in [Turns -> SUBSET Fields]
      BY <1>4 DEF Crash
    <3>5. /\ retained' = {} /\ wkey' = NoTurn /\ batch' = {} /\ mode' = "run"
          /\ stopping' = FALSE /\ asleep' = {} /\ slips' = {}
      BY <1>4 DEF Crash
    <3>6. /\ outbox' \in [Turns -> {"none", "pending", "written"}]
          /\ faults' \subseteq Turns /\ poison' \in Poisons /\ lossTold' \subseteq Turns
          /\ odd' \in Oddities /\ dropped' \subseteq Turns
          /\ sends' \in [Turns -> 0 .. MaxSends] /\ projected' \in [Turns -> Nat]
          /\ crashes' \in 0 .. MaxCrashes
      BY <1>4 DEF Callback, TypeOK, Crash
    <3>. QED
      BY <3>1, <3>2, <3>3, <3>4, <3>5, <3>6 DEF TypeOK
  <2>2. Modes'
    BY <1>4 DEF Callback, Modes, Crash
  <2>3. ASSUME NEW j \in Turns PROVE Turn(j)'
    BY <1>4, <2>1
       DEF Callback, TypeOK, Turn, Counted, Claims, Registered, Results, Traced, Crash
  <2>. QED
    BY <2>1, <2>2, <2>3 DEF Callback
<1>. QED
  BY <1>1, <1>2, <1>3, <1>4

-----------------------------------------------------------------------------
(* Nobody sleeps in vain.  A step that ends what a sleeper waits for wakes *)
(* it, or forgets a turn nobody sleeps on.                                 *)

LEMMA PublisherWakes ==
  ASSUME Callback, NoLostWakeup, NEW k \in Turns,
         TurnEnds(k) \/ OnTerminal(k) \/ PublisherHandoff(k)
  PROVE  NoLostWakeup'
<1>1. CASE TurnEnds(k)
  BY <1>1 DEF Callback, TypeOK, NoLostWakeup, TurnEnds
<1>2. CASE OnTerminal(k)
  BY <1>2 DEF Callback, TypeOK, NoLostWakeup, OnTerminal
<1>3. CASE PublisherHandoff(k)
  BY <1>3 DEF Callback, TypeOK, NoLostWakeup, PublisherHandoff
<1>. QED
  BY <1>1, <1>2, <1>3

LEMMA ClientWakes ==
  ASSUME Callback, NoLostWakeup, NEW k \in Turns,
         TurnStarted(k) \/ WaitTimesOut(k) \/ ObserveTurn(k) \/ QueryTerminal(k) \/
           ClientHandoff(k) \/ WaitReturns(k) \/ AbandonCompletion(k) \/ FetchTurn(k)
           \/ RespondClient(k) \/ RaiseClient(k) \/ ClaimFallback(k) \/
           FallbackPersists(k) \/ FallbackFails(k) \/ FallbackRecords(k)
           \/ WaitFails(k) \/ FetchFails(k)
  PROVE  NoLostWakeup'
<1>1. CASE TurnStarted(k)
  BY <1>1 DEF Callback, TypeOK, NoLostWakeup, TurnStarted
<1>2. CASE WaitTimesOut(k)
  BY <1>2 DEF Callback, TypeOK, NoLostWakeup, WaitTimesOut
<1>3. CASE ObserveTurn(k)
  BY <1>3 DEF Callback, TypeOK, NoLostWakeup, ObserveTurn
<1>4. CASE QueryTerminal(k)
  BY <1>4 DEF Callback, TypeOK, NoLostWakeup, QueryTerminal
<1>5. CASE ClientHandoff(k)
  BY <1>5 DEF Callback, TypeOK, NoLostWakeup, ClientHandoff
<1>6. CASE WaitReturns(k)
  BY <1>6 DEF Callback, TypeOK, NoLostWakeup, WaitReturns
<1>7. CASE AbandonCompletion(k)
  BY <1>7 DEF Callback, TypeOK, Turn, Claims, NoLostWakeup, AbandonCompletion
<1>8. CASE FetchTurn(k)
  BY <1>8 DEF Callback, TypeOK, NoLostWakeup, FetchTurn
<1>9. CASE RespondClient(k)
  BY <1>9 DEF Callback, TypeOK, Turn, Claims, NoLostWakeup, RespondClient
<1>10. CASE RaiseClient(k)
  BY <1>10 DEF Callback, TypeOK, Turn, Claims, NoLostWakeup, RaiseClient
<1>11. CASE ClaimFallback(k)
  BY <1>11 DEF Callback, TypeOK, Turn, Claims, NoLostWakeup, ClaimFallback
<1>12. CASE FallbackPersists(k)
  BY <1>12 DEF Callback, TypeOK, NoLostWakeup, FallbackPersists
<1>13. CASE FallbackFails(k)
  BY <1>13 DEF Callback, TypeOK, NoLostWakeup, FallbackFails
<1>14. CASE FallbackRecords(k)
  BY <1>14 DEF Callback, TypeOK, NoLostWakeup, FallbackRecords
<1>15. CASE WaitFails(k)
  BY <1>15 DEF Callback, TypeOK, NoLostWakeup, WaitFails
<1>16. CASE FetchFails(k)
  BY <1>16 DEF Callback, TypeOK, NoLostWakeup, FetchFails
<1>. QED
  BY <1>1, <1>2, <1>3, <1>4, <1>5, <1>6, <1>7, <1>8, <1>9, <1>10, <1>11, <1>12, <1>13,
     <1>14, <1>15, <1>16

LEMMA SharedWakes ==
  ASSUME Callback, NoLostWakeup, NEW th \in Threads,
         ProjectClaim(th) \/ ProjectEnd(th) \/ FaultClaim(th) \/ FaultRecorded(th) \/
           FaultUnrecorded(th)
  PROVE  NoLostWakeup'
<1>1. CASE ProjectClaim(th)
  BY <1>1 DEF Callback, TypeOK, NoLostWakeup, ProjectClaim
<1>2. CASE ProjectEnd(th)
  BY <1>2 DEF Callback, TypeOK, NoLostWakeup, ProjectEnd
<1>3. CASE FaultClaim(th)
  BY <1>3 DEF Callback, TypeOK, NoLostWakeup, FaultClaim
<1>4. CASE FaultRecorded(th)
  BY <1>4 DEF Callback, TypeOK, NoLostWakeup, FaultRecorded
<1>5. CASE FaultUnrecorded(th)
  BY <1>5 DEF Callback, TypeOK, NoLostWakeup, FaultUnrecorded
<1>. QED
  BY <1>1, <1>2, <1>3, <1>4, <1>5

LEMMA WorkerWakes ==
  ASSUME Callback, NoLostWakeup,
         WorkerTake \/ PersistClaim \/ WorkerPersists \/ WorkerPersistFails \/
           WorkerRecordsLoss \/ WorkerLosesRecord \/ WorkerRetries \/ WorkerFinish \/
           WorkerScan \/ WorkerSends \/ WorkerSendFails \/ WorkerAcks \/
           WorkerAckFails \/ WorkerBatchEnds \/ WorkerExits \/ WorkerDies
  PROVE  NoLostWakeup'
<1>1. CASE WorkerTake
  BY <1>1 DEF Callback, TypeOK, NoLostWakeup, WorkerTake
<1>2. CASE PersistClaim
  BY <1>2 DEF Callback, TypeOK, NoLostWakeup, PersistClaim
<1>3. CASE WorkerPersists
  BY <1>3 DEF Callback, TypeOK, NoLostWakeup, WorkerPersists
<1>4. CASE WorkerPersistFails
  BY <1>4 DEF Callback, TypeOK, NoLostWakeup, WorkerPersistFails
<1>5. CASE WorkerRecordsLoss
  BY <1>5 DEF Callback, TypeOK, NoLostWakeup, WorkerRecordsLoss
<1>6. CASE WorkerLosesRecord
  BY <1>6 DEF Callback, TypeOK, NoLostWakeup, WorkerLosesRecord
<1>7. CASE WorkerRetries
  BY <1>7 DEF Callback, TypeOK, NoLostWakeup, WorkerRetries
<1>8. CASE WorkerFinish
  BY <1>8 DEF Callback, TypeOK, NoLostWakeup, WorkerFinish
<1>9. CASE WorkerScan
  BY <1>9 DEF Callback, TypeOK, NoLostWakeup, WorkerScan
<1>10. CASE WorkerSends
  BY <1>10 DEF Callback, TypeOK, NoLostWakeup, WorkerSends
<1>11. CASE WorkerSendFails
  BY <1>11 DEF Callback, TypeOK, NoLostWakeup, WorkerSendFails
<1>12. CASE WorkerAcks
  BY <1>12 DEF Callback, TypeOK, NoLostWakeup, WorkerAcks
<1>13. CASE WorkerAckFails
  BY <1>13 DEF Callback, TypeOK, NoLostWakeup, WorkerAckFails
<1>14. CASE WorkerBatchEnds
  BY <1>14 DEF Callback, TypeOK, NoLostWakeup, WorkerBatchEnds
<1>15. CASE WorkerExits
  BY <1>15 DEF Callback, TypeOK, NoLostWakeup, WorkerExits
<1>16. CASE WorkerDies
  BY <1>16 DEF Callback, TypeOK, NoLostWakeup, WorkerDies
<1>. QED
  BY <1>1, <1>2, <1>3, <1>4, <1>5, <1>6, <1>7, <1>8, <1>9, <1>10, <1>11, <1>12, <1>13,
     <1>14, <1>15, <1>16

LEMMA DaemonWakes ==
  ASSUME Callback, NoLostWakeup,
         Shutdown \/ DrainBegins \/ DrainEnds \/ Crash
  PROVE  NoLostWakeup'
<1>1. CASE Shutdown
  BY <1>1 DEF Callback, TypeOK, NoLostWakeup, Shutdown
<1>2. CASE DrainBegins
  BY <1>2 DEF Callback, TypeOK, NoLostWakeup, DrainBegins
<1>3. CASE DrainEnds
  BY <1>3 DEF Callback, TypeOK, NoLostWakeup, DrainEnds
<1>4. CASE Crash
  BY <1>4 DEF Callback, TypeOK, NoLostWakeup, Crash
<1>. QED
  BY <1>1, <1>2, <1>3, <1>4

-----------------------------------------------------------------------------
(* The theorems.                                                           *)

LEMMA StutterKeeps ==
  ASSUME Callback, UNCHANGED vars PROVE Callback' /\ (NoLostWakeup => NoLostWakeup')
<1>1. TypeOK' /\ Modes' /\ (NoLostWakeup => NoLostWakeup')
  BY DEF Callback, TypeOK, Modes, NoLostWakeup, vars
<1>2. ASSUME NEW j \in Turns PROVE Turn(j)'
  BY DEF Callback, Turn, Counted, Claims, Registered, Results, Traced, vars
<1>. QED
  BY <1>1, <1>2 DEF Callback

LEMMA CallbackStep ==
  ASSUME Callback, [Next]_vars PROVE Callback' /\ (NoLostWakeup => NoLostWakeup')
<1>1. ASSUME NEW k \in Turns,
             Publisher(k) \/ TurnStarted(k) \/ WaitTimesOut(k) \/ WaitFails(k)
               \/ ClientSteps(k)
      PROVE  Callback' /\ (NoLostWakeup => NoLostWakeup')
  BY <1>1, PublisherKeeps, PublisherWakes, ClientKeeps, ClientWakes
     DEF Publisher, ClientSteps
<1>2. ASSUME NEW th \in Threads, Shared(th)
      PROVE  Callback' /\ (NoLostWakeup => NoLostWakeup')
  BY <1>2, SharedKeeps, SharedWakes DEF Shared
<1>3. CASE WorkerSteps \/ WorkerDies
  BY <1>3, WorkerKeeps, WorkerWakes DEF WorkerSteps
<1>4. CASE Shutdown \/ DrainBegins \/ DrainEnds \/ Crash
  BY <1>4, DaemonKeeps, DaemonWakes
<1>5. CASE UNCHANGED vars
  BY <1>5, StutterKeeps
<1>. QED
  BY <1>1, <1>2, <1>3, <1>4, <1>5 DEF Next

LEMMA CallbackAlways == Spec => [](Callback /\ NoLostWakeup)
<1>1. Init => NoLostWakeup
  BY DEF Init, NoLostWakeup
<1>. QED
  BY <1>1, InitCallback, CallbackStep, PTL DEF Spec

\* Every variable keeps to its range; in particular no more frames are unacknowledged
\* than were sent.
THEOREM TypeCorrect == Spec => []TypeOK
<1>1. Callback => TypeOK
  BY DEF Callback
<1>. QED
  BY <1>1, CallbackAlways, PTL

\* A client that has its completion, or its error, leaves a callback that is durable,
\* recorded as failed or diagnosed as lost, or still owned by a thread.  The exceptions
\* are counted: the daemon crashed, or the drain of its shutdown ran out of time, while
\* the turn was tracked and had left no trace yet (completion_for,
\* _persist_fallback_once, shutdown).
THEOREM AnswersAreAccounted == Spec => []AnsweredIsAccounted
<1>1. Callback => AnsweredIsAccounted
  BY DEF Callback, Turn, Traced, AnsweredIsAccounted
<1>. QED
  BY <1>1, CallbackAlways, PTL

\* completion_for raises a KeyError for one reason only, a status that _handoff refused:
\* the clean-ups of worker and publisher spare the turn of a client that is about to
\* fetch it.
THEOREM ClientsFindTheirTurn == Spec => []ClientFindsItsTurn
<1>1. Callback => ClientFindsItsTurn
  BY DEF Callback, Turn, Registered, ClientFindsItsTurn
<1>. QED
  BY <1>1, CallbackAlways, PTL

\* Whatever client and worker do at the same time, a terminal is projected at most once
\* (_project_once).
THEOREM ProjectionIsShared == Spec => []ProjectedOnce
<1>1. Callback => ProjectedOnce
  BY DEF Callback, Turn, Results, ProjectedOnce
<1>. QED
  BY <1>1, CallbackAlways, PTL

\* No thread sleeps on a claim that was given up or fulfilled, although _cleanup forgets
\* claims without a notification.
THEOREM SleepersAreWoken == Spec => []NoLostWakeup
  BY CallbackAlways, PTL

\* An event is sent again only if a frame of it was not recorded as written.
THEOREM ResendsAreExplained == Spec => []DuplicatesExplained
<1>1. Callback => DuplicatesExplained
  BY DEF Callback, TypeOK, Turn, Counted, DuplicatesExplained
<1>. QED
  BY <1>1, CallbackAlways, PTL

\* The dispatcher forgets every turn whose client and callback are done, if no publisher
\* was overtaken and no fallback came after the clean-up (_cleanup).
THEOREM DoneTurnsAreForgotten == Spec => []NothingLeftBehind
<1>1. Callback => NothingLeftBehind
  BY DEF Callback, TypeOK, Modes, Turn, Claims, Registered, NothingLeftBehind, Tracked
<1>. QED
  BY <1>1, CallbackAlways, PTL
=============================================================================
