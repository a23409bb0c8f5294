--------------------------- MODULE TurnRuntime_proofs ---------------------------
(***************************************************************************)
(* Proofs about TurnRuntime, for any clients, readers and number of turns, *)
(* and whether or not the stream keeps its order.                          *)
(***************************************************************************)
EXTENDS TurnRuntime, FiniteSetTheorems, TLAPS

-----------------------------------------------------------------------------
(* Whatever is published is marked and counted, but for the loss of the    *)
(* connection.                                                             *)

\* published_terminal_ids is exactly the turns whose end the observers were told of,
\* and they were told of each once.
PublishedIsCounted ==
  /\ reports \in [Turns -> Nat]
  /\ \A t \in Turns : reports[t] = IF t \in published THEN 1 ELSE 0

\* A step that publishes nothing, or commits one terminal.
PublishStep == UNCHANGED <<published, reports>> \/ \E t : Commit(t)

\* A publication marks the turn it counts, and publishes only unmarked turns.
LEMMA PublishStepCounts ==
  ASSUME PublishedIsCounted, PublishStep
  PROVE  PublishedIsCounted'
<1>1. CASE UNCHANGED <<published, reports>>
  BY <1>1 DEF PublishedIsCounted
<1>2. ASSUME NEW t, Commit(t)
      PROVE  PublishedIsCounted'
  <2>1. /\ published' = published \cup {t}
        /\ reports' = [reports EXCEPT ![t] = IF t \in published THEN reports[t] ELSE reports[t] + 1]
    BY <1>2 DEF Commit
  <2>2. reports' \in [Turns -> Nat]
    <3>1. CASE t \in Turns
      <4> DEFINE n == IF t \in published THEN reports[t] ELSE reports[t] + 1
      <4>1. n \in Nat
        BY <3>1 DEF PublishedIsCounted
      <4>2. reports' = [reports EXCEPT ![t] = n]
        BY <2>1
      <4> HIDE DEF n
      <4> QED
        BY <4>1, <4>2 DEF PublishedIsCounted
    <3>2. CASE t \notin Turns
      BY <2>1, <3>2 DEF PublishedIsCounted
    <3> QED
      BY <3>1, <3>2
  <2>3. ASSUME NEW s \in Turns
        PROVE  reports'[s] = IF s \in published' THEN 1 ELSE 0
    BY <2>1, <2>3 DEF PublishedIsCounted
  <2> QED
    BY <2>2, <2>3 DEF PublishedIsCounted
<1> QED
  BY <1>1, <1>2 DEF PublishStep

\* The upstream itself publishes nothing.
LEMMA UpstreamPublishes ==
  ASSUME Upstream
  PROVE  PublishStep
<1>1. UNCHANGED storeVars
  BY DEF Upstream, ExternalStart, UpstreamFinish, UpstreamStart, UpstreamRead
<1> QED
  BY <1>1 DEF PublishStep, storeVars

\* A delivered notification commits one terminal or none.
LEMMA TransportPublishes ==
  ASSUME Transport, ~Detach
  PROVE  PublishStep
<1>1. CASE Fail
  BY <1>1 DEF Fail, PublishStep, storeVars
<1>2. ASSUME NEW i \in DOMAIN stream, Deliver(i)
      PROVE  PublishStep
  <2>1. CASE OnStarted(stream[i].turn)
    BY <2>1 DEF OnStarted, PublishStep
  <2>2. CASE OnCompleted(stream[i].turn)
    BY <2>2 DEF OnCompleted, PublishStep
  <2> QED
    BY <1>2, <2>1, <2>2 DEF Deliver
<1>3. ASSUME NEW i \in DOMAIN stream, HandReply(i) \/ HandSnapshot(i)
      PROVE  PublishStep
  BY <1>3 DEF HandReply, HandSnapshot, PublishStep, storeVars
<1> QED
  BY <1>1, <1>2, <1>3 DEF Transport

\* A client publishes nothing.
LEMMA ClientPublishes ==
  ASSUME NEW c \in Clients, Client(c)
  PROVE  PublishStep
<1>1. CASE Reserve(c)
  BY <1>1 DEF Reserve, PublishStep
<1>2. CASE StartFails(c) \/ CancelRefused(c)
  BY <1>2 DEF StartFails, CancelRefused, Cancel, PublishStep
<1>3. CASE AcceptStart(c)
  BY <1>3 DEF AcceptStart, PublishStep
<1>4. CASE RefuseStart(c)
  BY <1>4 DEF RefuseStart, PublishStep
<1>5. CASE TurnWait(c) \/ WaitSleep(c) \/ WaitReturn(c) \/ WaitTimeout(c)
  BY <1>5 DEF TurnWait, WaitSleep, WaitReturn, WaitTimeout, PublishStep, storeVars
<1> QED
  BY <1>1, <1>2, <1>3, <1>4, <1>5 DEF Client

\* A reader commits a terminal when it reconciles a thread/read.
LEMMA ReaderPublishes ==
  ASSUME NEW r \in Readers, Reader(r)
  PROVE  PublishStep
<1>1. CASE ReadAsk(r) \/ ReadFails(r)
  BY <1>1 DEF ReadAsk, ReadFails, PublishStep, storeVars
<1>2. CASE Reconcile(r)
  BY <1>2 DEF Reconcile, PublishStep
<1>3. CASE Attach(r)
  BY <1>3 DEF Attach, PublishStep
<1> QED
  BY <1>1, <1>2, <1>3 DEF Reader

\* Every step but the detach publishes in one of these ways.
LEMMA StepPublishes ==
  ASSUME [Next]_vars, ~Detach
  PROVE  PublishStep
<1>1. CASE UNCHANGED vars
  BY <1>1 DEF vars, storeVars, PublishStep
<1>2. CASE Next
  BY <1>2, UpstreamPublishes, TransportPublishes, ClientPublishes, ReaderPublishes
  DEF Next
<1> QED
  BY <1>1, <1>2

-----------------------------------------------------------------------------
(* The books keep their types.                                             *)

\* The upstream runs the turns one after the other: u counts the turns it has
\* started and ended, so that the odd steps are starts and the even ones ends.
Clocks == 0 .. 2 * MaxTurns
UpstreamAt(u) ==
  \A t \in Turns : ut[t] = IF 2 * t <= u THEN "done"
                           ELSE IF 2 * t = u + 1 THEN "running" ELSE "none"
OneAtATime == \E u \in Clocks : UpstreamAt(u)

Books == TypeOK /\ OneAtATime

\* The turn that is running, and the one that has ended last.
LEMMA RunningTurn ==
  ASSUME NEW u \in Clocks, UpstreamAt(u), Running # {}
  PROVE  /\ Max(Running) \in Turns /\ 2 * Max(Running) = u + 1
         /\ \A t \in Running : t = Max(Running)
<1> USE TurnRuntimeAssumption
<1>1. PICK r \in Turns : r \in Running
  BY DEF Running
<1>2. \A t \in Running : 2 * t = u + 1
  BY DEF UpstreamAt, Running
<1>3. \A t \in Running : t \in Turns /\ t = r
  BY <1>1, <1>2 DEF Running, Turns, Clocks
<1>4. Running = {r}
  BY <1>1, <1>3
<1>5. Max(Running) = r
  BY <1>4 DEF Max, Turns
<1> QED
  BY <1>1, <1>2, <1>3, <1>5

LEMMA LastDone ==
  ASSUME NEW u \in Clocks, UpstreamAt(u)
  PROVE  LET last == IF Done = {} THEN None ELSE Max(Done)
         IN  /\ last \in Turns \cup {None}
             /\ 2 * last <= u /\ u <= 2 * last + 1
             /\ Running # {} <=> u = 2 * last + 1
<1> USE TurnRuntimeAssumption
<1> DEFINE k == u \div 2
<1>1. k \in 0 .. MaxTurns /\ 2 * k <= u /\ u <= 2 * k + 1
  BY DEF Clocks
<1> HIDE DEF k
<1>2. Done = 1 .. k
  BY <1>1 DEF UpstreamAt, Done, Turns, Clocks
<1>3. k = IF Done = {} THEN None ELSE Max(Done)
  <2>1. CASE k = 0
    BY <1>2, <2>1 DEF None
  <2>2. CASE k # 0
    <3>1. k \in Done /\ \A t \in Done : k >= t
      BY <1>1, <1>2, <2>2
    <3>2. Max(Done) \in Done /\ \A t \in Done : Max(Done) >= t
      BY <3>1 DEF Max
    <3> QED
      BY <1>1, <1>2, <3>1, <3>2
  <2> QED
    BY <2>1, <2>2
<1>4. Running # {} <=> u = 2 * k + 1
  <2>1. ASSUME u = 2 * k + 1
        PROVE  k + 1 \in Running
    BY <1>1, <2>1 DEF UpstreamAt, Running, Turns, Clocks
  <2>2. ASSUME NEW t \in Running
        PROVE  u = 2 * k + 1
    <3>1. t \in Turns /\ 2 * t = u + 1
      BY DEF UpstreamAt, Running
    <3> QED
      BY <1>1, <3>1 DEF Turns, Clocks
  <2> QED
    BY <2>1, <2>2
<1>5. k \in Turns \cup {None}
  BY <1>1 DEF Turns, None
<1> QED
  BY <1>1, <1>3, <1>4, <1>5

\* The next turn to start is the least that has not.
LEMMA NextTurnOK ==
  ASSUME NEW u \in Clocks, UpstreamAt(u), Running = {}, Unstarted # {}
  PROVE  NextTurn \in Turns /\ 2 * NextTurn = u + 2
<1> USE TurnRuntimeAssumption
<1> DEFINE k == u \div 2
<1>1. k \in 0 .. MaxTurns /\ 2 * k <= u /\ u <= 2 * k + 1
  BY DEF Clocks
<1> HIDE DEF k
<1>2. u = 2 * k
  <2>1. ASSUME u = 2 * k + 1
        PROVE  k + 1 \in Running
    BY <1>1, <2>1 DEF UpstreamAt, Running, Turns, Clocks
  <2> QED
    BY <1>1, <2>1 DEF Clocks
<1>3. Unstarted = k + 1 .. MaxTurns
  BY <1>1, <1>2 DEF UpstreamAt, Unstarted, Turns, Clocks
<1>4. k + 1 \in Unstarted /\ \A t \in Unstarted : k + 1 <= t
  BY <1>1, <1>3
<1>5. NextTurn \in Unstarted /\ \A t \in Unstarted : NextTurn <= t
  BY <1>4 DEF NextTurn, Min
<1>6. NextTurn = k + 1
  BY <1>1, <1>3, <1>4, <1>5
<1> QED
  BY <1>1, <1>2, <1>4, <1>6 DEF Unstarted

\* Taking a message off the stream, or losing its end, leaves messages.
LEMMA TakeType ==
  ASSUME stream \in Seq(Message), NEW i, Take(i)
  PROVE  stream' \in Seq(Message) /\ stream[i] \in Message
<1>1. i \in 1 .. Len(stream)
  BY DEF Take
<1>2. SubSeq(stream, 1, i - 1) \in Seq(Message)
  BY <1>1
<1>3. SubSeq(stream, i + 1, Len(stream)) \in Seq(Message)
  BY <1>1
<1> QED
  BY <1>1, <1>2, <1>3 DEF Take, RemoveAt

LEMMA AppendType ==
  ASSUME NEW m \in Message, stream \in Seq(Message), stream' = Append(stream, m)
  PROVE  stream' \in Seq(Message)
  OBVIOUS

LEMMA AppendTwoType ==
  ASSUME NEW m \in Message, NEW n \in Message, stream \in Seq(Message),
         stream' = stream \o <<m, n>>
  PROVE  stream' \in Seq(Message)
<1>1. <<m, n>> \in Seq(Message)
  OBVIOUS
<1> QED
  BY <1>1

\* What the messages carry.
LEMMA MessageTypes ==
  ASSUME NEW m \in Message
  PROVE  /\ m.type \in {"started", "completed"} => m.turn \in Turns
         /\ m.type = "reply" => m.client \in Clients /\ m.turn \in Turns
         /\ m.type = "snapshot" => /\ m.reader \in Readers
                                   /\ m.active \in Turns \cup {None}
                                   /\ m.last \in Turns \cup {None}
  BY DEF Message

LEMMA MessageForms ==
  ASSUME NEW t \in Turns
  PROVE  /\ [type |-> "started", turn |-> t] \in Message
         /\ [type |-> "completed", turn |-> t] \in Message
         /\ \A c \in Clients : [type |-> "reply", client |-> c, turn |-> t] \in Message
  BY DEF Message

LEMMA SnapshotForm ==
  ASSUME NEW r \in Readers, NEW a \in Turns \cup {None}, NEW l \in Turns \cup {None}
  PROVE  [type |-> "snapshot", reader |-> r, active |-> a, last |-> l] \in Message
  BY DEF Message

\* The upstream keeps the types, and runs one turn at a time.
LEMMA UpstreamBooks ==
  ASSUME Books, Upstream
  PROVE  Books'
<1> USE TurnRuntimeAssumption DEF Books, OneAtATime
<1>0. PICK u \in Clocks : UpstreamAt(u)
  OBVIOUS
<1>s. stream \in Seq(Message)
  BY DEF TypeOK
<1>1. ASSUME NEW t \in Turns, 2 * t = u + 2, ut' = [ut EXCEPT ![t] = "running"]
      PROVE  OneAtATime'
  <2>1. u + 1 \in Clocks /\ UpstreamAt(u + 1)'
    BY <1>0, <1>1 DEF UpstreamAt, Clocks, Turns, TypeOK
  <2> QED
    BY <2>1
<1>2. CASE ExternalStart
  <2>1. NextTurn \in Turns /\ 2 * NextTurn = u + 2
    BY <1>0, <1>2, NextTurnOK DEF ExternalStart, MayRun
  <2>2. stream' \in Seq(Message)
    BY <1>2, <1>s, <2>1, MessageForms, AppendType DEF ExternalStart
  <2>3. OneAtATime'
    BY <1>1, <1>2, <2>1 DEF ExternalStart
  <2> QED
    BY <1>2, <2>1, <2>2, <2>3
    DEF ExternalStart, TypeOK, storeVars, clientVars, readVars, history
<1>3. ASSUME NEW c \in Clients, UpstreamStart(c)
      PROVE  Books'
  <2>1. NextTurn \in Turns /\ 2 * NextTurn = u + 2
    BY <1>0, <1>3, NextTurnOK DEF UpstreamStart, MayRun
  <2> DEFINE reply == [type |-> "reply", client |-> c, turn |-> NextTurn]
             note == [type |-> "started", turn |-> NextTurn]
  <2>2. reply \in Message /\ note \in Message
    BY <2>1, MessageForms
  <2>3. stream' \in {stream \o <<reply, note>>, stream \o <<note, reply>>}
    BY <1>3 DEF UpstreamStart
  <2> HIDE DEF reply, note
  <2>4. stream' \in Seq(Message)
    BY <1>s, <2>2, <2>3, AppendTwoType
  <2>5. OneAtATime'
    BY <1>1, <1>3, <2>1 DEF UpstreamStart
  <2> QED
    BY <1>3, <2>1, <2>4, <2>5
    DEF UpstreamStart, TypeOK, ClientPCs, storeVars, readVars, history, None, Turns
<1>4. CASE UpstreamFinish
  <2>1. PICK t \in Running : /\ ut' = [ut EXCEPT ![t] = "done"]
                             /\ stream' = Append(stream, [type |-> "completed", turn |-> t])
    BY <1>4 DEF UpstreamFinish
  <2>2. t \in Turns /\ 2 * t = u + 1
    BY <1>0 DEF UpstreamAt, Running
  <2>3. stream' \in Seq(Message)
    BY <1>s, <2>1, <2>2, MessageForms, AppendType
  <2>4. u + 1 \in Clocks /\ UpstreamAt(u + 1)'
    BY <1>0, <2>1, <2>2 DEF UpstreamAt, Clocks, Turns, TypeOK
  <2> QED
    BY <1>4, <2>1, <2>2, <2>3, <2>4
    DEF UpstreamFinish, TypeOK, storeVars, clientVars, readVars, history
<1>5. ASSUME NEW r \in Readers, UpstreamRead(r)
      PROVE  Books'
  <2> DEFINE a == IF Running = {} THEN None ELSE Max(Running)
             l == IF Done = {} THEN None ELSE Max(Done)
             m == [type |-> "snapshot", reader |-> r, active |-> a, last |-> l]
  <2>1. a \in Turns \cup {None}
    BY <1>0, RunningTurn
  <2>2. l \in Turns \cup {None}
    BY <1>0, LastDone
  <2>3. stream' = Append(stream, m)
    BY <1>5 DEF UpstreamRead
  <2> HIDE DEF a, l
  <2>4. m \in Message
    BY <2>1, <2>2, SnapshotForm
  <2>5. stream' \in Seq(Message)
    BY <1>s, <2>3, <2>4, AppendType
  <2>6. UpstreamAt(u)'
    BY <1>0, <1>5 DEF UpstreamAt, UpstreamRead
  <2> QED
    BY <1>5, <2>5, <2>6
    DEF UpstreamRead, TypeOK, storeVars, clientVars, readVars, history
<1> QED
  BY <1>2, <1>3, <1>4, <1>5 DEF Upstream

\* A terminal of a turn is one of the store's.
LEMMA CommitType ==
  ASSUME Books, NEW t \in Turns, Commit(t)
  PROVE  /\ terminal' \in [Turns -> {"none", "done", "lost"}]
         /\ published' \subseteq Turns /\ reports' \in [Turns -> Nat]
<1>1. /\ terminal \in [Turns -> {"none", "done", "lost"}]
      /\ published \subseteq Turns /\ reports \in [Turns -> Nat]
  BY DEF Books, TypeOK
<1>2. /\ terminal' = [terminal EXCEPT ![t] = "done"]
      /\ published' = published \cup {t}
  BY DEF Commit
<1> DEFINE n == IF t \in published THEN reports[t] ELSE reports[t] + 1
<1>3. reports' = [reports EXCEPT ![t] = n]
  BY DEF Commit
<1>4. n \in Nat
  BY <1>1
<1> HIDE DEF n
<1> QED
  BY <1>1, <1>2, <1>3, <1>4

\* Nobody but the upstream touches its turns.
LEMMA SameTurns ==
  ASSUME Books, ut' = ut
  PROVE  OneAtATime'
  BY DEF Books, OneAtATime, UpstreamAt

LEMMA DeliverBooks ==
  ASSUME Books, NEW i \in DOMAIN stream, Deliver(i)
  PROVE  Books'
<1> USE TurnRuntimeAssumption
<1> DEFINE t == stream[i].turn
<1>1. stream' \in Seq(Message) /\ t \in Turns
  BY TakeType, MessageTypes DEF Deliver, Books, TypeOK
<1>2. OneAtATime'
  BY SameTurns DEF Deliver
<1>3. /\ stale' \subseteq Readers /\ slips' \subseteq Slips
      /\ UNCHANGED <<ut, ordered, conn, detached, clientVars, rpc, snap, old>>
  BY DEF Deliver, Supersede, Books, TypeOK, Slips
<1>4. OnStarted(t) \/ OnCompleted(t)
  BY DEF Deliver
<1> HIDE DEF t
<1>5. CASE OnStarted(t)
  BY <1>1, <1>2, <1>3, <1>5 DEF OnStarted, Books, TypeOK, clientVars
<1>6. CASE OnCompleted(t)
  <2>1. /\ terminal' \in [Turns -> {"none", "done", "lost"}]
        /\ published' \subseteq Turns /\ reports' \in [Turns -> Nat]
    BY <1>1, <1>6, CommitType DEF OnCompleted, Books, TypeOK
  <2>2. /\ active' \in Turns \cup {None} /\ observed' \in Turns \cup {None}
        /\ startPending' \in BOOLEAN /\ asleep' \subseteq asleep
        /\ UNCHANGED <<attached, awaiting>>
    BY <1>1, <1>6 DEF OnCompleted, Books, TypeOK
  <2> QED
    BY <1>1, <1>2, <1>3, <2>1, <2>2 DEF Books, TypeOK, clientVars
<1> QED
  BY <1>4, <1>5, <1>6

LEMMA TransportBooks ==
  ASSUME Books, Transport
  PROVE  Books'
<1> USE TurnRuntimeAssumption
<1>1. CASE Fail
  <2>1. stream' \in Seq(Message)
    <3>1. PICK n \in 0 .. Len(stream) : stream' = SubSeq(stream, 1, n)
      BY <1>1 DEF Fail
    <3> QED
      BY <3>1 DEF Books, TypeOK
  <2> QED
    BY <1>1, <2>1, SameTurns
    DEF Fail, Books, TypeOK, storeVars, clientVars, readVars, history
<1>2. CASE Detach
  <2>1. reports' \in [Turns -> Nat]
    <3>1. CASE active = None
      BY <1>2, <3>1 DEF Detach, ReportLost, Books, TypeOK
    <3>2. CASE active # None
      <4> DEFINE n == reports[active] + 1
      <4>1. n \in Nat
        BY <3>2 DEF Books, TypeOK
      <4>2. reports' = [reports EXCEPT ![active] = n]
        BY <1>2, <3>2 DEF Detach, ReportLost
      <4> HIDE DEF n
      <4> QED
        BY <4>1, <4>2 DEF Books, TypeOK
    <3> QED
      BY <3>1, <3>2
  <2> QED
    BY <1>2, <2>1, SameTurns DEF Detach, Books, TypeOK, clientVars, readVars, history
<1>3. ASSUME NEW i \in DOMAIN stream, HandReply(i)
      PROVE  Books'
  <2>1. stream' \in Seq(Message) /\ stream[i].client \in Clients
    BY <1>3, TakeType, MessageTypes DEF HandReply, Books, TypeOK
  <2>2. cpc' \in [Clients -> ClientPCs]
    BY <1>3, <2>1 DEF HandReply, Books, TypeOK, ClientPCs
  <2>3. \A c \in Clients :
          \/ cpc'[c] = cpc[c]
          \/ cpc[c] = "started" /\ cpc'[c] = "answered"
    BY <1>3, <2>1 DEF HandReply, Books, TypeOK
  <2> QED
    BY <1>3, <2>1, <2>2, <2>3, SameTurns
    DEF HandReply, Books, TypeOK, storeVars, readVars, history
<1>4. ASSUME NEW i \in DOMAIN stream, HandSnapshot(i)
      PROVE  Books'
  <2>1. /\ stream' \in Seq(Message) /\ stream[i].reader \in Readers
        /\ stream[i].active \in Turns \cup {None}
        /\ stream[i].last \in Turns \cup {None}
    BY <1>4, TakeType, MessageTypes DEF HandSnapshot, Books, TypeOK
  <2>2. /\ rpc' \in [Readers -> {"idle", "asked", "answered"}]
        /\ snap' \in [Readers -> [active : Turns \cup {None}, last : Turns \cup {None}]]
    <3>1. CASE UNCHANGED <<rpc, snap>>
      BY <3>1 DEF Books, TypeOK
    <3> DEFINE s == [active |-> stream[i].active, last |-> stream[i].last]
    <3>2. s \in [active : Turns \cup {None}, last : Turns \cup {None}]
      BY <2>1
    <3>3. CASE /\ rpc' = [rpc EXCEPT ![stream[i].reader] = "answered"]
               /\ snap' = [snap EXCEPT ![stream[i].reader] = s]
      <4> HIDE DEF s
      <4> QED
        BY <2>1, <3>2, <3>3 DEF Books, TypeOK
    <3> QED
      BY <1>4, <3>1, <3>3 DEF HandSnapshot
  <2> QED
    BY <1>4, <2>1, <2>2, SameTurns
    DEF HandSnapshot, Books, TypeOK, storeVars, clientVars, history
<1> QED
  BY <1>1, <1>2, <1>3, <1>4, DeliverBooks DEF Transport

LEMMA ClientBooks ==
  ASSUME Books, NEW c \in Clients, Client(c)
  PROVE  Books'
<1> USE TurnRuntimeAssumption
    DEF Books, TypeOK, ClientPCs, Slips, upVars, storeVars, clientVars, readVars,
        history, None, Turns
<1>1. CASE Reserve(c)
  BY <1>1, SameTurns DEF Reserve
<1>2. CASE StartFails(c)
  BY <1>2, SameTurns DEF StartFails, Cancel
<1>3. CASE AcceptStart(c)
  <2>1. /\ active' \in Turns \cup {None} /\ slips' \subseteq Slips
        /\ stale' \subseteq Readers /\ OneAtATime'
    BY <1>3, SameTurns DEF AcceptStart, Supersede
  <2>2. CASE cpc' = [cpc EXCEPT ![c] = "waiting"] /\ UNCHANGED cturn
    BY <1>3, <2>1, <2>2 DEF AcceptStart
  <2>3. CASE cpc' = [cpc EXCEPT ![c] = "idle"] /\ cturn' = [cturn EXCEPT ![c] = None]
    BY <1>3, <2>1, <2>3 DEF AcceptStart
  <2> QED
    BY <1>3, <2>2, <2>3 DEF AcceptStart
<1>4. CASE RefuseStart(c)
  BY <1>4, SameTurns DEF RefuseStart
<1>5. CASE CancelRefused(c)
  BY <1>5, SameTurns DEF CancelRefused, Cancel
<1>6. CASE TurnWait(c)
  BY <1>6, SameTurns DEF TurnWait
<1>7. CASE WaitSleep(c)
  BY <1>7, SameTurns DEF WaitSleep
<1>8. CASE WaitReturn(c)
  BY <1>8, SameTurns DEF WaitReturn
<1>9. CASE WaitTimeout(c)
  BY <1>9, SameTurns DEF WaitTimeout
<1> QED
  BY <1>1, <1>2, <1>3, <1>4, <1>5, <1>6, <1>7, <1>8, <1>9 DEF Client

LEMMA ReaderBooks ==
  ASSUME Books, NEW r \in Readers, Reader(r)
  PROVE  Books'
<1> USE TurnRuntimeAssumption
<1>1. CASE ReadAsk(r) \/ ReadFails(r)
  BY <1>1, SameTurns
  DEF ReadAsk, ReadFails, Books, TypeOK, upVars, storeVars, clientVars, history
<1>2. ASSUME Applied(r)
      PROVE  /\ rpc' \in [Readers -> {"idle", "asked", "answered"}]
             /\ snap' \in [Readers -> [active : Turns \cup {None},
                                       last : Turns \cup {None}]]
             /\ stale' \subseteq Readers /\ slips' \subseteq Slips /\ asleep' = {}
             /\ OneAtATime' /\ UNCHANGED <<upVars, clientVars, old>>
  BY <1>2, SameTurns DEF Applied, Books, TypeOK, NoSnapshot, Slips, upVars
<1>3. CASE Attach(r)
  BY <1>2, <1>3 DEF Attach, Books, TypeOK, upVars, clientVars
<1>4. CASE Reconcile(r)
  <2>1. snap[r].active \in Turns \cup {None} /\ snap[r].last \in Turns \cup {None}
    BY DEF Books, TypeOK
  <2>2. /\ terminal' \in [Turns -> {"none", "done", "lost"}]
        /\ published' \subseteq Turns /\ reports' \in [Turns -> Nat]
    BY <1>4, <2>1, CommitType DEF Reconcile, Books, TypeOK
  <2>3. /\ active' \in Turns \cup {None} /\ observed' \in Turns \cup {None}
        /\ attached' \in BOOLEAN /\ UNCHANGED <<startPending, awaiting>> /\ Applied(r)
    BY <1>4, <2>1 DEF Reconcile, Books, TypeOK
  <2> QED
    BY <1>2, <2>2, <2>3 DEF Books, TypeOK, upVars, clientVars
<1> QED
  BY <1>1, <1>3, <1>4 DEF Reader

LEMMA BooksInvariant == Spec => []Books
<1>1. Init => Books
  <2> SUFFICES ASSUME Init PROVE Books
    OBVIOUS
  <2>1. TypeOK
    <3>1. stream \in Seq(Message)
      BY DEF Init
    <3>2. snap \in [Readers -> [active : Turns \cup {None}, last : Turns \cup {None}]]
      BY DEF Init, NoSnapshot
    <3> QED
      BY <3>1, <3>2, TurnRuntimeAssumption DEF Init, TypeOK, ClientPCs, None, Turns, Slips
  <2>2. 0 \in Clocks /\ UpstreamAt(0)
    BY TurnRuntimeAssumption DEF Init, UpstreamAt, Clocks, Turns
  <2> QED
    BY <2>1, <2>2 DEF Books, OneAtATime
<1>2. Books /\ [Next]_vars => Books'
  <2> SUFFICES ASSUME Books, [Next]_vars PROVE Books'
    OBVIOUS
  <2>1. CASE UNCHANGED vars
    BY <2>1 DEF Books, TypeOK, OneAtATime, UpstreamAt, vars, upVars, storeVars,
                clientVars, readVars, history
  <2>2. CASE Next
    BY <2>2, UpstreamBooks, TransportBooks, ClientBooks, ReaderBooks DEF Next
  <2> QED
    BY <2>1, <2>2
<1> QED
  BY <1>1, <1>2, PTL DEF Spec

\* The store's books, the threads and the stream keep their types, for any number of
\* clients, readers and turns, and in whatever order messages come.
THEOREM TypeCorrect == Spec => []TypeOK
<1>1. Books => TypeOK
  BY DEF Books
<1> QED
  BY <1>1, BooksInvariant, PTL

-----------------------------------------------------------------------------
(* A reservation stands exactly as long as its start is under way.         *)

\* ReservationExclusive, said of clients: the inductive form.
Exclusive ==
  ~detached /\ "stolen" \notin slips =>
    /\ \A c, d \in InFlight : c = d
    /\ awaiting <=> InFlight # {}

\* No step forgets a slip or the detach, or changes the stream's discipline.
LEMMA HistoryGrows ==
  ASSUME Books, [Next]_vars
  PROVE  slips \subseteq slips' /\ (detached => detached') /\ ordered' = ordered
<1>1. CASE UNCHANGED vars
  BY <1>1 DEF vars, upVars, history
<1>2. CASE Upstream
  <2>1. UNCHANGED <<ordered, detached, history>>
    BY <1>2 DEF Upstream, ExternalStart, UpstreamFinish, UpstreamStart, UpstreamRead
  <2> QED
    BY <2>1 DEF history
<1>3. CASE Transport
  <2>1. ASSUME NEW i \in DOMAIN stream, Deliver(i)
        PROVE  slips \subseteq slips' /\ (detached => detached') /\ ordered' = ordered
    BY <2>1 DEF Deliver, Supersede
  <2>2. ASSUME NEW i \in DOMAIN stream, HandReply(i) \/ HandSnapshot(i)
        PROVE  slips \subseteq slips' /\ (detached => detached') /\ ordered' = ordered
    BY <2>2 DEF HandReply, HandSnapshot, history
  <2> QED
    BY <1>3, <2>1, <2>2 DEF Transport, Fail, Detach, history
<1>4. ASSUME NEW c \in Clients, Client(c)
      PROVE  slips \subseteq slips' /\ (detached => detached') /\ ordered' = ordered
  <2>1. CASE AcceptStart(c)
    BY <2>1 DEF AcceptStart, Supersede, upVars
  <2>2. CASE CancelRefused(c)
    BY <2>2 DEF CancelRefused, upVars
  <2>3. CASE \/ Reserve(c) \/ StartFails(c) \/ RefuseStart(c) \/ TurnWait(c)
             \/ WaitSleep(c) \/ WaitReturn(c) \/ WaitTimeout(c)
    BY <2>3 DEF Reserve, StartFails, RefuseStart, TurnWait, WaitSleep, WaitReturn,
                WaitTimeout, upVars, history
  <2> QED
    BY <1>4, <2>1, <2>2, <2>3 DEF Client
<1>5. ASSUME NEW r \in Readers, Reader(r)
      PROVE  slips \subseteq slips' /\ (detached => detached') /\ ordered' = ordered
  BY <1>5 DEF Reader, ReadAsk, ReadFails, Reconcile, Attach, Applied, upVars, history
<1> QED
  BY <1>1, <1>2, <1>3, <1>4, <1>5 DEF Next

\* A step that leaves the threads' calls and the reservation alone.
LEMMA SameCalls ==
  ASSUME Exclusive, InFlight' = InFlight, awaiting' = awaiting, slips \subseteq slips',
         detached => detached'
  PROVE  Exclusive'
  BY DEF Exclusive

LEMMA ClientExclusive ==
  ASSUME Books, Exclusive, NEW c \in Clients, Client(c)
  PROVE  Exclusive'
<1>1. /\ slips \subseteq slips' /\ (detached => detached')
      /\ cpc \in [Clients -> ClientPCs]
  BY HistoryGrows DEF Next, Books, TypeOK
<1> SUFFICES ASSUME ~detached', "stolen" \notin slips'
             PROVE  /\ \A d, e \in InFlight' : d = e
                    /\ awaiting' <=> InFlight' # {}
  BY DEF Exclusive
<1>2. /\ ~detached /\ "stolen" \notin slips
      /\ \A d, e \in InFlight : d = e
      /\ awaiting <=> InFlight # {}
  BY <1>1 DEF Exclusive
<1>3. CASE Reserve(c)
  <2>1. InFlight = {} /\ cpc' = [cpc EXCEPT ![c] = "calling"] /\ awaiting'
    BY <1>2, <1>3 DEF Reserve
  <2>2. InFlight' = {c}
    BY <1>1, <2>1 DEF InFlight
  <2> QED
    BY <2>1, <2>2
<1>4. CASE StartFails(c) \/ AcceptStart(c)
           \/ (RefuseStart(c) /\ awaiting)
  <2>1. c \in InFlight /\ ~awaiting'
    BY <1>4 DEF StartFails, Cancel, AcceptStart, RefuseStart, InFlight
  <2>2. \A d \in Clients : d # c => cpc'[d] = cpc[d]
    BY <1>1, <1>4 DEF StartFails, AcceptStart, RefuseStart
  <2>3. cpc'[c] \in {"waiting", "idle", "cancelling"}
    BY <1>1, <1>4 DEF StartFails, AcceptStart, RefuseStart
  <2>4. InFlight' = {}
    BY <1>2, <2>1, <2>2, <2>3 DEF InFlight
  <2> QED
    BY <2>1, <2>4
<1>5. CASE RefuseStart(c) /\ ~awaiting
  BY <1>2, <1>5 DEF RefuseStart, InFlight
<1>6. CASE CancelRefused(c)
  <2>1. ~awaiting /\ ~awaiting' /\ cpc' = [cpc EXCEPT ![c] = "idle"]
        /\ cpc[c] = "cancelling"
    BY <1>2, <1>6 DEF CancelRefused, Cancel
  <2>2. InFlight' = InFlight
    BY <1>1, <2>1 DEF InFlight
  <2> QED
    BY <1>2, <2>1, <2>2
<1>7. CASE TurnWait(c) \/ WaitReturn(c) \/ WaitTimeout(c)
  <2>1. /\ awaiting' = awaiting /\ c \notin InFlight
        /\ cpc'[c] \in {"waitingAny", "idle", "misled"}
    BY <1>1, <1>7 DEF TurnWait, WaitReturn, WaitTimeout, storeVars, InFlight
  <2>2. \A d \in Clients : d # c => cpc'[d] = cpc[d]
    BY <1>1, <1>7 DEF TurnWait, WaitReturn, WaitTimeout
  <2>3. InFlight' = InFlight
    BY <2>1, <2>2 DEF InFlight
  <2> QED
    BY <1>2, <2>1, <2>3
<1>8. CASE WaitSleep(c)
  BY <1>2, <1>8 DEF WaitSleep, InFlight, storeVars, clientVars
<1> QED
  BY <1>3, <1>4, <1>5, <1>6, <1>7, <1>8 DEF Client

LEMMA ExclusiveStep ==
  ASSUME Books, Exclusive, [Next]_vars
  PROVE  Exclusive'
<1>1. slips \subseteq slips' /\ (detached => detached')
  BY HistoryGrows
<1>2. CASE UNCHANGED vars
  BY <1>1, <1>2, SameCalls DEF vars, InFlight, storeVars, clientVars
<1>3. ASSUME NEW c \in Clients, UpstreamStart(c)
      PROVE  Exclusive'
  <2>1. InFlight' = InFlight
    BY <1>3 DEF UpstreamStart, InFlight, Books, TypeOK
  <2> QED
    BY <1>1, <1>3, <2>1, SameCalls DEF UpstreamStart, storeVars
<1>4. CASE Upstream
  BY <1>1, <1>3, <1>4, SameCalls
  DEF Upstream, ExternalStart, UpstreamFinish, UpstreamRead, InFlight, storeVars,
      clientVars
<1>5. ASSUME NEW i \in DOMAIN stream, HandReply(i)
      PROVE  Exclusive'
  <2>1. InFlight' = InFlight
    BY <1>5 DEF HandReply, InFlight, Books, TypeOK
  <2> QED
    BY <1>1, <1>5, <2>1, SameCalls DEF HandReply, storeVars
<1>6. ASSUME NEW i \in DOMAIN stream, Deliver(i) \/ HandSnapshot(i)
      PROVE  Exclusive'
  <2>1. UNCHANGED clientVars /\ awaiting' = awaiting
    BY <1>6 DEF Deliver, OnStarted, OnCompleted, HandSnapshot, storeVars
  <2> QED
    BY <1>1, <2>1, SameCalls DEF InFlight, clientVars
<1>7. CASE Fail
  BY <1>1, <1>7, SameCalls DEF Fail, InFlight, storeVars, clientVars
<1>8. CASE Detach
  BY <1>8 DEF Detach, Exclusive
<1>9. CASE Transport
  BY <1>5, <1>6, <1>7, <1>8, <1>9 DEF Transport
<1>10. ASSUME NEW r \in Readers, Reader(r)
       PROVE  Exclusive'
  <2>1. UNCHANGED clientVars /\ awaiting' = awaiting
    BY <1>10 DEF Reader, ReadAsk, ReadFails, Reconcile, Attach, Applied, storeVars
  <2> QED
    BY <1>1, <2>1, SameCalls DEF InFlight, clientVars
<1> QED
  BY <1>2, <1>4, <1>9, <1>10, ClientExclusive DEF Next

LEMMA ExclusiveInvariant == Spec => []Exclusive
<1>1. Init => Exclusive
  BY DEF Init, Exclusive, InFlight
<1>2. Books /\ Exclusive /\ [Next]_vars => Exclusive'
  BY ExclusiveStep
<1> QED
  BY <1>1, <1>2, BooksInvariant, PTL DEF Spec

\* A client never starts a turn over another's start, and no reservation outlives its
\* start, unless a refused client has cancelled another's: reserve_start, cancel_start
\* and reconcile_start keep awaiting exactly as long as one call is in flight.
THEOREM ReservationIsExclusive == Spec => []ReservationExclusive
<1>1. Exclusive => ReservationExclusive
  <2> SUFFICES ASSUME Exclusive, ~detached, "stolen" \notin slips
               PROVE  Cardinality(InFlight) <= 1 /\ (awaiting <=> InFlight # {})
    BY DEF ReservationExclusive
  <2>1. CASE InFlight = {}
    BY <2>1, FS_EmptySet DEF Exclusive
  <2>2. CASE InFlight # {}
    <3>1. PICK c : c \in InFlight
      BY <2>2
    <3>2. InFlight = {c}
      BY <3>1 DEF Exclusive
    <3>3. Cardinality(InFlight) = 1
      BY <3>2, FS_Singleton
    <3> QED
      BY <2>2, <3>3 DEF Exclusive
  <2> QED
    BY <2>1, <2>2
<1> QED
  BY <1>1, ExclusiveInvariant, PTL
====
