------------------------ MODULE TurnRuntimeOrder_proofs ------------------------
(***************************************************************************)
(* Proofs about TurnRuntime when the connection delivers in order and the  *)
(* code let none of the slips happen: what the books then say of a turn is *)
(* the truth at one moment of the upstream's history.                      *)
(*                                                                         *)
(* The upstream's history is numbered (TurnRuntime_proofs): its step 2t - 1*)
(* is the start of turn t, and its step 2t the end.  u is the step it has  *)
(* come to, f the step of the last notification that was dispatched.  All  *)
(* between them is on the stream, in order.                                *)
(***************************************************************************)
EXTENDS TurnRuntime_proofs

Started(t) == [type |-> "started", turn |-> t]
Completed(t) == [type |-> "completed", turn |-> t]
Note(m) == m.type \in {"started", "completed"}

\* The step of the history a snapshot shows, and a message tells of.
SnapClock(s) == IF s.active # None THEN 2 * s.active - 1 ELSE 2 * s.last
Clock(m) == IF m.type = "snapshot" THEN SnapClock(m)
            ELSE IF m.type = "completed" THEN 2 * m.turn ELSE 2 * m.turn - 1

\* The step up to which everything is said when the message is taken: the response
\* of a start may come before the notification.
Need(m) == IF m.type = "reply" THEN 2 * m.turn - 2 ELSE Clock(m)

\* A read shows the running turn and the one before it.
Shape(s) == s.active \in {None, s.last + 1}

-----------------------------------------------------------------------------
(* A stream s in order, as far as step f dispatched.                       *)

Among(s, m, k) == \E j \in 1 .. k : s[j] = m

Sorted(s) ==
  \A i, j \in DOMAIN s : i < j =>
    /\ Clock(s[i]) <= Clock(s[j])
    /\ Note(s[i]) /\ Note(s[j]) => Clock(s[i]) < Clock(s[j])

Within(s, f, w) ==
  \A i \in DOMAIN s :
    /\ f <= Clock(s[i]) /\ Clock(s[i]) <= w
    /\ Note(s[i]) => f < Clock(s[i])
    /\ s[i].type = "snapshot" => Shape(s[i])

\* Every step up to n that is not dispatched is among the first k messages.
Told(s, f, n, k) ==
  \A t \in Turns :
    /\ f < 2 * t - 1 /\ 2 * t - 1 <= n => Among(s, Started(t), k)
    /\ f < 2 * t /\ 2 * t <= n => Among(s, Completed(t), k)

Gapless(s, f) == \A i \in DOMAIN s : Told(s, f, Need(s[i]), i)

InOrder(s, f, w) == f <= w /\ Sorted(s) /\ Within(s, f, w) /\ Gapless(s, f)

LEMMA ClockType ==
  ASSUME NEW m \in Message
  PROVE  /\ Clock(m) \in Int /\ Need(m) \in Int /\ Need(m) <= Clock(m)
         /\ m.type = "started" => m = Started(m.turn) /\ Clock(m) = 2 * m.turn - 1
         /\ m.type = "completed" => m = Completed(m.turn) /\ Clock(m) = 2 * m.turn
         /\ m.type = "snapshot" => Clock(m) = SnapClock(m)
         /\ m.type = "reply" => Clock(m) = 2 * m.turn - 1 /\ Need(m) = 2 * m.turn - 2
         /\ m.type # "reply" => Need(m) = Clock(m)
         /\ m.type \in {"started", "completed", "snapshot", "reply"}
<1> USE TurnRuntimeAssumption
<1>1. CASE m \in [type : {"started", "completed"}, turn : Turns]
  BY <1>1 DEF Clock, Need, Started, Completed, Turns
<1>2. CASE m \in [type : {"reply"}, client : Clients, turn : Turns]
  BY <1>2 DEF Clock, Need, Turns
<1>3. CASE m \in [type : {"snapshot"}, reader : Readers, active : Turns \cup {None},
                  last : Turns \cup {None}]
  BY <1>3 DEF Clock, Need, SnapClock, Turns, None
<1> QED
  BY <1>1, <1>2, <1>3 DEF Message

\* The next notification is the next step of the history; a read shows the step that
\* is dispatched, and the response of a start comes no sooner than the turn before it
\* has ended.
LEMMA HeadIsNext ==
  ASSUME NEW s \in Seq(Message), NEW f \in Clocks, NEW w \in Clocks,
         InOrder(s, f, w), s # <<>>
  PROVE  /\ 1 \in DOMAIN s /\ s[1] \in Message
         /\ Note(s[1]) => Clock(s[1]) = f + 1
         /\ s[1].type = "snapshot" => Clock(s[1]) = f /\ Shape(s[1])
         /\ s[1].type = "reply" => 2 * s[1].turn <= f + 2
<1> USE TurnRuntimeAssumption
<1>1. 1 \in DOMAIN s /\ s[1] \in Message
  OBVIOUS
<1>2. /\ f <= Clock(s[1]) /\ (Note(s[1]) => f < Clock(s[1]))
      /\ s[1].type = "snapshot" => Shape(s[1])
      /\ Clock(s[1]) <= w /\ Told(s, f, Need(s[1]), 1)
  BY <1>1 DEF InOrder, Within, Gapless
<1> DEFINE m == s[1]
<1>3. \A t \in Turns :
        /\ f < 2 * t - 1 /\ 2 * t - 1 <= Need(m) => m = Started(t)
        /\ f < 2 * t /\ 2 * t <= Need(m) => m = Completed(t)
  BY <1>2 DEF Told, Among
<1>4. Clock(m) \in Int /\ Need(m) \in Int /\ f \in Int /\ w <= 2 * MaxTurns
  BY <1>1, ClockType DEF Clocks
<1> HIDE DEF m
<1>5. CASE m.type = "started"
  <2>1. m.turn \in Turns /\ Clock(m) = 2 * m.turn - 1 /\ Need(m) = Clock(m)
    BY <1>1, <1>5, ClockType, MessageTypes DEF m
  <2>2. ASSUME f < 2 * (m.turn - 1)
        PROVE  FALSE
    <3>1. m.turn - 1 \in Turns
      BY <2>1, <2>2 DEF Turns, Clocks
    <3>2. m = Completed(m.turn - 1)
      BY <1>3, <2>1, <2>2, <3>1 DEF Turns
    <3> QED
      BY <1>5, <3>2 DEF Completed
  <2> QED
    BY <1>1, <1>2, <1>4, <1>5, <2>1, <2>2 DEF m, Note, Turns
<1>6. CASE m.type = "completed"
  <2>1. m.turn \in Turns /\ Clock(m) = 2 * m.turn /\ Need(m) = Clock(m)
    BY <1>1, <1>6, ClockType, MessageTypes DEF m
  <2>2. ASSUME f < 2 * m.turn - 1
        PROVE  FALSE
    <3>1. m = Started(m.turn)
      BY <1>3, <2>1, <2>2 DEF Turns
    <3> QED
      BY <1>6, <3>1 DEF Started
  <2> QED
    BY <1>1, <1>2, <1>4, <1>6, <2>1, <2>2 DEF m, Note, Turns
<1>7. CASE m.type = "snapshot"
  <2>1. /\ m.active \in Turns \cup {None} /\ m.last \in Turns \cup {None}
        /\ Clock(m) = SnapClock(m) /\ Need(m) = Clock(m) /\ Shape(m)
    BY <1>1, <1>2, <1>7, ClockType, MessageTypes DEF m
  <2>2. \A t \in Turns : /\ f < 2 * t - 1 => ~(2 * t - 1 <= Need(m))
                         /\ f < 2 * t => ~(2 * t <= Need(m))
    BY <1>3, <1>7 DEF Started, Completed
  <2>3. f = Clock(m)
    <3>1. CASE m.active # None
      BY <1>2, <1>4, <2>1, <2>2, <3>1 DEF SnapClock, Turns, m
    <3>2. CASE m.active = None
      BY <1>2, <1>4, <2>1, <2>2, <3>2 DEF SnapClock, Turns, None, m, Clocks
    <3> QED
      BY <3>1, <3>2
  <2> QED
    BY <1>1, <1>7, <2>1, <2>3 DEF m, Note
<1>8. CASE m.type = "reply"
  <2>1. m.turn \in Turns /\ Need(m) = 2 * m.turn - 2
    BY <1>1, <1>8, ClockType, MessageTypes DEF m
  <2>2. ASSUME f < 2 * (m.turn - 1)
        PROVE  FALSE
    <3>1. m.turn - 1 \in Turns
      BY <2>1, <2>2 DEF Turns, Clocks
    <3>2. m = Completed(m.turn - 1)
      BY <1>3, <2>1, <2>2, <3>1 DEF Turns
    <3> QED
      BY <1>8, <3>2 DEF Completed
  <2> QED
    BY <1>1, <1>4, <1>8, <2>1, <2>2 DEF m, Note, Turns
<1> QED
  BY <1>1, <1>5, <1>6, <1>7, <1>8, ClockType DEF m

\* Taking the first message: what follows it is in order as of its step.
LEMMA TakeHead ==
  ASSUME NEW s \in Seq(Message), s # <<>>
  PROVE  LET r == RemoveAt(s, 1)
         IN  /\ r \in Seq(Message) /\ Len(r) = Len(s) - 1
             /\ \A i \in 1 .. Len(r) : r[i] = s[i + 1]
<1>1. SubSeq(s, 1, 0) = <<>>
  OBVIOUS
<1>2. SubSeq(s, 2, Len(s)) \in Seq(Message) /\ Len(SubSeq(s, 2, Len(s))) = Len(s) - 1
      /\ \A i \in 1 .. Len(s) - 1 : SubSeq(s, 2, Len(s))[i] = s[i + 1]
  OBVIOUS
<1>3. RemoveAt(s, 1) = SubSeq(s, 2, Len(s))
  BY <1>1, <1>2 DEF RemoveAt
<1> QED
  BY <1>2, <1>3

After(s, f) == IF Note(s[1]) THEN Clock(s[1]) ELSE f

LEMMA TakeInOrder ==
  ASSUME NEW s \in Seq(Message), NEW f \in Clocks, NEW w \in Clocks,
         InOrder(s, f, w), s # <<>>
  PROVE  LET r == RemoveAt(s, 1)
             g == After(s, f)
         IN  /\ g \in Clocks /\ InOrder(r, g, w)
             /\ \A i \in DOMAIN r : Clock(s[1]) <= Clock(r[i])
             /\ \A n, k \in Nat : k <= Len(s) /\ Told(s, f, n, k) => Told(r, g, n, k - 1)
<1> USE TurnRuntimeAssumption
<1> DEFINE r == RemoveAt(s, 1)
           g == After(s, f)
<1>1. /\ r \in Seq(Message) /\ Len(r) = Len(s) - 1 /\ Len(s) \in Nat
      /\ \A i \in 1 .. Len(r) : r[i] = s[i + 1]
  BY TakeHead
<1>2. /\ 1 \in DOMAIN s /\ s[1] \in Message
      /\ Note(s[1]) => Clock(s[1]) = f + 1
  BY HeadIsNext
<1>3. Clock(s[1]) \in Int /\ f \in Int /\ w \in Int
  BY <1>2, ClockType DEF Clocks
<1>4. g \in Clocks /\ f <= g /\ g <= w /\ (Note(s[1]) => g = f + 1 /\ g = Clock(s[1]))
      /\ (~Note(s[1]) => g = f)
  BY <1>2, <1>3 DEF After, InOrder, Within, Clocks
<1> HIDE DEF r, g
<1>5. \A i \in DOMAIN r : i + 1 \in DOMAIN s /\ i \in Nat \ {0} /\ r[i] = s[i + 1]
                          /\ s[i + 1] \in Message
  BY <1>1
<1>6. Sorted(r)
  BY <1>5 DEF Sorted, InOrder
<1>7. \A i \in DOMAIN r : Clock(s[1]) <= Clock(r[i])
  BY <1>2, <1>5 DEF Sorted, InOrder
<1>8. Within(r, g, w)
  <2> SUFFICES ASSUME NEW i \in DOMAIN r
               PROVE  /\ g <= Clock(r[i]) /\ Clock(r[i]) <= w
                      /\ Note(r[i]) => g < Clock(r[i])
                      /\ r[i].type = "snapshot" => Shape(r[i])
    BY DEF Within
  <2>1. /\ f <= Clock(r[i]) /\ Clock(r[i]) <= w
        /\ Note(r[i]) => f < Clock(r[i])
        /\ r[i].type = "snapshot" => Shape(r[i])
    BY <1>5 DEF Within, InOrder
  <2>2. Note(s[1]) => g <= Clock(r[i]) /\ (Note(r[i]) => g < Clock(r[i]))
    BY <1>2, <1>4, <1>5 DEF Sorted, InOrder
  <2> QED
    BY <1>4, <2>1, <2>2
<1>9. ASSUME NEW n \in Int, NEW k \in Nat, k <= Len(s), Told(s, f, n, k)
      PROVE  Told(r, g, n, k - 1)
  <2>1. ASSUME NEW m, NEW j \in 1 .. k, s[j] = m, s[1] # m
        PROVE  Among(r, m, k - 1)
    <3>1. j # 1 /\ j - 1 \in 1 .. k - 1 /\ j - 1 \in 1 .. Len(r) /\ r[j - 1] = s[j]
      BY <1>1, <1>9, <2>1
    <3> QED
      BY <2>1, <3>1 DEF Among
  <2>2. ASSUME NEW t \in Turns, g < 2 * t - 1, 2 * t - 1 <= n
        PROVE  Among(r, Started(t), k - 1)
    <3>1. Among(s, Started(t), k)
      BY <1>3, <1>4, <1>9, <2>2 DEF Told, Turns, Clocks
    <3>2. s[1] # Started(t)
      <4>1. ASSUME s[1] = Started(t)
            PROVE  FALSE
        <5>1. Note(s[1]) /\ Clock(s[1]) = 2 * t - 1
          BY <4>1 DEF Started, Note, Clock
        <5> QED
          BY <1>4, <2>2, <5>1 DEF Turns, Clocks
      <4> QED
        BY <4>1
    <3> QED
      BY <2>1, <3>1, <3>2 DEF Among
  <2>3. ASSUME NEW t \in Turns, g < 2 * t, 2 * t <= n
        PROVE  Among(r, Completed(t), k - 1)
    <3>1. Among(s, Completed(t), k)
      BY <1>3, <1>4, <1>9, <2>3 DEF Told, Turns, Clocks
    <3>2. s[1] # Completed(t)
      <4>1. ASSUME s[1] = Completed(t)
            PROVE  FALSE
        <5>1. Note(s[1]) /\ Clock(s[1]) = 2 * t
          BY <4>1 DEF Completed, Note, Clock
        <5> QED
          BY <1>4, <2>3, <5>1 DEF Turns, Clocks
      <4> QED
        BY <4>1
    <3> QED
      BY <2>1, <3>1, <3>2 DEF Among
  <2> QED
    BY <2>2, <2>3 DEF Told
<1>10. Gapless(r, g)
  <2> SUFFICES ASSUME NEW i \in DOMAIN r
               PROVE  Told(r, g, Need(r[i]), i)
    BY DEF Gapless
  <2>1. /\ Told(s, f, Need(s[i + 1]), i + 1) /\ Need(s[i + 1]) \in Int /\ i + 1 \in Nat
        /\ i + 1 <= Len(s)
    BY <1>5, ClockType DEF Gapless, InOrder
  <2>2. Told(r, g, Need(s[i + 1]), (i + 1) - 1)
    BY <1>9, <2>1
  <2>3. (i + 1) - 1 = i /\ r[i] = s[i + 1]
    BY <1>5
  <2> QED
    BY <2>2, <2>3
<1>11. InOrder(r, g, w)
  BY <1>4, <1>6, <1>8, <1>10 DEF InOrder
<1>12. \A n, k \in Nat : k <= Len(s) /\ Told(s, f, n, k) => Told(r, g, n, k - 1)
  BY <1>9
<1> QED
  BY <1>4, <1>7, <1>11, <1>12 DEF r, g

\* A message that tells of nothing older than the stream, and of nothing unsaid.
LEMMA AppendInOrder ==
  ASSUME NEW s \in Seq(Message), NEW m \in Message, NEW f \in Clocks, NEW w \in Clocks,
         NEW v \in Clocks, InOrder(s, f, w), w <= v, w <= Clock(m), Clock(m) <= v,
         Note(m) => \A i \in DOMAIN s : Note(s[i]) => Clock(s[i]) < Clock(m),
         Note(m) => f < Clock(m), m.type = "snapshot" => Shape(m),
         Told(Append(s, m), f, Need(m), Len(s) + 1)
  PROVE  InOrder(Append(s, m), f, v)
<1> DEFINE a == Append(s, m)
<1>1. /\ a \in Seq(Message) /\ Len(a) = Len(s) + 1 /\ Len(s) \in Nat
      /\ \A i \in 1 .. Len(s) : a[i] = s[i] /\ s[i] \in Message
      /\ a[Len(s) + 1] = m
  OBVIOUS
<1>2. Told(a, f, Need(m), Len(s) + 1)
  OBVIOUS
<1> HIDE DEF a
<1>3. \A i \in DOMAIN a : \/ i \in 1 .. Len(s) /\ i \in DOMAIN s /\ a[i] = s[i]
                          \/ i = Len(s) + 1 /\ a[i] = m
  BY <1>1
<1>4. /\ Clock(m) \in Int /\ f \in Int /\ w \in Int /\ v \in Int
      /\ \A i \in DOMAIN s : Clock(s[i]) \in Int
  BY <1>1, ClockType DEF Clocks
<1>5. Sorted(a)
  <2> SUFFICES ASSUME NEW i \in DOMAIN a, NEW j \in DOMAIN a, i < j
               PROVE  /\ Clock(a[i]) <= Clock(a[j])
                      /\ Note(a[i]) /\ Note(a[j]) => Clock(a[i]) < Clock(a[j])
    BY DEF Sorted
  <2>1. i \in DOMAIN s /\ a[i] = s[i]
    BY <1>1, <1>3
  <2>2. CASE j \in DOMAIN s /\ a[j] = s[j]
    BY <2>1, <2>2 DEF InOrder, Sorted
  <2>3. CASE a[j] = m
    <3>1. Clock(s[i]) <= w
      BY <2>1 DEF InOrder, Within
    <3> QED
      BY <1>4, <2>1, <2>3, <3>1
  <2> QED
    BY <1>3, <2>2, <2>3
<1>6. Within(a, f, v)
  <2> SUFFICES ASSUME NEW i \in DOMAIN a
               PROVE  /\ f <= Clock(a[i]) /\ Clock(a[i]) <= v
                      /\ Note(a[i]) => f < Clock(a[i])
                      /\ a[i].type = "snapshot" => Shape(a[i])
    BY DEF Within
  <2>1. CASE i \in DOMAIN s /\ a[i] = s[i]
    BY <1>4, <2>1 DEF InOrder, Within
  <2>2. CASE a[i] = m
    BY <1>4, <2>2 DEF InOrder
  <2> QED
    BY <1>3, <2>1, <2>2
<1>7. Gapless(a, f)
  <2> SUFFICES ASSUME NEW i \in DOMAIN a
               PROVE  Told(a, f, Need(a[i]), i)
    BY DEF Gapless
  <2>1. CASE i \in DOMAIN s /\ a[i] = s[i]
    <3>1. Told(s, f, Need(s[i]), i)
      BY <2>1 DEF InOrder, Gapless
    <3>2. \A j \in 1 .. i : a[j] = s[j]
      BY <1>1, <2>1
    <3> QED
      BY <2>1, <3>1, <3>2 DEF Told, Among
  <2>2. CASE i = Len(s) + 1 /\ a[i] = m
    BY <1>2, <2>2
  <2> QED
    BY <1>3, <2>1, <2>2
<1> QED
  BY <1>4, <1>5, <1>6, <1>7 DEF InOrder, a

\* What is told stays told.
LEMMA AppendTold ==
  ASSUME NEW s \in Seq(Message), NEW m \in Message, NEW f \in Clocks, NEW n \in Int,
         Told(s, f, n, Len(s))
  PROVE  Told(Append(s, m), f, n, Len(s) + 1)
<1> DEFINE a == Append(s, m)
<1>1. \A j \in 1 .. Len(s) : a[j] = s[j] /\ j \in 1 .. Len(s) + 1
  OBVIOUS
<1> HIDE DEF a
<1>2. Told(a, f, n, Len(s) + 1)
  BY <1>1 DEF Told, Among
<1> QED
  BY <1>2 DEF a

\* A notification of the next step tells it.
LEMMA AppendNote ==
  ASSUME NEW s \in Seq(Message), NEW m \in Message, NEW f \in Clocks, NEW n \in Clocks,
         Told(s, f, n, Len(s)), Note(m), Clock(m) = n + 1
  PROVE  Told(Append(s, m), f, n + 1, Len(s) + 1)
<1> USE TurnRuntimeAssumption
<1> DEFINE a == Append(s, m)
<1>1. Told(a, f, n, Len(s) + 1)
  BY AppendTold DEF Clocks
<1>2. a[Len(s) + 1] = m /\ Len(s) + 1 \in 1 .. Len(s) + 1
  OBVIOUS
<1> HIDE DEF a
<1>3. CASE m.type = "started"
  <2>1. m = Started(m.turn) /\ 2 * m.turn - 1 = n + 1 /\ m.turn \in Turns
    BY <1>3, ClockType, MessageTypes
  <2>2. Among(a, Started(m.turn), Len(s) + 1)
    BY <1>2, <2>1 DEF Among
  <2> QED
    BY <1>1, <2>1, <2>2 DEF Told, Turns, Clocks, a
<1>4. CASE m.type = "completed"
  <2>1. m = Completed(m.turn) /\ 2 * m.turn = n + 1 /\ m.turn \in Turns
    BY <1>4, ClockType, MessageTypes
  <2>2. Among(a, Completed(m.turn), Len(s) + 1)
    BY <1>2, <2>1 DEF Among
  <2> QED
    BY <1>1, <2>1, <2>2 DEF Told, Turns, Clocks, a
<1> QED
  BY <1>3, <1>4 DEF Note

\* A stream that is cut off keeps its order.
LEMMA PrefixInOrder ==
  ASSUME NEW s \in Seq(Message), NEW n \in 0 .. Len(s), NEW f \in Clocks, NEW w \in Clocks,
         InOrder(s, f, w)
  PROVE  InOrder(SubSeq(s, 1, n), f, w)
<1> DEFINE p == SubSeq(s, 1, n)
<1>1. p \in Seq(Message) /\ Len(p) = n /\ \A i \in 1 .. n : p[i] = s[i] /\ i \in DOMAIN s
  OBVIOUS
<1> HIDE DEF p
<1>2. \A i \in DOMAIN p : i \in DOMAIN s /\ p[i] = s[i] /\ \A j \in 1 .. i : p[j] = s[j]
  BY <1>1
<1>3. Sorted(p) /\ Within(p, f, w)
  BY <1>2 DEF Sorted, Within, InOrder
<1>4. Gapless(p, f)
  BY <1>2 DEF Gapless, Told, Among, InOrder
<1> QED
  BY <1>3, <1>4 DEF InOrder, p

-----------------------------------------------------------------------------
(* What the books say as of step f of the upstream's history, which has    *)
(* come to step u.                                                         *)

\* While the connection is open, all that is not dispatched is on the stream.
Sent(f, u) == conn => Told(stream, f, u, Len(stream))

Fresh == {r \in Readers : rpc[r] = "answered"} \ stale
SnapsFrom(s, k) == \A i \in DOMAIN s : s[i].type = "snapshot" => k <= Clock(s[i])

\* The ends up to step f are published, and they alone.
Recorded(f) ==
  /\ published = {t \in Turns : 2 * t <= f}
  /\ \A t \in Turns : terminal[t] = IF t \in published THEN "done" ELSE "none"

\* A snapshot in hand that nothing has superseded shows step f.
ReadsOK(f) == \A r \in Fresh : SnapClock(snap[r]) = f /\ Shape(snap[r])

\* The active turn has not ended; no read is still to come that does not know it.
ActiveOK(f, u) ==
  active # None =>
    /\ f < 2 * active /\ 2 * active <= f + 2 /\ 2 * active - 1 <= u
    /\ SnapsFrom(stream, 2 * active - 1)
    /\ \A r \in Fresh : 2 * active - 1 <= SnapClock(snap[r])

\* The identity a pending start has observed is that of a turn later than the start.
PendingOK ==
  /\ old \subseteq published
  /\ awaiting => IF observed = None THEN active = None
                 ELSE (active = observed \/ observed \in published) /\ observed \notin old

\* The turn of a call that is under way has not ended unobserved; a client that waits
\* for its turn waits for the active one, or finds its end recorded.
CallOK(c, f, u) ==
  /\ cpc[c] \in {"started", "answered"} =>
       2 * cturn[c] - 1 <= u /\ (observed = None => f < 2 * cturn[c])
  /\ cpc[c] = "answered" =>
       2 * cturn[c] <= f + 2 /\ SnapsFrom(stream, 2 * cturn[c] - 1)
  /\ cpc[c] = "waiting" => active = cturn[c] \/ cturn[c] \in published
  /\ cpc[c] # "misled"

CallsOK(f, u) == \A c \in Clients : CallOK(c, f, u)

Flow(f, u) == UpstreamAt(u) /\ InOrder(stream, f, u) /\ Sent(f, u)
Store(f, u) ==
  Recorded(f) /\ ReadsOK(f) /\ ActiveOK(f, u) /\ PendingOK /\ CallsOK(f, u)
Now(f, u) == Flow(f, u) /\ Store(f, u)

\* After the detach the session has no turn, and every waiter finds an end.
Gone ==
  /\ ~attached /\ ~awaiting /\ active = None
  /\ \A c \in Clients : /\ cpc[c] = "waiting" => terminal[cturn[c]] # "none"
                        /\ cpc[c] # "misled"

Chronicle ==
  Sound => IF detached THEN Gone ELSE \E f, u \in Clocks : Now(f, u)

LEMMA SnapsSubset ==
  ASSUME NEW s, NEW r, NEW k,
         \A i \in DOMAIN r : \E j \in DOMAIN s : r[i] = s[j], SnapsFrom(s, k)
  PROVE  SnapsFrom(r, k)
  BY DEF SnapsFrom

\* What taking a message does to the stream.
LEMMA TakeFlow ==
  ASSUME Books, ordered, NEW f \in Clocks, NEW u \in Clocks, Flow(f, u), NEW i, Take(i),
         UNCHANGED <<ut, conn>>
  PROVE  LET m == stream[1]
         IN  /\ i = 1 /\ m \in Message /\ f <= u
             /\ \E g \in Clocks : g = After(stream, f) /\ f <= g /\ Flow(g, u)'
             /\ Note(m) => Clock(m) = f + 1
             /\ m.type = "snapshot" => Clock(m) = f /\ Shape(m)
             /\ m.type = "reply" => 2 * m.turn <= f + 2
             /\ SnapsFrom(stream', Clock(m))
             /\ \A k : SnapsFrom(stream, k) => SnapsFrom(stream', k)
<1> USE TurnRuntimeAssumption
<1> DEFINE m == stream[1]
<1>0. PICK g : g = After(stream, f)
  OBVIOUS
<1>1. stream \in Seq(Message) /\ i = 1 /\ stream # <<>> /\ stream' = RemoveAt(stream, 1)
  BY DEF Take, Books, TypeOK
<1>2. /\ m \in Message /\ (Note(m) => Clock(m) = f + 1)
      /\ m.type = "snapshot" => Clock(m) = f /\ Shape(m)
      /\ m.type = "reply" => 2 * m.turn <= f + 2
  BY <1>1, HeadIsNext DEF Flow
<1>3. /\ g \in Clocks /\ InOrder(stream', g, u)
      /\ \A j \in DOMAIN stream' : Clock(m) <= Clock(stream'[j])
      /\ \A n, k \in Nat : k <= Len(stream) /\ Told(stream, f, n, k)
                             => Told(stream', g, n, k - 1)
  BY <1>0, <1>1, TakeInOrder DEF Flow
<1>4. f <= g /\ f <= u
  BY <1>0, <1>2, <1>3 DEF After, Clocks, Flow, InOrder
<1>5. Sent(g, u)'
  <2> SUFFICES ASSUME conn' PROVE Told(stream', g, u, Len(stream'))
    BY DEF Sent
  <2>1. Told(stream, f, u, Len(stream))
    BY DEF Flow, Sent
  <2>2. Len(stream) \in Nat /\ u \in Nat /\ Len(stream') = Len(stream) - 1
    BY <1>1, TakeHead DEF Clocks
  <2>3. Told(stream', g, u, Len(stream) - 1)
    BY <1>3, <2>1, <2>2
  <2> QED
    BY <2>2, <2>3
<1>6. UpstreamAt(u)'
  BY DEF Flow, UpstreamAt
<1>7. \A j \in DOMAIN stream' : \E k \in DOMAIN stream : stream'[j] = stream[k]
  BY <1>1, TakeHead
<1> HIDE DEF m
<1>8. SnapsFrom(stream', Clock(m))
  BY <1>3 DEF SnapsFrom
<1>9. \A k : SnapsFrom(stream, k) => SnapsFrom(stream', k)
  BY <1>7, SnapsSubset
<1>10. Flow(g, u)'
  BY <1>3, <1>5, <1>6 DEF Flow
<1> QED
  BY <1>0, <1>1, <1>2, <1>3, <1>4, <1>8, <1>9, <1>10 DEF m

\* A step that leaves the stream and the upstream alone.
LEMMA SameFlow ==
  ASSUME NEW f, NEW u, Flow(f, u), UNCHANGED <<ut, stream, conn>>
  PROVE  Flow(f, u)'
  BY DEF Flow, UpstreamAt, Sent

\* A step of the store that leaves the readers and the history of the turns alone keeps
\* most of what is said.
LEMMA SameReads ==
  ASSUME NEW f, ReadsOK(f), Fresh' \subseteq Fresh, \A r \in Fresh' : snap'[r] = snap[r]
  PROVE  ReadsOK(f)'
  BY DEF ReadsOK

LEMMA SameRecord ==
  ASSUME NEW f, Recorded(f), UNCHANGED <<published, terminal>>
  PROVE  Recorded(f)'
  BY DEF Recorded

LEMMA SameActive ==
  ASSUME NEW f \in Clocks, NEW u \in Clocks, NEW v \in Clocks, u <= v, ActiveOK(f, u),
         Books, active' = active, Fresh' \subseteq Fresh,
         \A r \in Fresh' : snap'[r] = snap[r],
         \A k \in Int : k <= u /\ SnapsFrom(stream, k) => SnapsFrom(stream', k)
  PROVE  ActiveOK(f, v)'
<1>1. CASE active = None
  BY <1>1 DEF ActiveOK
<1>2. CASE active # None
  <2>1. active \in Turns /\ 2 * active - 1 \in Int
    BY <1>2 DEF Books, TypeOK, Turns
  <2>2. SnapsFrom(stream', 2 * active - 1)
    BY <1>2, <2>1 DEF ActiveOK
  <2> QED
    BY <1>2, <2>1, <2>2 DEF ActiveOK, Clocks
<1> QED
  BY <1>1, <1>2

LEMMA SameCall ==
  ASSUME NEW f \in Clocks, NEW u \in Clocks, NEW v \in Clocks, u <= v, Books,
         NEW c \in Clients, CallOK(c, f, u),
         UNCHANGED <<observed, active, published>>, cpc'[c] = cpc[c], cturn'[c] = cturn[c],
         \A k \in Int : k <= u /\ SnapsFrom(stream, k) => SnapsFrom(stream', k)
  PROVE  CallOK(c, f, v)'
<1>1. cturn[c] \in Turns \cup {None} /\ 2 * cturn[c] - 1 \in Int
  BY DEF Books, TypeOK, Turns, None
<1>2. cpc[c] = "answered" => SnapsFrom(stream', 2 * cturn[c] - 1)
  BY <1>1 DEF CallOK
<1> QED
  BY <1>1, <1>2 DEF CallOK, Clocks

-----------------------------------------------------------------------------
(* The steps of the upstream.                                              *)

Current(f, u) ==
  /\ Books /\ Exclusive /\ ordered /\ slips = {} /\ ~detached
  /\ f \in Clocks /\ u \in Clocks /\ Now(f, u)

LEMMA AppendSnaps ==
  ASSUME NEW s \in Seq(Message), NEW m \in Message, NEW k \in Int, SnapsFrom(s, k),
         m.type = "snapshot" => k <= Clock(m)
  PROVE  SnapsFrom(Append(s, m), k)
<1> DEFINE a == Append(s, m)
<1>1. \A i \in DOMAIN a : (i \in DOMAIN s /\ a[i] = s[i]) \/ a[i] = m
  OBVIOUS
<1> HIDE DEF a
<1>2. SnapsFrom(a, k)
  BY <1>1 DEF SnapsFrom
<1> QED
  BY <1>2 DEF a

LEMMA ConcatTwo ==
  ASSUME NEW s \in Seq(Message), NEW m \in Message, NEW n \in Message
  PROVE  s \o <<m, n>> = Append(Append(s, m), n)
<1> DEFINE a == s \o <<m, n>>
           b == Append(Append(s, m), n)
<1>1. a \in Seq(Message) /\ Len(a) = Len(s) + 2
  OBVIOUS
<1>2. b \in Seq(Message) /\ Len(b) = Len(s) + 2
  OBVIOUS
<1>3. \A i \in 1 .. Len(s) + 2 : a[i] = b[i]
  OBVIOUS
<1> HIDE DEF a, b
<1>4. a = b
  BY <1>1, <1>2, <1>3
<1> QED
  BY <1>4 DEF a, b

\* A notification of the upstream's next step, sent after all the others.
LEMMA AppendNextNote ==
  ASSUME NEW s \in Seq(Message), NEW f \in Clocks, NEW u \in Clocks, u + 1 \in Clocks,
         NEW w \in {u, u + 1}, InOrder(s, f, w), f <= u, Told(s, f, u, Len(s)),
         \A i \in DOMAIN s : Note(s[i]) => Clock(s[i]) <= u,
         NEW m \in Message, Note(m), Clock(m) = u + 1
  PROVE  InOrder(Append(s, m), f, u + 1) /\ Told(Append(s, m), f, u + 1, Len(s) + 1)
<1>1. Told(Append(s, m), f, u + 1, Len(s) + 1)
  BY AppendNote
<1>2. Need(m) = u + 1 /\ m.type # "snapshot"
  BY ClockType DEF Note
<1>3. \A i \in DOMAIN s : Note(s[i]) => Clock(s[i]) < Clock(m)
  <2> SUFFICES ASSUME NEW i \in DOMAIN s, Note(s[i]) PROVE Clock(s[i]) < Clock(m)
    OBVIOUS
  <2>1. Clock(s[i]) \in Int /\ Clock(s[i]) <= u
    BY ClockType
  <2> QED
    BY <2>1 DEF Clocks
<1>4. w \in Clocks /\ w <= u + 1 /\ w <= Clock(m) /\ f < Clock(m) /\ Clock(m) <= u + 1
  BY DEF Clocks
<1>5. Told(Append(s, m), f, Need(m), Len(s) + 1)
  BY <1>1, <1>2
<1>6. InOrder(Append(s, m), f, u + 1)
  BY <1>2, <1>3, <1>4, <1>5, AppendInOrder
<1> QED
  BY <1>1, <1>6

\* The response of a start, sent before or after its notification.
LEMMA AppendReply ==
  ASSUME NEW s \in Seq(Message), NEW f \in Clocks, NEW u \in Clocks, NEW w \in Clocks,
         NEW v \in Clocks, InOrder(s, f, w), Told(s, f, u, Len(s)), w <= v,
         NEW m \in Message, m.type = "reply", Clock(m) = v, Need(m) <= u
  PROVE  InOrder(Append(s, m), f, v) /\ Told(Append(s, m), f, u, Len(s) + 1)
<1>1. Told(Append(s, m), f, u, Len(s) + 1)
  BY AppendTold DEF Clocks
<1>2. Need(m) \in Int /\ ~Note(m)
  BY ClockType DEF Note
<1>3. Told(Append(s, m), f, Need(m), Len(s) + 1)
  BY <1>1, <1>2 DEF Told, Turns, Clocks
<1>4. w <= Clock(m) /\ Clock(m) <= v
  BY DEF Clocks
<1>5. InOrder(Append(s, m), f, v)
  BY <1>2, <1>3, <1>4, AppendInOrder
<1> QED
  BY <1>1, <1>5

\* A step of the upstream leaves the store alone, and what the store says of step f
\* stays true.
LEMMA UpstreamStore ==
  ASSUME NEW f, NEW u, NEW v \in Clocks, Current(f, u), u <= v,
         UNCHANGED <<storeVars, readVars, history>>,
         \A k \in Int : k <= u /\ SnapsFrom(stream, k) => SnapsFrom(stream', k),
         \A c \in Clients : (cpc'[c] = cpc[c] /\ cturn'[c] = cturn[c]) \/ CallOK(c, f, v)'
  PROVE  Store(f, v)'
<1>1. /\ f \in Clocks /\ u \in Clocks /\ Books /\ Store(f, u)
      /\ UNCHANGED <<active, observed, awaiting, published, terminal, old, snap, stale, rpc>>
  BY DEF Current, Now, storeVars, readVars, history
<1>2. Recorded(f)'
  BY <1>1, SameRecord DEF Store
<1>3. Fresh' = Fresh
  BY <1>1 DEF Fresh
<1>4. ReadsOK(f)'
  BY <1>1, <1>3, SameReads DEF Store
<1>5. ActiveOK(f, v)'
  BY <1>1, <1>3, SameActive DEF Store
<1>6. PendingOK'
  BY <1>1 DEF Store, PendingOK
<1>7. CallsOK(f, v)'
  BY <1>1, SameCall DEF Store, CallsOK
<1> QED
  BY <1>2, <1>4, <1>5, <1>6, <1>7 DEF Store

\* The clocks of what a start sends.
LEMMA FormClocks ==
  ASSUME NEW t \in Turns, NEW c \in Clients
  PROVE  /\ LET m == [type |-> "started", turn |-> t]
            IN  m \in Message /\ Note(m) /\ Clock(m) = 2 * t - 1
         /\ LET m == [type |-> "reply", client |-> c, turn |-> t]
            IN  /\ m \in Message /\ ~Note(m) /\ m.type = "reply"
                /\ Clock(m) = 2 * t - 1 /\ Need(m) = 2 * t - 2
  BY MessageForms DEF Note, Clock, Need

LEMMA StartedClock ==
  ASSUME NEW t \in Turns
  PROVE  LET m == [type |-> "started", turn |-> t]
         IN  m \in Message /\ Note(m) /\ Clock(m) = 2 * t - 1
  BY MessageForms DEF Note, Clock

LEMMA UpstreamNow ==
  ASSUME NEW f, NEW u, Current(f, u), Upstream
  PROVE  \E v \in Clocks : Now(f, v)'
<1> USE TurnRuntimeAssumption
<1>1. /\ f \in Clocks /\ u \in Clocks /\ Flow(f, u) /\ Books
      /\ UpstreamAt(u) /\ InOrder(stream, f, u) /\ f <= u
      /\ stream \in Seq(Message)
  BY DEF Current, Now, Flow, InOrder, Books, TypeOK
<1>2. \A i \in DOMAIN stream : Clock(stream[i]) <= u
  BY <1>1 DEF InOrder, Within
<1>3. ASSUME NEW t \in Turns, u + 1 \in Clocks, conn, conn' = conn,
             NEW m \in Message, Note(m), Clock(m) = u + 1,
             stream' = Append(stream, m), UpstreamAt(u + 1)',
             UNCHANGED <<storeVars, clientVars, readVars, history>>
      PROVE  Now(f, u + 1)'
  <2>1. Told(stream, f, u, Len(stream))
    BY <1>1, <1>3 DEF Flow, Sent
  <2>2. /\ InOrder(stream', f, u + 1)
        /\ Told(stream', f, u + 1, Len(stream) + 1)
    BY <1>1, <1>2, <1>3, <2>1, AppendNextNote
  <2>3. Len(stream') = Len(stream) + 1
    BY <1>1, <1>3
  <2>4. Flow(f, u + 1)'
    BY <1>3, <2>2, <2>3 DEF Flow, Sent
  <2>5. \A k \in Int : k <= u /\ SnapsFrom(stream, k) => SnapsFrom(stream', k)
    BY <1>1, <1>3, AppendSnaps DEF Note
  <2>6. u <= u + 1
    BY <1>1 DEF Clocks
  <2>7. UNCHANGED <<cpc, cturn>>
    BY <1>3 DEF clientVars
  <2>8. Store(f, u + 1)'
    BY <1>3, <2>5, <2>6, <2>7, UpstreamStore
  <2> QED
    BY <2>4, <2>8 DEF Now
<1>4. CASE ExternalStart
  <2>1. NextTurn \in Turns /\ 2 * NextTurn = u + 2
    BY <1>1, <1>4, NextTurnOK DEF ExternalStart, MayRun
  <2> DEFINE m == [type |-> "started", turn |-> NextTurn]
  <2>2. m \in Message /\ Note(m) /\ Clock(m) = u + 1
    <3>1. m \in Message /\ Note(m) /\ Clock(m) = 2 * NextTurn - 1
      BY <2>1, StartedClock
    <3> HIDE DEF m
    <3> QED
      BY <1>1, <2>1, <3>1 DEF Clocks, Turns
  <2>3. u + 1 \in Clocks
    BY <1>1, <2>1 DEF Clocks, Turns
  <2>4. UpstreamAt(u + 1)'
    BY <1>1, <1>4, <2>1 DEF UpstreamAt, Clocks, Turns, ExternalStart, Books, TypeOK
  <2>5. /\ stream' = Append(stream, m) /\ conn /\ conn' = conn
        /\ UNCHANGED <<storeVars, clientVars, readVars, history>>
    BY <1>4 DEF ExternalStart, MayRun
  <2> HIDE DEF m
  <2>6. Now(f, u + 1)'
    BY <1>3, <2>1, <2>2, <2>3, <2>4, <2>5
  <2> QED
    BY <2>3, <2>6
<1>5. CASE UpstreamFinish
  <2>1. PICK t \in Running : /\ ut' = [ut EXCEPT ![t] = "done"]
                             /\ stream' = Append(stream, [type |-> "completed", turn |-> t])
    BY <1>5 DEF UpstreamFinish
  <2>2. t \in Turns /\ 2 * t = u + 1
    BY <1>1 DEF UpstreamAt, Running
  <2> DEFINE m == [type |-> "completed", turn |-> t]
  <2>3. m \in Message /\ Note(m) /\ Clock(m) = u + 1
    BY <1>1, <2>2, MessageForms DEF Note, Clock, Turns, Clocks
  <2>4. u + 1 \in Clocks
    BY <1>1, <2>2 DEF Clocks, Turns
  <2>5. UpstreamAt(u + 1)'
    BY <1>1, <2>1, <2>2 DEF UpstreamAt, Clocks, Turns, Books, TypeOK
  <2>6. /\ stream' = Append(stream, m) /\ conn /\ conn' = conn
        /\ UNCHANGED <<storeVars, clientVars, readVars, history>>
    BY <1>5, <2>1 DEF UpstreamFinish
  <2> HIDE DEF m
  <2>7. Now(f, u + 1)'
    BY <1>3, <2>2, <2>3, <2>4, <2>5, <2>6
  <2> QED
    BY <2>4, <2>7
<1>6. ASSUME NEW c \in Clients, UpstreamStart(c)
      PROVE  \E v \in Clocks : Now(f, v)'
  <2>1. NextTurn \in Turns /\ 2 * NextTurn = u + 2
    BY <1>1, <1>6, NextTurnOK DEF UpstreamStart, MayRun
  <2> DEFINE reply == [type |-> "reply", client |-> c, turn |-> NextTurn]
             note == [type |-> "started", turn |-> NextTurn]
  <2>2. /\ reply \in Message /\ note \in Message /\ Note(note) /\ ~Note(reply)
        /\ Clock(note) = u + 1 /\ Clock(reply) = u + 1 /\ Need(reply) = u
        /\ reply.type = "reply"
    <3>1. /\ reply \in Message /\ note \in Message /\ Note(note) /\ ~Note(reply)
          /\ Clock(note) = 2 * NextTurn - 1 /\ Clock(reply) = 2 * NextTurn - 1
          /\ Need(reply) = 2 * NextTurn - 2 /\ reply.type = "reply"
      BY <2>1, FormClocks
    <3> HIDE DEF reply, note
    <3> QED
      BY <1>1, <2>1, <3>1 DEF Clocks, Turns
  <2>3. u + 1 \in Clocks /\ u <= u + 1 /\ u <= u
    BY <1>1, <2>1 DEF Clocks, Turns
  <2>4. UpstreamAt(u + 1)'
    BY <1>1, <1>6, <2>1 DEF UpstreamAt, Clocks, Turns, UpstreamStart, Books, TypeOK
  <2>5. /\ conn /\ conn' = conn /\ UNCHANGED <<storeVars, readVars, history>>
        /\ cpc' = [cpc EXCEPT ![c] = "started"] /\ cturn' = [cturn EXCEPT ![c] = NextTurn]
        /\ stream' \in {stream \o <<reply, note>>, stream \o <<note, reply>>}
    BY <1>6 DEF UpstreamStart, MayRun
  <2> HIDE DEF reply, note
  <2>6. Told(stream, f, u, Len(stream))
    BY <1>1, <2>5 DEF Flow, Sent
  <2>7. /\ InOrder(stream', f, u + 1) /\ Told(stream', f, u + 1, Len(stream'))
        /\ \A k \in Int : k <= u /\ SnapsFrom(stream, k) => SnapsFrom(stream', k)
    <3>1. CASE stream' = stream \o <<reply, note>>
      <4> DEFINE s == Append(stream, reply)
      <4>1. s \in Seq(Message) /\ Len(s) = Len(stream) + 1
            /\ \A i \in DOMAIN s : (i \in DOMAIN stream /\ s[i] = stream[i]) \/ s[i] = reply
        BY <1>1, <2>2
      <4>2. InOrder(s, f, u + 1) /\ Told(s, f, u, Len(s))
        BY <1>1, <2>2, <2>3, <2>6, <4>1, AppendReply
      <4>3. \A k \in Int : SnapsFrom(stream, k) => SnapsFrom(s, k)
        BY <1>1, <2>2, AppendSnaps DEF Note
      <4>4. stream' = Append(s, note)
        BY <1>1, <2>2, <3>1, ConcatTwo
      <4> HIDE DEF s
      <4>5. \A i \in DOMAIN s : Note(s[i]) => Clock(s[i]) <= u
        BY <1>2, <2>2, <4>1
      <4>6. /\ InOrder(Append(s, note), f, u + 1)
            /\ Told(Append(s, note), f, u + 1, Len(s) + 1)
        BY <1>1, <2>2, <2>3, <4>1, <4>2, <4>5, AppendNextNote
      <4>7. Len(stream') = Len(s) + 1
        BY <2>2, <4>1, <4>4
      <4>8. \A k \in Int : SnapsFrom(s, k) => SnapsFrom(stream', k)
        BY <2>2, <4>1, <4>4, AppendSnaps DEF Note
      <4> QED
        BY <4>3, <4>4, <4>6, <4>7, <4>8
    <3>2. CASE stream' = stream \o <<note, reply>>
      <4> DEFINE s == Append(stream, note)
      <4>1. s \in Seq(Message) /\ Len(s) = Len(stream) + 1
        BY <1>1, <2>2
      <4>2. InOrder(s, f, u + 1) /\ Told(s, f, u + 1, Len(s))
        BY <1>1, <1>2, <2>2, <2>3, <2>6, <4>1, AppendNextNote
      <4>3. \A k \in Int : SnapsFrom(stream, k) => SnapsFrom(s, k)
        BY <1>1, <2>2, AppendSnaps DEF Note
      <4>4. stream' = Append(s, reply)
        BY <1>1, <2>2, <3>2, ConcatTwo
      <4> HIDE DEF s
      <4>5. /\ InOrder(Append(s, reply), f, u + 1)
            /\ Told(Append(s, reply), f, u + 1, Len(s) + 1)
        <5>1. Need(reply) <= u + 1 /\ u + 1 <= u + 1
          BY <1>1, <2>2 DEF Clocks
        <5> QED
          BY <1>1, <2>2, <2>3, <4>1, <4>2, <5>1, AppendReply
      <4>6. Len(stream') = Len(s) + 1
        BY <2>2, <4>1, <4>4
      <4>7. \A k \in Int : SnapsFrom(s, k) => SnapsFrom(stream', k)
        BY <2>2, <4>1, <4>4, AppendSnaps DEF Note
      <4> QED
        BY <4>3, <4>4, <4>5, <4>6, <4>7
    <3> QED
      BY <2>5, <3>1, <3>2
  <2>8. Flow(f, u + 1)'
    BY <2>4, <2>5, <2>7 DEF Flow, Sent
  <2>9. \A d \in Clients :
          (cpc'[d] = cpc[d] /\ cturn'[d] = cturn[d]) \/ CallOK(d, f, u + 1)'
    <3>1. \A d \in Clients \ {c} : cpc'[d] = cpc[d] /\ cturn'[d] = cturn[d]
      BY <1>1, <2>5 DEF Books, TypeOK
    <3>2. cpc'[c] = "started" /\ cturn'[c] = NextTurn
      BY <1>1, <2>5 DEF Books, TypeOK
    <3>3. CallOK(c, f, u + 1)'
      BY <1>1, <2>1, <3>2 DEF CallOK, Clocks, Turns
    <3> QED
      BY <3>1, <3>3
  <2>10. Store(f, u + 1)'
    BY <2>3, <2>5, <2>7, <2>9, UpstreamStore
  <2> QED
    BY <2>3, <2>8, <2>10 DEF Now
<1>7. ASSUME NEW r \in Readers, UpstreamRead(r)
      PROVE  \E v \in Clocks : Now(f, v)'
  <2> DEFINE a == IF Running = {} THEN None ELSE Max(Running)
             l == IF Done = {} THEN None ELSE Max(Done)
             m == [type |-> "snapshot", reader |-> r, active |-> a, last |-> l]
  <2>1. a \in Turns \cup {None} /\ (a # None => 2 * a = u + 1)
        /\ (Running = {} <=> a = None)
    BY <1>1, RunningTurn DEF None, Turns
  <2>2. l \in Turns \cup {None} /\ 2 * l <= u /\ u <= 2 * l + 1
        /\ (Running # {} <=> u = 2 * l + 1)
    BY <1>1, LastDone
  <2>3. stream' = Append(stream, m) /\ conn /\ conn' = conn /\ ut' = ut
        /\ UNCHANGED <<storeVars, clientVars, readVars, history>>
    BY <1>7 DEF UpstreamRead
  <2> HIDE DEF a, l
  <2>4. m \in Message
    BY <2>1, <2>2, SnapshotForm
  <2>5. m.type = "snapshot" /\ m.active = a /\ m.last = l /\ ~Note(m)
    BY DEF Note
  <2>6. Clock(m) = u /\ Need(m) = u /\ Shape(m)
    <3>1. CASE a = None
      BY <1>1, <2>1, <2>2, <2>5, <3>1 DEF Clock, Need, SnapClock, Shape, Clocks, None, Turns
    <3>2. CASE a # None
      BY <1>1, <2>1, <2>2, <2>5, <3>2 DEF Clock, Need, SnapClock, Shape, Clocks, None, Turns
    <3> QED
      BY <3>1, <3>2
  <2> HIDE DEF m
  <2>7. Told(stream, f, u, Len(stream))
    BY <1>1, <2>3 DEF Flow, Sent
  <2>8. u \in Int /\ u <= u /\ u <= Clock(m) /\ Clock(m) <= u
    BY <1>1, <2>6 DEF Clocks
  <2>9. Told(Append(stream, m), f, u, Len(stream) + 1)
    BY <1>1, <2>4, <2>7, <2>8, AppendTold
  <2>10. Told(Append(stream, m), f, Need(m), Len(stream) + 1)
    BY <2>6, <2>9
  <2>11. InOrder(Append(stream, m), f, u)
    BY <1>1, <2>4, <2>5, <2>6, <2>8, <2>10, AppendInOrder
  <2>12. Len(stream') = Len(stream) + 1
    BY <1>1, <2>3, <2>4
  <2>13. UpstreamAt(u)'
    BY <1>1, <2>3 DEF UpstreamAt
  <2>14. Flow(f, u)'
    BY <2>3, <2>9, <2>11, <2>12, <2>13 DEF Flow, Sent
  <2>15. \A k \in Int : k <= u /\ SnapsFrom(stream, k) => SnapsFrom(stream', k)
    BY <1>1, <2>3, <2>4, <2>6, AppendSnaps
  <2>16. UNCHANGED <<cpc, cturn>>
    BY <2>3 DEF clientVars
  <2>17. Store(f, u)'
    BY <1>1, <2>3, <2>8, <2>15, <2>16, UpstreamStore
  <2> QED
    BY <1>1, <2>14, <2>17 DEF Now
<1> QED
  BY <1>4, <1>5, <1>6, <1>7 DEF Upstream

-----------------------------------------------------------------------------
(* The steps of the connection.                                            *)

\* In what follows an active turn is the one that comes after the last published.
LEMMA ActiveIsNext ==
  ASSUME NEW f, NEW u, Current(f, u), active # None
  PROVE  /\ active \in Turns /\ active \notin published
         /\ f < 2 * active /\ 2 * active <= f + 2 /\ 2 * active - 1 <= u
<1>1. active \in Turns /\ f \in Clocks /\ ActiveOK(f, u) /\ Recorded(f)
  BY DEF Current, Now, Store, Books, TypeOK
<1>2. /\ f < 2 * active /\ 2 * active <= f + 2 /\ 2 * active - 1 <= u
  BY <1>1 DEF ActiveOK
<1>3. active \notin published
  BY <1>1, <1>2 DEF Recorded, Turns, Clocks
<1> QED
  BY <1>1, <1>2, <1>3

\* A start that is under way has its reservation.
LEMMA CallIsAwaited ==
  ASSUME NEW f, NEW u, Current(f, u), NEW c \in Clients,
         cpc[c] \in {"calling", "started", "answered"}
  PROVE  awaiting /\ \A d \in Clients :
                       cpc[d] \in {"calling", "started", "answered"} => d = c
  BY DEF Current, Exclusive, InFlight

LEMMA DeliverStarted ==
  ASSUME NEW f, NEW u, Current(f, u), NEW i \in DOMAIN stream, Deliver(i),
         stream[i].type = "started"
  PROVE  \E g \in Clocks : Now(g, u)'
<1> USE TurnRuntimeAssumption
<1> DEFINE t == stream[i].turn
<1>1. /\ Books /\ ordered /\ f \in Clocks /\ u \in Clocks /\ Flow(f, u) /\ Store(f, u)
      /\ Take(i) /\ UNCHANGED <<ut, conn>>
  BY DEF Current, Now, Deliver
<1>2. PICK g \in Clocks : /\ i = 1 /\ stream[1] \in Message /\ g = After(stream, f)
                          /\ Flow(g, u)'
                          /\ Note(stream[1]) => Clock(stream[1]) = f + 1
                          /\ SnapsFrom(stream', Clock(stream[1]))
                          /\ \A k : SnapsFrom(stream, k) => SnapsFrom(stream', k)
  BY <1>1, TakeFlow
<1>3. /\ t \in Turns /\ Note(stream[1]) /\ Clock(stream[1]) = 2 * t - 1
      /\ g = f + 1 /\ f = 2 * t - 2 /\ SnapsFrom(stream', 2 * t - 1)
  <2>1. t \in Turns /\ Note(stream[1]) /\ Clock(stream[1]) = 2 * t - 1
    BY <1>2, ClockType, MessageTypes DEF Note
  <2>2. SnapsFrom(stream', 2 * t - 1)
    BY <1>2, <2>1
  <2> HIDE DEF t
  <2>3. 2 * t - 1 = f + 1 /\ g = 2 * t - 1
    BY <1>2, <2>1 DEF After
  <2> QED
    BY <1>1, <2>1, <2>2, <2>3 DEF Clocks, Turns
<1>4. g <= u
  BY <1>2 DEF Flow, InOrder
<1>5. t \notin published
  BY <1>1, <1>3 DEF Store, Recorded, Turns
<1>6. /\ active' = t /\ observed' = IF awaiting THEN t ELSE observed
      /\ UNCHANGED <<awaiting, terminal, published, old, cpc, cturn>>
      /\ Fresh' = {}
  BY <1>5 DEF Deliver, OnStarted, Supersede, Fresh, clientVars
<1> HIDE DEF t
<1>7. Recorded(g)'
  <2>1. \A s \in Turns : 2 * s <= f <=> 2 * s <= g
    BY <1>3 DEF Turns
  <2> QED
    BY <1>1, <1>6, <2>1 DEF Store, Recorded
<1>8. ReadsOK(g)'
  BY <1>6 DEF ReadsOK
<1>9. ActiveOK(g, u)'
  BY <1>3, <1>4, <1>6 DEF ActiveOK, Turns
<1>10. PendingOK'
  BY <1>1, <1>3, <1>5, <1>6 DEF Store, PendingOK, Turns, None
<1>11. ASSUME NEW c \in Clients
       PROVE  CallOK(c, g, u)'
  <2>1. CallOK(c, f, u) /\ cpc'[c] = cpc[c] /\ cturn'[c] = cturn[c]
        /\ cturn[c] \in Turns \cup {None}
    BY <1>1, <1>6 DEF Store, CallsOK, Books, TypeOK
  <2>2. CASE cpc[c] \in {"started", "answered"}
    <3>1. awaiting
      BY <2>2, CallIsAwaited
    <3>2. observed' # None
      BY <1>3, <1>6, <3>1 DEF Turns, None
    <3> QED
      BY <1>1, <1>2, <1>3, <2>1, <2>2, <3>2 DEF CallOK, Clocks, Turns, None
  <2>3. CASE cpc[c] = "waiting"
    <3>1. CASE cturn[c] \in published
      BY <1>6, <2>1, <2>3, <3>1 DEF CallOK
    <3>2. CASE active = cturn[c] /\ active # None
      <4>1. active = t
        BY <1>3, <3>2, ActiveIsNext DEF Turns
      <4> QED
        BY <1>6, <2>1, <2>3, <3>2, <4>1 DEF CallOK
    <3>3. cturn[c] # None
      BY <1>1, <2>3 DEF Books, TypeOK
    <3> QED
      BY <2>1, <2>3, <3>1, <3>2, <3>3 DEF CallOK
  <2> QED
    BY <2>1, <2>2, <2>3 DEF CallOK
<1> QED
  BY <1>2, <1>7, <1>8, <1>9, <1>10, <1>11 DEF Now, Store, CallsOK

LEMMA DeliverCompleted ==
  ASSUME NEW f, NEW u, Current(f, u), NEW i \in DOMAIN stream, Deliver(i),
         stream[i].type = "completed"
  PROVE  \E g \in Clocks : Now(g, u)'
<1> USE TurnRuntimeAssumption
<1> DEFINE t == stream[i].turn
<1>1. /\ Books /\ ordered /\ f \in Clocks /\ u \in Clocks /\ Flow(f, u) /\ Store(f, u)
      /\ Take(i) /\ UNCHANGED <<ut, conn>>
  BY DEF Current, Now, Deliver
<1>2. PICK g \in Clocks : /\ i = 1 /\ stream[1] \in Message /\ g = After(stream, f)
                          /\ Flow(g, u)'
                          /\ Note(stream[1]) => Clock(stream[1]) = f + 1
                          /\ \A k : SnapsFrom(stream, k) => SnapsFrom(stream', k)
  BY <1>1, TakeFlow
<1>3. /\ t \in Turns /\ Note(stream[1]) /\ Clock(stream[1]) = 2 * t
      /\ g = f + 1 /\ f = 2 * t - 1
  <2>1. t \in Turns /\ Note(stream[1]) /\ Clock(stream[1]) = 2 * t
    BY <1>2, ClockType, MessageTypes DEF Note
  <2> QED
    BY <1>1, <1>2, <2>1 DEF After, Clocks, Turns
<1>4. t \notin published
  BY <1>1, <1>3 DEF Store, Recorded, Turns
<1>5. active \in {None, t}
  BY <1>3, ActiveIsNext DEF Turns
<1>6. /\ active' = None
      /\ IF awaiting /\ observed \in {None, t} THEN observed' = t ELSE observed' = observed
      /\ published' = published \cup {t} /\ terminal' = [terminal EXCEPT ![t] = "done"]
      /\ UNCHANGED <<awaiting, old, cpc, cturn>>
      /\ Fresh' = {}
  BY <1>4, <1>5 DEF Deliver, OnCompleted, Commit, Supersede, Fresh, clientVars
<1> HIDE DEF t
<1>7. Recorded(g)'
  <2>1. \A s \in Turns : 2 * s <= g <=> 2 * s <= f \/ s = t
    BY <1>3 DEF Turns
  <2>2. \A s \in Turns : terminal'[s] = IF s = t THEN "done" ELSE terminal[s]
    BY <1>1, <1>3, <1>6 DEF Books, TypeOK
  <2>3. published' = {s \in Turns : 2 * s <= g}
    BY <1>1, <1>3, <1>6, <2>1 DEF Store, Recorded
  <2> QED
    BY <1>1, <1>6, <2>2, <2>3 DEF Store, Recorded
<1>8. ReadsOK(g)'
  BY <1>6 DEF ReadsOK
<1>9. ActiveOK(g, u)'
  BY <1>6 DEF ActiveOK
<1>10. PendingOK'
  BY <1>1, <1>3, <1>4, <1>5, <1>6 DEF Store, PendingOK, Turns, None
<1>11. ASSUME NEW c \in Clients
       PROVE  CallOK(c, g, u)'
  <2>1. CallOK(c, f, u) /\ cpc'[c] = cpc[c] /\ cturn'[c] = cturn[c]
        /\ cturn[c] \in Turns \cup {None}
    BY <1>1, <1>6 DEF Store, CallsOK, Books, TypeOK
  <2>2. CASE cpc[c] \in {"started", "answered"}
    <3>1. awaiting
      BY <2>2, CallIsAwaited
    <3>2. observed' # None
      BY <1>3, <1>6, <3>1 DEF Turns, None
    <3> QED
      BY <1>1, <1>2, <1>3, <2>1, <2>2, <3>2 DEF CallOK, Clocks, Turns, None
  <2>3. CASE cpc[c] = "waiting"
    <3>1. cturn[c] # None
      BY <1>1, <2>3 DEF Books, TypeOK
    <3>2. cturn[c] \in published \cup {t}
      BY <1>5, <2>1, <2>3, <3>1 DEF CallOK
    <3> QED
      BY <1>6, <2>1, <2>3, <3>2 DEF CallOK
  <2> QED
    BY <2>1, <2>2, <2>3 DEF CallOK
<1> QED
  BY <1>2, <1>7, <1>8, <1>9, <1>10, <1>11 DEF Now, Store, CallsOK

\* A response changes nothing in the books; the client that gets it knows that no read
\* of before the start is still to come.
LEMMA HandReplyNow ==
  ASSUME NEW f, NEW u, Current(f, u), NEW i \in DOMAIN stream, HandReply(i)
  PROVE  Now(f, u)'
<1> USE TurnRuntimeAssumption
<1> DEFINE m == stream[1]
<1>1. /\ Books /\ ordered /\ f \in Clocks /\ u \in Clocks /\ Flow(f, u) /\ Store(f, u)
      /\ Take(i) /\ UNCHANGED <<ut, conn, storeVars, cturn, readVars, history>>
  BY DEF Current, Now, HandReply
<1>2. /\ i = 1 /\ m \in Message /\ m.type = "reply"
      /\ \E g \in Clocks : g = After(stream, f) /\ Flow(g, u)'
      /\ 2 * m.turn <= f + 2 /\ SnapsFrom(stream', Clock(m))
      /\ \A k : SnapsFrom(stream, k) => SnapsFrom(stream', k)
  BY <1>1, TakeFlow DEF HandReply
<1>3. After(stream, f) = f
  BY <1>2 DEF After, Note
<1>4. Flow(f, u)'
  BY <1>2, <1>3
<1>5. Clock(m) = 2 * m.turn - 1
  BY <1>2, ClockType
<1>6. LET c == m.client
      IN  cpc' = IF conn /\ cpc[c] = "started" /\ cturn[c] = m.turn
                 THEN [cpc EXCEPT ![c] = "answered"] ELSE cpc
  BY <1>2 DEF HandReply
<1> HIDE DEF m
<1>7. ASSUME NEW c \in Clients, cpc'[c] # cpc[c]
      PROVE  CallOK(c, f, u)'
  <2>1. cpc[c] = "started" /\ cpc'[c] = "answered" /\ cturn[c] = m.turn
    BY <1>1, <1>6, <1>7 DEF Books, TypeOK
  <2>2. CallOK(c, f, u) /\ UNCHANGED <<observed, active, published, cturn>>
    BY <1>1 DEF Store, CallsOK, storeVars
  <2> QED
    BY <1>2, <1>5, <2>1, <2>2 DEF CallOK
<1>8. Store(f, u)'
  <2>1. \A k \in Int : k <= u /\ SnapsFrom(stream, k) => SnapsFrom(stream', k)
    BY <1>2
  <2>2. u <= u
    BY <1>1 DEF Clocks
  <2>3. \A c \in Clients : (cpc'[c] = cpc[c] /\ cturn'[c] = cturn[c]) \/ CallOK(c, f, u)'
    BY <1>1, <1>7
  <2> QED
    BY <1>1, <2>1, <2>2, <2>3, UpstreamStore
<1> QED
  BY <1>4, <1>8 DEF Now

\* A read is handed over while it is the truth.
LEMMA HandSnapshotNow ==
  ASSUME NEW f, NEW u, Current(f, u), NEW i \in DOMAIN stream, HandSnapshot(i)
  PROVE  Now(f, u)'
<1> USE TurnRuntimeAssumption
<1> DEFINE m == stream[1]
           s == [active |-> m.active, last |-> m.last]
<1>1. /\ Books /\ ordered /\ f \in Clocks /\ u \in Clocks /\ Flow(f, u) /\ Store(f, u)
      /\ Take(i) /\ UNCHANGED <<ut, conn, storeVars, clientVars, stale, history>>
  BY DEF Current, Now, HandSnapshot
<1>2. /\ i = 1 /\ m \in Message /\ m.type = "snapshot"
      /\ \E g \in Clocks : g = After(stream, f) /\ Flow(g, u)'
      /\ Clock(m) = f /\ Shape(m)
      /\ \A k : SnapsFrom(stream, k) => SnapsFrom(stream', k)
  BY <1>1, TakeFlow DEF HandSnapshot
<1>3. After(stream, f) = f
  BY <1>2 DEF After, Note
<1>4. Flow(f, u)'
  BY <1>2, <1>3
<1>5. SnapClock(s) = f /\ Shape(s)
  BY <1>2 DEF Clock, SnapClock, Shape
<1>6. \/ /\ rpc' = [rpc EXCEPT ![m.reader] = "answered"]
         /\ snap' = [snap EXCEPT ![m.reader] = s]
      \/ UNCHANGED <<rpc, snap>>
  BY <1>2 DEF HandSnapshot
<1>7. SnapsFrom(stream, 2 * active - 1) => 2 * active - 1 <= f
  BY <1>1, <1>2 DEF SnapsFrom
<1> HIDE DEF m, s
<1>8. \A r \in Fresh' : r \in Readers /\ \/ r \in Fresh /\ snap'[r] = snap[r]
                                         \/ snap'[r] = s
  BY <1>1, <1>6 DEF Fresh, Books, TypeOK
<1>9. UNCHANGED <<active, observed, awaiting, published, terminal, old, cpc, cturn>>
  BY <1>1 DEF storeVars, clientVars, history
<1>10. Recorded(f)' /\ PendingOK'
  BY <1>1, <1>9, SameRecord DEF Store, PendingOK
<1>11. ReadsOK(f)'
  BY <1>1, <1>5, <1>8 DEF Store, ReadsOK
<1>12. ActiveOK(f, u)'
  <2>1. CASE active = None
    BY <1>9, <2>1 DEF ActiveOK
  <2>2. CASE active # None
    <3>1. /\ f < 2 * active /\ 2 * active <= f + 2 /\ 2 * active - 1 <= u
          /\ SnapsFrom(stream, 2 * active - 1)
          /\ \A r \in Fresh : 2 * active - 1 <= SnapClock(snap[r])
      BY <1>1, <2>2 DEF Store, ActiveOK
    <3>2. \A r \in Fresh' : 2 * active - 1 <= SnapClock(snap'[r])
      BY <1>5, <1>7, <1>8, <3>1
    <3> QED
      BY <1>2, <1>9, <3>1, <3>2 DEF ActiveOK
  <2> QED
    BY <2>1, <2>2
<1>13. CallsOK(f, u)'
  <2>1. \A k \in Int : k <= u /\ SnapsFrom(stream, k) => SnapsFrom(stream', k)
    BY <1>2
  <2>2. u <= u
    BY <1>1 DEF Clocks
  <2> QED
    BY <1>1, <1>9, <2>1, <2>2, SameCall DEF Store, CallsOK
<1> QED
  BY <1>4, <1>10, <1>11, <1>12, <1>13 DEF Now, Store

\* A connection that fails loses the end of the stream.
LEMMA FailNow ==
  ASSUME NEW f, NEW u, Current(f, u), Fail
  PROVE  Now(f, u)'
<1>1. /\ Books /\ f \in Clocks /\ u \in Clocks /\ Flow(f, u)
      /\ stream \in Seq(Message)
      /\ UNCHANGED <<ut, storeVars, clientVars, readVars, history>> /\ ~conn'
  BY DEF Current, Now, Fail, Books, TypeOK
<1>2. PICK n \in 0 .. Len(stream) : stream' = SubSeq(stream, 1, n)
  BY DEF Fail
<1>3. InOrder(stream', f, u)
  BY <1>1, <1>2, PrefixInOrder DEF Flow
<1>4. Flow(f, u)'
  BY <1>1, <1>3 DEF Flow, UpstreamAt, Sent
<1>5. \A i \in DOMAIN stream' : \E j \in DOMAIN stream : stream'[i] = stream[j]
  BY <1>1, <1>2
<1>6. \A k \in Int : k <= u /\ SnapsFrom(stream, k) => SnapsFrom(stream', k)
  BY <1>5, SnapsSubset
<1>7. u <= u /\ UNCHANGED <<cpc, cturn>>
  BY <1>1 DEF Clocks, clientVars
<1>8. Store(f, u)'
  BY <1>1, <1>6, <1>7, UpstreamStore
<1> QED
  BY <1>4, <1>8 DEF Now

\* Whoever waits for a turn when the session is detached finds how it ended.
LEMMA DetachGone ==
  ASSUME NEW f, NEW u, Current(f, u), Detach
  PROVE  Gone'
<1>1. Books /\ Store(f, u)
  BY DEF Current, Now
<1>2. ASSUME NEW c \in Clients
      PROVE  (cpc'[c] = "waiting" => terminal'[cturn'[c]] # "none") /\ cpc'[c] # "misled"
  <2>1. CallOK(c, f, u) /\ cpc'[c] = cpc[c] /\ cturn'[c] = cturn[c]
        /\ (cpc[c] = "waiting" => cturn[c] \in Turns)
    BY <1>1 DEF Store, CallsOK, Detach, clientVars, Books, TypeOK
  <2>2. ASSUME cpc[c] = "waiting"
        PROVE  terminal'[cturn[c]] # "none"
    <3>1. CASE active = cturn[c]
      <4>1. active # None
        BY <1>1, <2>2, <3>1 DEF Books, TypeOK
      <4> QED
        BY <1>1, <2>1, <2>2, <3>1, <4>1 DEF Detach, Books, TypeOK
    <3>2. CASE cturn[c] \in published
      <4>1. terminal[cturn[c]] = "done"
        BY <1>1, <2>1, <2>2, <3>2 DEF Store, Recorded
      <4> QED
        BY <1>1, <2>1, <2>2, <4>1 DEF Detach, Books, TypeOK
    <3> QED
      BY <2>1, <2>2, <3>1, <3>2 DEF CallOK
  <2> QED
    BY <2>1, <2>2 DEF CallOK
<1> QED
  BY <1>2 DEF Gone, Detach

-----------------------------------------------------------------------------
(* The steps of the clients.                                               *)

\* A step that leaves the stream, the readers, the active turn and the ends alone.
LEMMA ClientFrame ==
  ASSUME NEW f, NEW u, Current(f, u),
         UNCHANGED <<ut, stream, conn, active, published, terminal, readVars>>,
         PendingOK', CallsOK(f, u)'
  PROVE  Now(f, u)'
<1>1. /\ Books /\ f \in Clocks /\ u \in Clocks /\ Flow(f, u) /\ Store(f, u)
      /\ u <= u /\ UNCHANGED <<rpc, snap, stale>>
  BY DEF Current, Now, readVars, Clocks
<1>2. Fresh' = Fresh
  BY <1>1 DEF Fresh
<1>3. Flow(f, u)' /\ Recorded(f)'
  BY <1>1, SameFlow, SameRecord DEF Store
<1>4. ReadsOK(f)'
  BY <1>1, <1>2, SameReads DEF Store
<1>5. ActiveOK(f, u)'
  BY <1>1, <1>2, SameActive DEF Store
<1> QED
  BY <1>3, <1>4, <1>5 DEF Now, Store

\* What is said of a client that does nothing and has no call under way.
LEMMA OtherClient ==
  ASSUME NEW f, NEW u, Current(f, u), NEW c \in Clients,
         UNCHANGED <<active, published>>, cpc'[c] = cpc[c], cturn'[c] = cturn[c],
         cpc[c] \notin {"started", "answered"}
  PROVE  CallOK(c, f, u)'
<1>1. CallOK(c, f, u)
  BY DEF Current, Now, Store, CallsOK
<1> QED
  BY <1>1 DEF CallOK

LEMMA ReserveNow ==
  ASSUME NEW f, NEW u, Current(f, u), NEW c \in Clients, Reserve(c)
  PROVE  Now(f, u)'
<1>1. /\ Books /\ Store(f, u) /\ ~awaiting /\ active = None
      /\ awaiting' /\ observed' = None /\ old' = published
      /\ cpc' = [cpc EXCEPT ![c] = "calling"]
      /\ UNCHANGED <<ut, stream, conn, active, published, terminal, readVars, cturn>>
  BY DEF Current, Now, Reserve, upVars
<1>2. PendingOK'
  BY <1>1 DEF PendingOK
<1>3. ASSUME NEW d \in Clients
      PROVE  CallOK(d, f, u)'
  <2>1. CASE d = c
    BY <1>1, <2>1 DEF CallOK, Books, TypeOK
  <2>2. CASE d # c
    <3>1. cpc'[d] = cpc[d] /\ cturn'[d] = cturn[d]
      BY <1>1, <2>2 DEF Books, TypeOK
    <3>2. cpc[d] \notin {"started", "answered"}
      BY <1>1, CallIsAwaited
    <3> QED
      BY <1>1, <3>1, <3>2, OtherClient
  <2> QED
    BY <2>1, <2>2
<1> QED
  BY <1>1, <1>2, <1>3, ClientFrame DEF CallsOK

\* The reservation is given up by the one call that is under way, or by none.
LEMMA ReleaseNow ==
  ASSUME NEW f, NEW u, Current(f, u), NEW c \in Clients,
         cpc[c] \in {"calling", "started", "answered"} \/ ~awaiting,
         ~awaiting', cpc'[c] \in {"idle", "cancelling"},
         \A d \in Clients \ {c} : cpc'[d] = cpc[d] /\ cturn'[d] = cturn[d],
         UNCHANGED <<ut, stream, conn, active, published, terminal, readVars, old>>
  PROVE  Now(f, u)'
<1>1. PendingOK'
  BY DEF PendingOK, Current, Now, Store
<1>2. ASSUME NEW d \in Clients
      PROVE  CallOK(d, f, u)'
  <2>1. CASE d = c
    BY <2>1 DEF CallOK
  <2>2. CASE d # c
    <3>1. cpc[d] \notin {"started", "answered"}
      BY <2>2, CallIsAwaited
    <3> QED
      BY <2>2, <3>1, OtherClient
  <2> QED
    BY <2>1, <2>2
<1> QED
  BY <1>1, <1>2, ClientFrame DEF CallsOK

\* An accepted response makes its turn the active one, or finds it accounted for.
LEMMA AcceptNow ==
  ASSUME NEW f, NEW u, Current(f, u), NEW c \in Clients, AcceptStart(c)
  PROVE  Now(f, u)'
<1> USE TurnRuntimeAssumption
<1> DEFINE t == cturn[c]
<1>1. /\ Books /\ f \in Clocks /\ u \in Clocks /\ Flow(f, u) /\ Store(f, u)
      /\ cpc[c] = "answered" /\ awaiting /\ observed \in {None, t} /\ ~awaiting'
      /\ active' = IF observed = None THEN t ELSE active
      /\ UNCHANGED <<ut, stream, conn, published, terminal, old, rpc, snap>>
  BY DEF Current, Now, AcceptStart, upVars
<1>2. t \in Turns /\ CallOK(c, f, u) /\ PendingOK /\ ActiveOK(f, u)
  BY <1>1 DEF Books, TypeOK, Store, CallsOK, None
<1>3. Fresh' = {}
  BY DEF AcceptStart, Supersede, Fresh
<1>4. \/ cpc'[c] = "waiting" /\ cturn'[c] = t
      \/ cpc'[c] = "idle"
  BY <1>1 DEF AcceptStart, Books, TypeOK
<1>5. \A d \in Clients \ {c} : cpc'[d] = cpc[d] /\ cturn'[d] = cturn[d]
  BY <1>1 DEF AcceptStart, Books, TypeOK
<1> HIDE DEF t
<1>6. Flow(f, u)' /\ Recorded(f)' /\ ReadsOK(f)'
  BY <1>1, <1>3, SameFlow, SameRecord DEF Store, ReadsOK
<1>7. ActiveOK(f, u)'
  <2>1. CASE observed = None
    <3>1. f < 2 * t /\ 2 * t <= f + 2 /\ 2 * t - 1 <= u /\ SnapsFrom(stream, 2 * t - 1)
      BY <1>1, <1>2, <2>1 DEF CallOK, t
    <3> QED
      BY <1>1, <1>3, <2>1, <3>1 DEF ActiveOK
  <2>2. CASE observed # None
    BY <1>1, <1>2, <1>3, <2>2 DEF ActiveOK
  <2> QED
    BY <2>1, <2>2
<1>8. PendingOK'
  BY <1>1, <1>2 DEF PendingOK
<1>9. ASSUME NEW d \in Clients
      PROVE  CallOK(d, f, u)'
  <2>1. CASE d = c /\ cpc'[c] = "idle"
    BY <2>1 DEF CallOK
  <2>2. CASE d = c /\ cpc'[c] = "waiting" /\ cturn'[c] = t
    <3>1. active' = t \/ t \in published
      BY <1>1, <1>2 DEF PendingOK
    <3> QED
      BY <1>1, <2>2, <3>1 DEF CallOK
  <2>3. CASE d # c
    <3>1. cpc[d] \notin {"started", "answered"}
      BY <1>1, <2>3, CallIsAwaited
    <3>2. CallOK(d, f, u) /\ cpc'[d] = cpc[d] /\ cturn'[d] = cturn[d]
      BY <1>1, <1>5, <2>3 DEF Store, CallsOK
    <3>3. cpc[d] = "waiting" => cturn[d] # None
      BY <1>1 DEF Books, TypeOK
    <3>4. cpc[d] = "waiting" => active' = cturn[d] \/ cturn[d] \in published
      BY <1>1, <1>2, <3>2, <3>3 DEF CallOK, PendingOK
    <3> QED
      BY <1>1, <3>1, <3>2, <3>4 DEF CallOK
  <2> QED
    BY <1>4, <2>1, <2>2, <2>3
<1> QED
  BY <1>6, <1>7, <1>8, <1>9 DEF Now, Store, CallsOK

\* A client that waits for its turn does so until the end is recorded.
LEMMA WaitNow ==
  ASSUME NEW f, NEW u, Current(f, u), NEW c \in Clients,
         TurnWait(c) \/ WaitSleep(c) \/ WaitReturn(c) \/ WaitTimeout(c)
  PROVE  Now(f, u)'
<1>1. /\ Books /\ f \in Clocks /\ u \in Clocks /\ Store(f, u) /\ u <= u
      /\ UNCHANGED <<ut, stream, conn, active, published, terminal, readVars, old,
                     awaiting, observed>>
  <2>1. Books /\ f \in Clocks /\ u \in Clocks /\ Store(f, u)
    BY DEF Current, Now
  <2>2. u <= u
    BY <2>1 DEF Clocks
  <2>3. UNCHANGED <<upVars, storeVars, readVars, history>>
    BY DEF TurnWait, WaitSleep, WaitReturn, WaitTimeout
  <2> QED
    BY <2>1, <2>2, <2>3 DEF upVars, storeVars, history
<1>2. PendingOK'
  BY <1>1 DEF Store, PendingOK
<1>3. \A d \in Clients \ {c} : cpc'[d] = cpc[d] /\ cturn'[d] = cturn[d]
  BY <1>1 DEF TurnWait, WaitSleep, WaitReturn, WaitTimeout, Books, TypeOK, clientVars
<1>4. \/ cpc'[c] = cpc[c] /\ cturn'[c] = cturn[c]
      \/ cpc'[c] \in {"waitingAny", "idle"}
  <2>1. CASE WaitReturn(c)
    <3>1. ASSUME cpc[c] = "waiting"
          PROVE  terminal[cturn[c]] # "none"
      <4>1. CallOK(c, f, u) /\ active # cturn[c] /\ cturn[c] \in Turns
        BY <1>1, <2>1, <3>1 DEF Store, CallsOK, WaitReturn, MustWait, Books, TypeOK
      <4>2. cturn[c] \in published
        BY <3>1, <4>1 DEF CallOK
      <4> QED
        BY <1>1, <4>1, <4>2 DEF Store, Recorded
    <3> QED
      BY <1>1, <2>1, <3>1 DEF WaitReturn, Books, TypeOK
  <2>2. CASE TurnWait(c) \/ WaitTimeout(c)
    BY <1>1, <2>2 DEF TurnWait, WaitTimeout, Books, TypeOK
  <2>3. CASE WaitSleep(c)
    BY <2>3 DEF WaitSleep, clientVars
  <2> QED
    BY <2>1, <2>2, <2>3
<1>5. ASSUME NEW d \in Clients
      PROVE  CallOK(d, f, u)'
  <2>1. CASE cpc'[d] = cpc[d] /\ cturn'[d] = cturn[d]
    BY <1>1, <2>1 DEF Store, CallsOK, CallOK
  <2>2. CASE cpc'[d] \in {"waitingAny", "idle"}
    BY <2>2 DEF CallOK
  <2> QED
    BY <1>3, <1>4, <2>1, <2>2
<1> QED
  BY <1>1, <1>2, <1>5, ClientFrame DEF CallsOK

LEMMA ClientNow ==
  ASSUME NEW f, NEW u, Current(f, u), NEW c \in Clients, Client(c), slips' = {}
  PROVE  Now(f, u)'
<1>1. CASE StartFails(c)
  <2>1. /\ cpc[c] \in {"calling", "started", "answered"} /\ ~awaiting'
        /\ cpc'[c] \in {"idle", "cancelling"}
        /\ \A d \in Clients \ {c} : cpc'[d] = cpc[d] /\ cturn'[d] = cturn[d]
    BY <1>1 DEF StartFails, Cancel, Current, Books, TypeOK
  <2>2. UNCHANGED <<ut, stream, conn, active, published, terminal, readVars, old>>
    BY <1>1 DEF StartFails, Cancel, upVars, history
  <2> QED
    BY <2>1, <2>2, ReleaseNow
<1>2. CASE RefuseStart(c)
  <2>1. /\ cpc[c] \in {"calling", "started", "answered"} /\ ~awaiting'
        /\ cpc'[c] \in {"idle", "cancelling"}
        /\ \A d \in Clients \ {c} : cpc'[d] = cpc[d] /\ cturn'[d] = cturn[d]
    BY <1>2 DEF RefuseStart, Current, Books, TypeOK
  <2>2. UNCHANGED <<ut, stream, conn, active, published, terminal, readVars, old>>
    BY <1>2 DEF RefuseStart, upVars, history
  <2> QED
    BY <2>1, <2>2, ReleaseNow
<1>3. CASE CancelRefused(c)
  <2>1. /\ ~awaiting /\ ~awaiting' /\ cpc'[c] \in {"idle", "cancelling"}
        /\ \A d \in Clients \ {c} : cpc'[d] = cpc[d] /\ cturn'[d] = cturn[d]
    BY <1>3 DEF CancelRefused, Cancel, Current, Books, TypeOK
  <2>2. UNCHANGED <<ut, stream, conn, active, published, terminal, readVars, old>>
    BY <1>3 DEF CancelRefused, Cancel, upVars
  <2> QED
    BY <2>1, <2>2, ReleaseNow
<1> QED
  BY <1>1, <1>2, <1>3, ReserveNow, AcceptNow, WaitNow DEF Client

-----------------------------------------------------------------------------
(* The steps of the readers.                                               *)

\* A read that nothing has superseded says what the books say already.
LEMMA ReconcileNow ==
  ASSUME NEW f, NEW u, Current(f, u), NEW r \in Readers, Reconcile(r), slips' = {}
  PROVE  Now(f, u)'
<1> USE TurnRuntimeAssumption
<1> DEFINE a == snap[r].active
           l == snap[r].last
<1>1. /\ Books /\ f \in Clocks /\ u \in Clocks /\ Flow(f, u) /\ Store(f, u) /\ f <= u
      /\ active' = a /\ observed' = IF awaiting /\ a # None THEN a ELSE observed
      /\ IF l = None THEN UNCHANGED <<terminal, published, reports>> ELSE Commit(l)
      /\ UNCHANGED <<ut, stream, conn, old, awaiting, cpc, cturn>>
  BY DEF Current, Now, Flow, InOrder, Reconcile, Applied, upVars, clientVars
<1>2. /\ r \in Fresh /\ Fresh' = Fresh \ {r}
      /\ \A q \in Fresh' : q \in Fresh /\ snap'[q] = snap[q]
  <2>1. rpc[r] = "answered" /\ r \notin stale
    BY DEF Reconcile, Applied
  <2>2. /\ rpc' = [rpc EXCEPT ![r] = "idle"] /\ snap' = [snap EXCEPT ![r] = NoSnapshot]
        /\ stale' = stale \ {r}
    BY DEF Reconcile, Applied
  <2> QED
    BY <1>1, <2>1, <2>2 DEF Fresh, Books, TypeOK
<1>3. /\ SnapClock(snap[r]) = f /\ Shape(snap[r])
      /\ a \in Turns \cup {None} /\ l \in Turns \cup {None}
  BY <1>1, <1>2 DEF Store, ReadsOK, Books, TypeOK
<1>4. /\ a # None => f = 2 * a - 1 /\ 2 * l <= f
      /\ a = None => f = 2 * l
  BY <1>3 DEF SnapClock, Shape, Turns, None
<1> HIDE DEF a, l
<1>5. published' = published /\ \A t \in Turns : terminal'[t] = terminal[t]
  <2>1. CASE l = None
    BY <1>1, <2>1
  <2>2. CASE l # None
    <3>1. l \in Turns /\ 2 * l <= f
      BY <1>1, <1>3, <1>4, <2>2 DEF Clocks, Turns
    <3>2. l \in published /\ terminal[l] = "done"
      BY <1>1, <3>1 DEF Store, Recorded
    <3>3. published' = published \cup {l} /\ terminal' = [terminal EXCEPT ![l] = "done"]
      BY <1>1, <2>2 DEF Commit
    <3> QED
      BY <1>1, <3>2, <3>3 DEF Books, TypeOK
  <2> QED
    BY <2>1, <2>2
<1>6. a # None => a \in Turns /\ a \notin published
  BY <1>1, <1>3, <1>4 DEF Store, Recorded, Turns
\* The books' active turn, if its end is not recorded, is the one that was read.
<1>7. ASSUME active # None
      PROVE  active = a
  <2>1. active \in Turns /\ f < 2 * active /\ 2 * active <= f + 2
    BY <1>7, ActiveIsNext
  <2>2. 2 * active - 1 <= f
    BY <1>1, <1>2, <1>3, <1>7 DEF Store, ActiveOK
  <2> QED
    BY <1>1, <1>3, <1>4, <2>1, <2>2 DEF Turns, None, Clocks
<1>8. Flow(f, u)' /\ Recorded(f)'
  BY <1>1, <1>5, SameFlow DEF Store, Recorded
<1>9. ReadsOK(f)'
  BY <1>1, <1>2, SameReads DEF Store
<1>10. ActiveOK(f, u)'
  <2>1. CASE a = None
    BY <1>1, <2>1 DEF ActiveOK
  <2>2. CASE a # None
    <3>1. f = 2 * a - 1 /\ a \in Turns
      BY <1>4, <1>6, <2>2
    <3>2. f < 2 * a /\ 2 * a <= f + 2 /\ 2 * a - 1 <= u
      BY <1>1, <3>1 DEF Turns, Clocks
    <3>3. SnapsFrom(stream, 2 * a - 1)
      BY <1>1, <3>1 DEF Flow, InOrder, Within, SnapsFrom
    <3>4. \A q \in Fresh' : 2 * a - 1 <= SnapClock(snap'[q])
      <4>1. \A q \in Fresh' : SnapClock(snap'[q]) = f
        BY <1>1, <1>2 DEF Store, ReadsOK
      <4> QED
        BY <1>1, <3>1, <4>1 DEF Clocks
    <3> QED
      BY <1>1, <3>2, <3>3, <3>4 DEF ActiveOK
  <2> QED
    BY <2>1, <2>2
<1>11. PendingOK'
  BY <1>1, <1>5, <1>6, <1>7 DEF Store, PendingOK
<1>12. ASSUME NEW c \in Clients
       PROVE  CallOK(c, f, u)'
  <2>1. CallOK(c, f, u) /\ cpc'[c] = cpc[c] /\ cturn'[c] = cturn[c]
        /\ (cpc[c] = "waiting" => cturn[c] # None)
    BY <1>1 DEF Store, CallsOK, Books, TypeOK
  <2>2. observed' = None => observed = None
    BY <1>1
  <2>3. cpc[c] = "waiting" => active' = cturn[c] \/ cturn[c] \in published'
    BY <1>1, <1>5, <1>7, <2>1 DEF CallOK
  <2> QED
    BY <1>1, <2>1, <2>2, <2>3 DEF CallOK
<1> QED
  BY <1>8, <1>9, <1>10, <1>11, <1>12 DEF Now, Store, CallsOK

LEMMA ReaderNow ==
  ASSUME NEW f, NEW u, Current(f, u), NEW r \in Readers, Reader(r), slips' = {}
  PROVE  Now(f, u)'
<1>1. CASE ReadAsk(r) \/ ReadFails(r) \/ Attach(r)
  <2>1. /\ Books /\ f \in Clocks /\ u \in Clocks /\ Flow(f, u) /\ Store(f, u) /\ u <= u
        /\ UNCHANGED <<ut, stream, conn, active, observed, awaiting, terminal, published,
                       old, cpc, cturn>>
    <3>1. UNCHANGED <<upVars, active, observed, awaiting, terminal, published, old,
                      clientVars>>
      <4>1. CASE ReadAsk(r) \/ ReadFails(r)
        <5>1. UNCHANGED <<upVars, storeVars, clientVars, history>>
          BY <4>1 DEF ReadAsk, ReadFails
        <5> QED
          BY <5>1 DEF storeVars, history
      <4>2. CASE Attach(r)
        BY <4>2 DEF Attach, Applied
      <4> QED
        BY <1>1, <4>1, <4>2
    <3>2. Books /\ f \in Clocks /\ u \in Clocks /\ Flow(f, u) /\ Store(f, u)
      BY DEF Current, Now
    <3>3. u <= u
      BY <3>2 DEF Clocks
    <3> QED
      BY <3>1, <3>2, <3>3 DEF upVars, clientVars
  <2>2. Fresh' \subseteq Fresh /\ \A q \in Fresh' : snap'[q] = snap[q]
    BY <1>1, <2>1 DEF ReadAsk, ReadFails, Attach, Applied, Fresh, Books, TypeOK
  <2>3. Flow(f, u)' /\ Recorded(f)' /\ ReadsOK(f)'
    BY <2>1, <2>2, SameFlow, SameRecord, SameReads DEF Store
  <2>4. ActiveOK(f, u)'
    BY <2>1, <2>2, SameActive DEF Store
  <2>5. PendingOK'
    BY <2>1 DEF Store, PendingOK
  <2>6. CallsOK(f, u)'
    BY <2>1, SameCall DEF Store, CallsOK
  <2> QED
    BY <2>3, <2>4, <2>5, <2>6 DEF Now, Store
<1> QED
  BY <1>1, ReconcileNow DEF Reader

-----------------------------------------------------------------------------
(* The chronicle is kept, and what follows from it.                        *)

\* After the detach nothing that the store does goes unnoted as late.
LEMMA GoneStep ==
  ASSUME Books, detached, Gone, Next, slips' = {}
  PROVE  Gone'
<1>1. ASSUME NEW i \in DOMAIN stream, Deliver(i)
      PROVE  FALSE
  BY <1>1 DEF Deliver, Supersede
<1>2. ASSUME NEW c \in Clients, Reserve(c) \/ AcceptStart(c) \/ TurnWait(c)
      PROVE  FALSE
  BY <1>2 DEF Reserve, AcceptStart, TurnWait, Gone
<1>3. ASSUME NEW r \in Readers, Reconcile(r) \/ Attach(r)
      PROVE  FALSE
  BY <1>3 DEF Reconcile, Attach, Applied
<1>4. ASSUME UNCHANGED <<attached, awaiting, active, terminal>>,
             \A c \in Clients : \/ cpc'[c] = cpc[c] /\ cturn'[c] = cturn[c]
                                \/ cpc'[c] \notin {"waiting", "misled"}
      PROVE  Gone'
  BY <1>4 DEF Gone
<1>5. CASE Upstream
  <2>1. UNCHANGED storeVars
    BY <1>5 DEF Upstream, ExternalStart, UpstreamFinish, UpstreamStart, UpstreamRead
  <2>2. ASSUME NEW c \in Clients, UpstreamStart(c)
        PROVE  Gone'
    BY <1>4, <2>1, <2>2 DEF UpstreamStart, Books, TypeOK, storeVars
  <2>3. CASE UNCHANGED clientVars
    BY <1>4, <2>1, <2>3 DEF storeVars, clientVars
  <2> QED
    BY <1>5, <2>2, <2>3 DEF Upstream, ExternalStart, UpstreamFinish, UpstreamRead
<1>6. CASE Fail \/ \E i \in DOMAIN stream : HandReply(i) \/ HandSnapshot(i)
  <2>1. UNCHANGED storeVars
    BY <1>6 DEF Fail, HandReply, HandSnapshot
  <2>2. ASSUME NEW i \in DOMAIN stream, HandReply(i)
        PROVE  Gone'
    BY <1>4, <2>1, <2>2 DEF HandReply, Books, TypeOK, storeVars
  <2>3. CASE UNCHANGED clientVars
    BY <1>4, <2>1, <2>3 DEF storeVars, clientVars
  <2> QED
    BY <1>6, <2>2, <2>3 DEF Fail, HandSnapshot
<1>7. ASSUME NEW c \in Clients,
             StartFails(c) \/ RefuseStart(c) \/ CancelRefused(c)
      PROVE  Gone'
  <2>1. UNCHANGED <<attached, active, terminal>> /\ ~awaiting'
    BY <1>7 DEF StartFails, RefuseStart, CancelRefused, Cancel
  <2>2. \A d \in Clients : \/ cpc'[d] = cpc[d] /\ cturn'[d] = cturn[d]
                           \/ cpc'[d] \notin {"waiting", "misled"}
    BY <1>7 DEF StartFails, RefuseStart, CancelRefused, Books, TypeOK
  <2> QED
    BY <2>1, <2>2 DEF Gone
<1>8. ASSUME NEW c \in Clients, WaitSleep(c) \/ WaitReturn(c) \/ WaitTimeout(c)
      PROVE  Gone'
  <2>1. UNCHANGED storeVars
    BY <1>8 DEF WaitSleep, WaitReturn, WaitTimeout
  <2>2. CASE WaitSleep(c)
    BY <1>4, <2>1, <2>2 DEF WaitSleep, storeVars, clientVars
  <2>3. CASE WaitReturn(c)
    <3>1. cpc[c] = "waiting" => terminal[cturn[c]] # "none"
      BY DEF Gone
    <3>2. cpc'[c] = "idle"
      BY <2>3, <3>1 DEF WaitReturn, Books, TypeOK
    <3> QED
      BY <1>4, <2>1, <2>3, <3>2 DEF WaitReturn, Books, TypeOK, storeVars
  <2>4. CASE WaitTimeout(c)
    BY <1>4, <2>1, <2>4 DEF WaitTimeout, Books, TypeOK, storeVars
  <2> QED
    BY <1>8, <2>2, <2>3, <2>4
<1>9. ASSUME NEW r \in Readers, ReadAsk(r) \/ ReadFails(r)
      PROVE  Gone'
  <2>1. UNCHANGED <<storeVars, clientVars>>
    BY <1>9 DEF ReadAsk, ReadFails
  <2> QED
    BY <1>4, <2>1 DEF storeVars, clientVars
<1>10. ~Detach
  BY DEF Detach
<1> QED
  BY <1>1, <1>2, <1>3, <1>5, <1>6, <1>7, <1>8, <1>9, <1>10
  DEF Next, Transport, Client, Reader

\* Only the failing connection detaches the session.
LEMMA OnlyDetach ==
  ASSUME Next, ~detached, ~Detach
  PROVE  ~detached'
<1>1. CASE Upstream
  BY <1>1 DEF Upstream, ExternalStart, UpstreamFinish, UpstreamStart, UpstreamRead
<1>2. CASE Transport
  <2>1. detached' = detached
    BY <1>2 DEF Transport, Fail, Deliver, HandReply, HandSnapshot
  <2> QED
    BY <2>1
<1>3. ASSUME NEW c \in Clients, Client(c)
      PROVE  ~detached'
  <2>1. UNCHANGED upVars
    BY <1>3 DEF Client, Reserve, StartFails, AcceptStart, RefuseStart, CancelRefused,
                TurnWait, WaitSleep, WaitReturn, WaitTimeout
  <2> QED
    BY <2>1 DEF upVars
<1>4. ASSUME NEW r \in Readers, Reader(r)
      PROVE  ~detached'
  <2>1. UNCHANGED upVars
    BY <1>4 DEF Reader, ReadAsk, ReadFails, Reconcile, Attach, Applied
  <2> QED
    BY <2>1 DEF upVars
<1> QED
  BY <1>1, <1>2, <1>3, <1>4 DEF Next

LEMMA ChronicleStep ==
  ASSUME Books, Exclusive, Chronicle, [Next]_vars
  PROVE  Chronicle'
<1> SUFFICES ASSUME Sound'
             PROVE  IF detached' THEN Gone' ELSE \E f, u \in Clocks : Now(f, u)'
  BY DEF Chronicle, Clocks
<1>1. Sound /\ slips' = {} /\ ordered
  BY HistoryGrows DEF Sound
<1>2. CASE UNCHANGED vars
  <2>1. UNCHANGED <<upVars, storeVars, clientVars, readVars, old>>
    BY <1>2 DEF vars, history
  <2>2. CASE detached
    BY <1>1, <2>1, <2>2 DEF Chronicle, Gone, upVars, storeVars, clientVars
  <2>3. CASE ~detached
    <3>1. PICK f \in Clocks, u \in Clocks : Now(f, u)
      BY <1>1, <2>3 DEF Chronicle
    <3>2. Flow(f, u)'
      BY <2>1, <3>1, SameFlow DEF Now, upVars
    <3>3. Store(f, u)'
      BY <2>1, <3>1 DEF Now, Store, Recorded, ReadsOK, Fresh, ActiveOK, PendingOK, CallsOK,
                        CallOK, upVars, storeVars, clientVars, readVars
    <3> QED
      BY <2>1, <2>3, <3>2, <3>3 DEF Now, upVars
  <2> QED
    BY <2>2, <2>3
<1>3. CASE Next /\ detached
  <2>1. detached'
    BY <1>3, HistoryGrows
  <2> QED
    BY <1>1, <1>3, <2>1, GoneStep DEF Chronicle
<1>4. CASE Next /\ ~detached
  <2>1. PICK f \in Clocks, u \in Clocks : Now(f, u)
    BY <1>1, <1>4 DEF Chronicle
  <2>2. Current(f, u)
    BY <1>1, <1>4, <2>1 DEF Current, Sound
  <2>3. CASE Detach
    BY <2>2, <2>3, DetachGone DEF Detach
  <2>4. CASE ~Detach
    <3>1. \E g, v \in Clocks : Now(g, v)'
      <4>1. CASE Upstream
        BY <2>1, <2>2, <4>1, UpstreamNow
      <4>2. ASSUME NEW i \in DOMAIN stream, Deliver(i)
            PROVE  \E g, v \in Clocks : Now(g, v)'
        <5>1. stream[i].type \in {"started", "completed"}
          BY <4>2 DEF Deliver
        <5> QED
          BY <2>1, <2>2, <4>2, <5>1, DeliverStarted, DeliverCompleted
      <4>3. CASE Transport
        BY <2>1, <2>2, <2>4, <4>2, <4>3, HandReplyNow, HandSnapshotNow, FailNow
        DEF Transport
      <4>4. ASSUME NEW c \in Clients, Client(c)
            PROVE  \E g, v \in Clocks : Now(g, v)'
        BY <1>1, <2>1, <2>2, <4>4, ClientNow
      <4>5. ASSUME NEW r \in Readers, Reader(r)
            PROVE  \E g, v \in Clocks : Now(g, v)'
        BY <1>1, <2>1, <2>2, <4>5, ReaderNow
      <4> QED
        BY <1>4, <4>1, <4>3, <4>4, <4>5 DEF Next
    <3>2. ~detached'
      BY <1>4, <2>4, OnlyDetach
    <3> QED
      BY <3>1, <3>2
  <2> QED
    BY <2>3, <2>4
<1> QED
  BY <1>2, <1>3, <1>4

LEMMA ChronicleInit ==
  ASSUME Init
  PROVE  Chronicle
<1> USE TurnRuntimeAssumption
<1>1. 0 \in Clocks
  BY DEF Clocks
<1>2. UpstreamAt(0)
  BY DEF Init, UpstreamAt, Turns
<1>3. InOrder(stream, 0, 0)
  BY DEF Init, InOrder, Sorted, Within, Gapless
<1>4. Sent(0, 0)
  BY DEF Sent, Told, Turns
<1>5. Recorded(0)
  BY DEF Init, Recorded, Turns
<1>6. ReadsOK(0)
  BY DEF Init, ReadsOK, Fresh
<1>7. ActiveOK(0, 0) /\ PendingOK
  BY DEF Init, ActiveOK, PendingOK
<1>8. CallsOK(0, 0)
  BY DEF Init, CallsOK, CallOK
<1>9. Now(0, 0)
  BY <1>2, <1>3, <1>4, <1>5, <1>6, <1>7, <1>8 DEF Now, Flow, Store
<1> QED
  BY <1>1, <1>9 DEF Chronicle, Init

LEMMA ChronicleInvariant == Spec => []Chronicle
<1>1. Init => Chronicle
  BY ChronicleInit
<1>2. Books /\ Exclusive /\ Chronicle /\ [Next]_vars => Chronicle'
  BY ChronicleStep
<1> QED
  BY <1>1, <1>2, BooksInvariant, ExclusiveInvariant, PTL DEF Spec

\* A turn that had ended before a start was reserved is never taken for the turn of that
\* start, by a notification, a read or a response, as long as the stream keeps its order
\* and there was no slip (Sound).  (runtime.py:289 and 424)
THEOREM IdentityIsFresh == Spec => []PendingIdentityFresh
<1>1. Books /\ Chronicle => PendingIdentityFresh
  <2> SUFFICES ASSUME Books, Chronicle, Sound, awaiting
               PROVE  observed \notin old
    BY DEF PendingIdentityFresh
  <2>1. ~detached
    BY DEF Chronicle, Gone
  <2>2. PICK f \in Clocks, u \in Clocks : Now(f, u)
    BY <2>1 DEF Chronicle
  <2>3. PendingOK
    BY <2>2 DEF Now, Store
  <2>4. None \notin old
    BY DEF Books, TypeOK, None, Turns
  <2> QED
    BY <2>3, <2>4 DEF PendingOK
<1> QED
  BY <1>1, BooksInvariant, ChronicleInvariant, PTL

\* A client that waits for the turn it started is never told that there is none: wait
\* finds its turn active or its end recorded, also after the connection was lost, as
\* long as there was no slip (Sound).
THEOREM WaitersFindTheirTurn == Spec => []WaiterNotMisled
<1>1. Chronicle => WaiterNotMisled
  <2> SUFFICES ASSUME Chronicle, Sound, NEW c \in Clients
               PROVE  cpc[c] # "misled"
    BY DEF WaiterNotMisled
  <2>1. CASE detached
    BY <2>1 DEF Chronicle, Gone
  <2>2. CASE ~detached
    <3>1. PICK f \in Clocks, u \in Clocks : Now(f, u)
      BY <2>2 DEF Chronicle
    <3> QED
      BY <3>1 DEF Now, Store, CallsOK, CallOK
  <2> QED
    BY <2>1, <2>2
<1> QED
  BY <1>1, ChronicleInvariant, PTL

\* The end of a turn, once known, is not rewritten: no read takes it back and the loss of
\* the connection does not make a completed turn a lost one, as long as there was no
\* slip (Sound).
THEOREM TerminalsAreStable == Spec => TerminalStable
<1>1. ASSUME Books, Exclusive, Chronicle, [Next]_vars, Sound'
      PROVE  \A t \in Turns : terminal[t] # "none" => terminal'[t] = terminal[t]
  <2>1. Sound /\ slips' = {} /\ ordered
    BY <1>1, HistoryGrows DEF Sound
  <2>2. CASE UNCHANGED terminal
    BY <2>2
  <2>3. CASE ~detached
    <3>1. PICK f \in Clocks, u \in Clocks : Now(f, u)
      BY <1>1, <2>1, <2>3 DEF Chronicle
    <3>2. Current(f, u) /\ Recorded(f)
      BY <1>1, <2>1, <2>3, <3>1 DEF Current, Sound, Now, Store
    <3>3. CASE Detach
      <4>1. active # None => active \in Turns /\ terminal[active] = "none"
        BY <3>2, ActiveIsNext DEF Recorded
      <4> QED
        BY <1>1, <3>3, <4>1 DEF Detach, Books, TypeOK
    <3>4. CASE ~Detach
      <4>1. Next => Chronicle' /\ ~detached'
        BY <1>1, <2>3, <3>4, ChronicleStep, OnlyDetach
      <4>2. CASE UNCHANGED vars
        BY <4>2 DEF vars, storeVars
      <4>3. CASE Next
        <5>1. PICK g \in Clocks, v \in Clocks : Now(g, v)'
          BY <1>1, <4>1, <4>3 DEF Chronicle, Clocks
        <5>2. Recorded(g)'
          BY <5>1 DEF Now, Store
        <5>3. published \subseteq published'
          <6>1. PublishStep
            BY <3>4, <4>3, StepPublishes
          <6> QED
            BY <6>1 DEF PublishStep, Commit
        <5> QED
          BY <3>2, <5>2, <5>3 DEF Recorded
      <4> QED
        BY <1>1, <4>2, <4>3
    <3> QED
      BY <3>3, <3>4
  <2>4. CASE detached /\ Next
    <3>1. CASE Upstream
      <4>1. UNCHANGED storeVars
        BY <3>1 DEF Upstream, ExternalStart, UpstreamFinish, UpstreamStart, UpstreamRead
      <4> QED
        BY <4>1 DEF storeVars
    <3>2. CASE Transport
      BY <2>1, <2>4, <3>2
      DEF Transport, Fail, Detach, Deliver, Supersede, HandReply, HandSnapshot, storeVars
    <3>3. ASSUME NEW c \in Clients, Client(c)
          PROVE  terminal' = terminal
      BY <3>3 DEF Client, Reserve, StartFails, Cancel, AcceptStart, RefuseStart,
                  CancelRefused, TurnWait, WaitSleep, WaitReturn, WaitTimeout, storeVars
    <3>4. ASSUME NEW r \in Readers, Reader(r)
          PROVE  terminal' = terminal
      BY <2>1, <2>4, <3>4
      DEF Reader, ReadAsk, ReadFails, Reconcile, Attach, Applied, storeVars
    <3> QED
      BY <2>4, <3>1, <3>2, <3>3, <3>4 DEF Next
  <2>5. CASE UNCHANGED vars
    BY <2>5 DEF vars, storeVars
  <2> QED
    BY <1>1, <2>3, <2>4, <2>5
<1>2. Books /\ Exclusive /\ Chronicle /\ [Next]_vars
        => [Sound' => \A t \in Turns : terminal[t] # "none" => terminal'[t] = terminal[t]]_vars
  BY <1>1
<1> QED
  BY <1>2, BooksInvariant, ExclusiveInvariant, ChronicleInvariant, PTL
  DEF Spec, TerminalStable

-----------------------------------------------------------------------------
(* The observers are told once.                                            *)

\* Before the detach they were told of the published ends, once; a turn that is active
\* is none of these, so the detach tells of no turn twice.  After it nothing is told,
\* unless too late.
ToldOnce ==
  /\ reports \in [Turns -> Nat]
  /\ ~detached => PublishedIsCounted
  /\ ReportedOnce

LEMMA ToldOnceStep ==
  ASSUME Books, Exclusive, Chronicle, ToldOnce, [Next]_vars, Books'
  PROVE  ToldOnce'
<1>1. Sound' => Sound
  BY HistoryGrows DEF Sound
<1>2. reports' \in [Turns -> Nat]
  BY DEF Books, TypeOK
<1>3. CASE ~detached /\ ~Detach
  <2>1. PublishedIsCounted'
    BY <1>3, StepPublishes, PublishStepCounts DEF ToldOnce
  <2> QED
    BY <1>2, <2>1 DEF ToldOnce, PublishedIsCounted, ReportedOnce
<1>4. CASE ~detached /\ Detach
  <2>1. detached' /\ reports' = ReportLost /\ PublishedIsCounted
    BY <1>4 DEF Detach, ToldOnce
  <2>2. ASSUME Sound', NEW t \in Turns
        PROVE  reports'[t] <= 1
    <3>1. PICK f \in Clocks, u \in Clocks : Now(f, u)
      BY <1>1, <1>4, <2>2 DEF Chronicle
    <3>2. Current(f, u)
      BY <1>1, <1>4, <2>2, <3>1 DEF Current, Sound
    <3>3. active # None => active \in Turns /\ active \notin published
      BY <3>2, ActiveIsNext
    <3>4. reports'[t] = IF t = active THEN reports[t] + 1 ELSE reports[t]
      BY <2>1, <3>3 DEF ReportLost, PublishedIsCounted, None, Turns
    <3> QED
      BY <2>1, <3>3, <3>4 DEF PublishedIsCounted, None, Turns
  <2> QED
    BY <1>2, <2>1, <2>2 DEF ToldOnce, ReportedOnce
<1>5. CASE detached
  <2>1. detached'
    BY <1>5, HistoryGrows
  <2>2. ASSUME Sound'
        PROVE  reports' = reports
    <3>1. Sound /\ slips' = {} /\ ~Detach
      BY <1>1, <1>5, <2>2 DEF Sound, Detach
    <3>2. CASE UNCHANGED vars
      BY <3>2 DEF vars, storeVars
    <3>3. CASE Upstream
      <4>1. UNCHANGED storeVars
        BY <3>3 DEF Upstream, ExternalStart, UpstreamFinish, UpstreamStart, UpstreamRead
      <4> QED
        BY <4>1 DEF storeVars
    <3>4. CASE Transport
      BY <1>5, <3>1, <3>4
      DEF Transport, Fail, Deliver, Supersede, HandReply, HandSnapshot, storeVars
    <3>5. ASSUME NEW c \in Clients, Client(c)
          PROVE  reports' = reports
      BY <3>5 DEF Client, Reserve, StartFails, Cancel, AcceptStart, RefuseStart,
                  CancelRefused, TurnWait, WaitSleep, WaitReturn, WaitTimeout, storeVars
    <3>6. ASSUME NEW r \in Readers, Reader(r)
          PROVE  reports' = reports
      BY <1>5, <3>1, <3>6
      DEF Reader, ReadAsk, ReadFails, Reconcile, Attach, Applied, storeVars
    <3> QED
      BY <3>2, <3>3, <3>4, <3>5, <3>6 DEF Next
  <2> QED
    BY <1>1, <1>2, <2>1, <2>2 DEF ToldOnce, ReportedOnce
<1> QED
  BY <1>3, <1>4, <1>5

\* Observers are told of a turn's end at most once, whether it is its notification, a
\* read of it or the detach that tells, as long as the stream keeps its order and there
\* was no slip (Sound): the detach never tells of a turn whose end they know already.
THEOREM EndsAreReportedOnce == Spec => []ReportedOnce
<1>1. Init => ToldOnce
  BY DEF Init, ToldOnce, PublishedIsCounted, ReportedOnce
<1>2. Books /\ Exclusive /\ Chronicle /\ ToldOnce /\ [Next]_vars /\ Books' => ToldOnce'
  BY ToldOnceStep
<1>3. ToldOnce => ReportedOnce
  BY DEF ToldOnce
<1> QED
  BY <1>1, <1>2, <1>3, BooksInvariant, ExclusiveInvariant, ChronicleInvariant, PTL DEF Spec
=============================================================================
