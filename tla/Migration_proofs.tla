---------------------------- MODULE Migration_proofs ----------------------------
(***************************************************************************)
(* Proofs about Migration, for any clients, names, old instances, and any  *)
(* number of crashes, failed writes and changes of old instances: types,   *)
(* promises that are kept, workers that are not lost, scans that are begun *)
(* again, resolutions that can be ended.                                   *)
(***************************************************************************)
EXTENDS Migration, TLAPS

-----------------------------------------------------------------------------
(* Records and sets of records.                                            *)

Good(S) == Unique(S) /\ \A r \in S : IsRecord(r)

\* A record whose body was noted, or which got another name, is a record.
LEMMA NotedRecord ==
  ASSUME NEW r, IsRecord(r)
  PROVE  LET s == [r EXCEPT !.body = "noted"] IN
         /\ IsRecord(s)
         /\ s.name = r.name /\ s.session = r.session /\ s.thread = r.thread
<1>1. r = [name |-> r.name, session |-> r.session, thread |-> r.thread, body |-> r.body]
  BY DEF IsRecord
<1>2. [r EXCEPT !.body = "noted"] =
        [name |-> r.name, session |-> r.session, thread |-> r.thread, body |-> "noted"]
  BY <1>1
<1> QED
  BY <1>2 DEF IsRecord

LEMMA RenamedRecord ==
  ASSUME NEW r, IsRecord(r), NEW n \in Named
  PROVE  LET s == [r EXCEPT !.name = n] IN
         /\ IsRecord(s)
         /\ s.name = n /\ s.session = r.session /\ s.thread = r.thread
<1>1. r = [name |-> r.name, session |-> r.session, thread |-> r.thread, body |-> r.body]
  BY DEF IsRecord
<1>2. [r EXCEPT !.name = n] =
        [name |-> n, session |-> r.session, thread |-> r.thread, body |-> r.body]
  BY <1>1
<1> QED
  BY <1>2 DEF IsRecord

\* A good set stays good without some of its records, and with one more that
\* clashes with none of them.
LEMMA GoodSubset ==
  ASSUME NEW S, Good(S), NEW T, T \subseteq S
  PROVE  Good(T)
  BY DEF Good, Unique, Clashes

LEMMA GoodUnion ==
  ASSUME NEW S, Good(S), NEW r, IsRecord(r), ~Clashes(r, S)
  PROVE  Good(S \cup {r})
  BY DEF Good, Unique, Clashes, SameIds

\* The records a scan takes clash with none.
LEMMA GoodPlan ==
  ASSUME NEW E, \A e \in E : IsEntry(e), NEW R, Good(R), NEW B, NEW X
  PROVE  Good(Plan(E, R, B, X).records)
<1> DEFINE Q == Quarantine(E, R, B, X)
           names == {e.rec.name : e \in {f \in E : f.rec.session \in Q}}
           taken == {e \in E : e.rec.session \notin Q /\ e.rec.name \notin names}
           A == R \cup {e.rec : e \in taken}
<1>1. Plan(E, R, B, X).records = A
  BY DEF Plan
<1>2. \A e \in taken : ~Clashes(e.rec, {g.rec : g \in E} \cup R)
  BY DEF Quarantine
<1>3. \A r \in A : IsRecord(r)
  BY DEF Good, IsEntry
<1>4. A \subseteq {g.rec : g \in E} \cup R
  OBVIOUS
<1>5. ASSUME NEW r \in A, NEW s \in A, SameIds(r, s), r # s
      PROVE  FALSE
  <2>1. CASE \E e \in taken : r = e.rec
    BY <2>1, <1>2, <1>4, <1>5 DEF Clashes
  <2>2. CASE \E e \in taken : s = e.rec
    <3>1. SameIds(s, r)
      BY <1>5 DEF SameIds
    <3> QED
      BY <2>2, <3>1, <1>2, <1>4, <1>5 DEF Clashes
  <2>3. CASE r \in R /\ s \in R
    BY <2>3, <1>5 DEF Good, Unique, Clashes
  <2> QED
    BY <2>1, <2>2, <2>3
<1> HIDE DEF A
<1> QED
  BY <1>1, <1>3, <1>5 DEF Good, Unique, Clashes

-----------------------------------------------------------------------------
(* Types, as an inductive invariant: the ledger, the plans and the         *)
(* requests are needed for the registry.                                   *)

GoodLedger(l) == l # None =>
  /\ l.resolutions \subseteq Resolutions
  /\ \A f \in l.conflicts :
       /\ f = [name |-> f.name, cands |-> f.cands]
       /\ \A k \in f.cands : IsRecord(k.rec)

IsPlan(p) == Good(p.records) /\ GoodLedger(p.ledger)

IsJob(j) ==
  /\ j = [q |-> j.q, plan |-> j.plan, undo |-> j.undo, stage |-> j.stage, rolling |-> j.rolling]
  /\ IsPlan(j.plan) /\ (j.undo # None => IsPlan(j.undo))
  /\ j.stage \in Stages /\ j.q \in Resolutions \cup {Nil}
  /\ j.stage \in {"intent", "clear"} => j.q \in Resolutions

OldOK == \A e \in old : IsEntry(e)
FilesOK == Good(registry) /\ GoodLedger(ledger) /\ intent \in Resolutions \cup {Nil}
MemOK == Good(mem)
JobOK == ~Idle => IsJob(job)

\* What a client wants: a name at first, a record once it has entered.
Draft == [name : Named, session : Ids \cup {Nil}, thread : Ids \cup {Nil}, body : {"new", "raw"}]
RequestsOK ==
  /\ pc \in [Clients -> {"idle", "looked", "entered", "created"}]
  /\ want \in [Clients -> Draft \cup {Nil}]
  /\ \A c \in Clients :
       /\ pc[c] = "looked" => want[c] \in Draft
       /\ pc[c] = "entered" => IsRecord(want[c])

TypeInv == OldOK /\ FilesOK /\ MemOK /\ JobOK /\ RequestsOK

LEMMA TypeInvImpliesTypeOK ==
  TypeInv => TypeOK
BY DEF TypeInv, OldOK, FilesOK, MemOK, JobOK, RequestsOK, TypeOK, Good, IsJob, IsPlan, GoodLedger

LEMMA InitTypes ==
  Init => TypeInv
<1> SUFFICES ASSUME Init
             PROVE  TypeInv
  OBVIOUS
<1>1. OldOK /\ Good(registry)
  BY WorldsAssumption DEF Init, OldOK, Good
<1>2. FilesOK
  BY <1>1 DEF Init, FilesOK, GoodLedger
<1>3. MemOK
  BY DEF Init, MemOK, Good, Unique
<1>4. JobOK
  BY DEF Init, JobOK, Idle
<1>5. RequestsOK
  <2>1. \A c \in Clients : pc[c] = "idle"
    BY DEF Init
  <2> QED
    BY <2>1 DEF Init, RequestsOK
<1> QED
  BY <1>1, <1>2, <1>3, <1>4, <1>5 DEF TypeInv

\* Steps that leave files and memory alone.
UnchangedData == UNCHANGED <<old, files, mem>>

LEMMA DataKept ==
  ASSUME TypeInv, UnchangedData
  PROVE  OldOK' /\ FilesOK' /\ MemOK'
BY DEF TypeInv, UnchangedData, OldOK, FilesOK, MemOK, files

\* The name a resolution gives is a name.
LEMMA TargetNamed ==
  ASSUME NEW q \in Resolutions
  PROVE  Target(q) \in Named
BY DEF Target, Resolutions, Named

\* A chosen candidate is a record, of the thread that was asked for.
LEMMA ChosenRecord ==
  ASSUME TypeInv, NEW q, ledger # None, NEW k \in Chosen(q)
  PROVE  IsRecord(k.rec) /\ k.rec.thread = q.thread
BY DEF TypeInv, FilesOK, GoodLedger, Chosen

\* What a possible resolution writes.
LEMMA ResolutionPlan ==
  ASSUME TypeInv, NEW q \in Resolutions, ledger # None, NEW k \in Chosen(q), Possible(q, k)
  PROVE  IsPlan(Resolution(q, k))
<1> DEFINE r == [k.rec EXCEPT !.name = Target(q)]
           A == registry \cup {r}
           l == [conflicts |-> Remaining(q, k), resolutions |-> ledger.resolutions \cup {q}]
<1>1. Resolution(q, k).records = A /\ Resolution(q, k).ledger = l
  BY DEF Resolution
<1>2. IsRecord(r)
  BY ChosenRecord, TargetNamed, RenamedRecord
<1>3. ~Clashes(r, registry)
  BY DEF Possible
<1>4. Good(A)
  <2> HIDE DEF r
  <2> QED
    BY <1>2, <1>3, GoodUnion DEF TypeInv, FilesOK
<1>5. \A f \in Remaining(q, k) :
        /\ f = [name |-> f.name, cands |-> f.cands]
        /\ \A c \in f.cands : IsRecord(c.rec)
  <2>1. \A f \in ledger.conflicts :
          /\ f = [name |-> f.name, cands |-> f.cands]
          /\ \A c \in f.cands : IsRecord(c.rec)
    BY DEF TypeInv, FilesOK, GoodLedger
  <2>2. ASSUME NEW f \in ledger.conflicts
        PROVE  [f EXCEPT !.cands = @ \ {k}] = [name |-> f.name, cands |-> f.cands \ {k}]
    <3>1. f = [name |-> f.name, cands |-> f.cands]
      BY <2>1
    <3> QED
      BY <3>1
  <2>3. ASSUME NEW f \in Remaining(q, k), f \notin ledger.conflicts
        PROVE  \E g \in ledger.conflicts : f = [name |-> g.name, cands |-> g.cands \ {k}]
    <3>1. \E g \in ledger.conflicts : f = [g EXCEPT !.cands = @ \ {k}]
      BY <2>3, Zenon DEF Remaining
    <3> QED
      BY <3>1, <2>2
  <2> QED
    BY <2>1, <2>3
<1>6. GoodLedger(l)
  <2> HIDE DEF l
  <2>1. l.conflicts = Remaining(q, k) /\ l.resolutions = ledger.resolutions \cup {q}
    BY DEF l
  <2> QED
    BY <1>5, <2>1 DEF GoodLedger, TypeInv, FilesOK
<1> HIDE DEF A, l
<1> QED
  BY <1>1, <1>4, <1>6 DEF IsPlan

LEMMA UndoPlan ==
  ASSUME TypeInv
  PROVE  IsPlan(Undo)
BY DEF TypeInv, FilesOK, IsPlan, Undo

\* What a scan writes.
LEMMA ScanPlan ==
  ASSUME TypeInv
  PROVE  IsPlan(Plan(old, registry, binds, box))
<1> DEFINE p == Plan(old, registry, binds, box)
<1>1. Good(p.records)
  BY GoodPlan DEF TypeInv, OldOK, FilesOK
<1>2. GoodLedger(p.ledger)
  <2>1. \A f \in p.ledger.conflicts : \E n :
          f = [name |-> n, cands |-> {Candidate(e, old) : e \in {g \in old : g.rec.name = n}}]
    BY DEF Plan
  <2>2. \A e \in old : IsRecord(Candidate(e, old).rec)
    BY DEF TypeInv, OldOK, IsEntry, Candidate
  <2>3. p.ledger.resolutions = {}
    BY DEF Plan
  <2>4. ASSUME NEW f \in p.ledger.conflicts
        PROVE  /\ f = [name |-> f.name, cands |-> f.cands]
               /\ \A k \in f.cands : IsRecord(k.rec)
    <3>1. PICK n : f = [name |-> n, cands |-> {Candidate(e, old) : e \in {g \in old : g.rec.name = n}}]
      BY <2>1
    <3>2. f.cands = {Candidate(e, old) : e \in {g \in old : g.rec.name = n}}
      BY <3>1
    <3>3. \A k \in f.cands : \E e \in old : k = Candidate(e, old)
      BY <3>2
    <3> QED
      BY <3>1, <3>3, <2>2
  <2> HIDE DEF p
  <2> QED
    BY <2>3, <2>4 DEF GoodLedger
<1> QED
  BY <1>1, <1>2 DEF IsPlan

-----------------------------------------------------------------------------
(* Commits.                                                                *)

\* A commit that begins.
LEMMA NewJob ==
  ASSUME NEW q \in Resolutions \cup {Nil}, NEW plan, IsPlan(plan),
         NEW undo, undo # None => IsPlan(undo), NEW stage \in Stages,
         stage \in {"intent", "clear"} => q \in Resolutions,
         Commits(q, plan, undo, stage)
  PROVE  JobOK'
<1>1. IsJob(job)'
  BY DEF Commits, IsJob, IsPlan, GoodLedger, Good
<1> QED
  BY <1>1 DEF JobOK

\* Each file a stage writes is as it was, or as the plan has it.
LEMMA PublishedFiles ==
  ASSUME TypeInv, ~Idle, Publishes(job.stage)
  PROVE  FilesOK'
<1>1. IsJob(job)
  BY DEF TypeInv, JobOK
<1>2. registry' = registry \/ registry' = job.plan.records
  BY DEF Publishes, PublishesRegistry
<1>3. Good(registry)'
  BY <1>1, <1>2 DEF TypeInv, FilesOK, IsJob, IsPlan, Good, Unique, Clashes, SameIds
<1>4. ledger' = ledger \/ ledger' = job.plan.ledger
  BY DEF Publishes, PublishesLedger
<1>5. GoodLedger(ledger)'
  BY <1>1, <1>4 DEF TypeInv, FilesOK, IsJob, IsPlan, GoodLedger
<1>6. intent' \in Resolutions \cup {Nil}
  BY <1>1 DEF Publishes, PublishesIntent, IsJob, TypeInv, FilesOK
<1> QED
  BY <1>3, <1>5, <1>6 DEF FilesOK

LEMMA CommitTypes ==
  ASSUME TypeInv, Commit
  PROVE  TypeInv'
<1>1. IsJob(job)
  BY DEF TypeInv, JobOK, Commit
<1>2. FilesOK'
  BY PublishedFiles DEF Commit
<1>3. OldOK' /\ RequestsOK'
  BY DEF TypeInv, OldOK, RequestsOK, Commit, requests
<1>4. MemOK'
  <2>1. mem' = mem \/ mem' = registry'
    BY DEF Commit, Reads
  <2> QED
    BY <1>2, <2>1 DEF MemOK, TypeInv, FilesOK, Good, Unique, Clashes, SameIds
<1>5. JobOK'
  <2>1. CASE job' = None
    BY <2>1 DEF JobOK, Idle
  <2>2. CASE ~Last(job.stage) /\ job' = [job EXCEPT !.stage = NextStage(@)]
    <3>1. job = [q |-> job.q, plan |-> job.plan, undo |-> job.undo,
                 stage |-> job.stage, rolling |-> job.rolling]
      BY <1>1 DEF IsJob
    <3>2. job' = [q |-> job.q, plan |-> job.plan, undo |-> job.undo,
                  stage |-> NextStage(job.stage), rolling |-> job.rolling]
      BY <2>2, <3>1
    <3>3. /\ NextStage(job.stage) \in Stages
          /\ NextStage(job.stage) \in {"intent", "clear"} => job.q \in Resolutions
      BY <1>1, <2>2, MigrationAssumption DEF IsJob, Stages, NextStage, Last, Resolutions
    <3>4. /\ job'.q = job.q /\ job'.plan = job.plan /\ job'.undo = job.undo
          /\ job'.stage = NextStage(job.stage) /\ job'.rolling = job.rolling
      BY <3>2
    <3>5. IsJob(job')
      BY <1>1, <3>2, <3>3, <3>4 DEF IsJob
    <3> QED
      BY <3>5 DEF JobOK, IsJob, IsPlan, GoodLedger, Good, Unique, Clashes, SameIds
  <2> QED
    BY <2>1, <2>2 DEF Commit, Reads
<1> QED
  BY <1>2, <1>3, <1>4, <1>5 DEF TypeInv

LEMMA CommitFailsTypes ==
  ASSUME TypeInv, NEW effect \in BOOLEAN, CommitFails(effect)
  PROVE  TypeInv'
<1>1. IsJob(job)
  BY DEF TypeInv, JobOK, CommitFails
<1>2. FilesOK'
  <2>1. CASE effect
    BY <2>1, PublishedFiles DEF CommitFails
  <2>2. CASE ~effect
    BY <2>2 DEF CommitFails, files, TypeInv, FilesOK, GoodLedger, Good, Unique, Clashes, SameIds
  <2> QED
    BY <2>1, <2>2
<1>3. OldOK' /\ RequestsOK' /\ MemOK'
  BY DEF TypeInv, OldOK, RequestsOK, MemOK, CommitFails, requests, Good, Unique, Clashes, SameIds
<1>4. JobOK'
  <2>1. CASE job' = None
    BY <2>1 DEF JobOK, Idle
  <2>2. CASE Undone /\ job' = [job EXCEPT !.plan = job.undo, !.undo = None,
                                          !.stage = "artifacts", !.rolling = TRUE]
    <3>1. job = [q |-> job.q, plan |-> job.plan, undo |-> job.undo,
                 stage |-> job.stage, rolling |-> job.rolling]
      BY <1>1 DEF IsJob
    <3>2. job' = [q |-> job.q, plan |-> job.undo, undo |-> None,
                  stage |-> "artifacts", rolling |-> TRUE]
      BY <2>2, <3>1
    <3>3. IsJob(job')
      BY <1>1, <2>2, <3>2 DEF IsJob, Undone, Stages
    <3> QED
      BY <3>3 DEF JobOK, IsJob, IsPlan, GoodLedger, Good, Unique, Clashes, SameIds
  <2> QED
    BY <2>1, <2>2 DEF CommitFails
<1> QED
  BY <1>2, <1>3, <1>4 DEF TypeInv

-----------------------------------------------------------------------------
(* The daemon starts, resolves, and ends.                                  *)

LEMMA StartTypes ==
  ASSUME TypeInv, Start
  PROVE  TypeInv'
<1>1. OldOK' /\ FilesOK' /\ MemOK'
  BY DataKept DEF Start, UnchangedData
<1>2. RequestsOK'
  BY DEF Start, TypeInv, RequestsOK, requests
<1>3. CASE Pending
  <2>1. intent \in Resolutions
    BY <1>3 DEF Pending, TypeInv, FilesOK
  <2>2. CASE Undecided(intent)
    <3>1. PICK k \in Chosen(intent) :
            Possible(intent, k) /\ Commits(intent, Resolution(intent, k), None, "intent")
      BY <1>3, <2>2 DEF Start
    <3>2. IsPlan(Resolution(intent, k))
      BY <2>1, <2>2, <3>1, ResolutionPlan DEF Undecided, InConflict
    <3>3. JobOK'
      BY <2>1, <3>1, <3>2, NewJob DEF Stages
    <3> QED
      BY <1>1, <1>2, <3>3 DEF TypeInv
  <2>3. CASE ~Undecided(intent)
    <3>1. Commits(intent, Undo, None, "clear")
      BY <1>3, <2>3 DEF Start
    <3>2. JobOK'
      BY <2>1, <3>1, UndoPlan, NewJob DEF Stages
    <3> QED
      BY <1>1, <1>2, <3>2 DEF TypeInv
  <2> QED
    BY <2>2, <2>3
<1>4. CASE ~Pending
  <2>1. Commits(Nil, Plan(old, registry, binds, box), None, "artifacts")
    BY <1>4 DEF Start
  <2>2. JobOK'
    BY <2>1, ScanPlan, NewJob DEF Stages
  <2> QED
    BY <1>1, <1>2, <2>2 DEF TypeInv
<1> QED
  BY <1>3, <1>4

LEMMA ResolveTypes ==
  ASSUME TypeInv, NEW q \in Resolutions, Resolve(q)
  PROVE  TypeInv'
<1>1. OldOK' /\ FilesOK'
  BY DEF Resolve, TypeInv, OldOK, FilesOK, files, GoodLedger, Good, Unique, Clashes, SameIds
<1>2. RequestsOK'
  BY DEF Resolve, TypeInv, RequestsOK, requests
<1>3. MemOK'
  BY DEF Resolve, TypeInv, MemOK, FilesOK, Good, Unique, Clashes, SameIds
<1>4. JobOK'
  <2>1. CASE Undecided(q)
    <3>1. PICK k \in Chosen(q) :
            Possible(q, k) /\ Commits(q, Resolution(q, k), IF Pending THEN None ELSE Undo, "intent")
      BY <2>1 DEF Resolve
    <3>2. IsPlan(Resolution(q, k))
      BY <2>1, <3>1, ResolutionPlan DEF Undecided, InConflict
    <3> DEFINE undo == IF Pending THEN None ELSE Undo
    <3>3. undo # None => IsPlan(undo)
      BY UndoPlan
    <3> HIDE DEF undo
    <3> QED
      BY <3>1, <3>2, <3>3, NewJob DEF Stages, undo
  <2>2. CASE ~Undecided(q) /\ Pending
    BY <2>2, UndoPlan, NewJob DEF Resolve, Stages
  <2>3. CASE ~Undecided(q) /\ ~Pending
    <3>1. job' = None
      BY <2>3 DEF Resolve, Drained, Idle
    <3> QED
      BY <3>1 DEF JobOK, Idle
  <2> QED
    BY <2>1, <2>2, <2>3
<1> QED
  BY <1>1, <1>2, <1>3, <1>4 DEF TypeInv

LEMMA ServeTypes ==
  ASSUME TypeInv, Serve
  PROVE  TypeInv'
<1>1. OldOK' /\ FilesOK' /\ RequestsOK' /\ JobOK'
  BY DEF Serve, TypeInv, OldOK, FilesOK, JobOK, RequestsOK, files, requests, Idle,
         GoodLedger, Good, Unique, Clashes, SameIds
<1>2. MemOK'
  BY DEF Serve, TypeInv, FilesOK, MemOK, Good, Unique, Clashes, SameIds
<1> QED
  BY <1>1, <1>2 DEF TypeInv

LEMMA DownTypes ==
  ASSUME TypeInv, Down
  PROVE  TypeInv'
<1>1. OldOK' /\ FilesOK'
  BY DEF Down, TypeInv, OldOK, FilesOK, files, GoodLedger, Good, Unique, Clashes, SameIds
<1>2. MemOK' /\ JobOK'
  BY DEF Down, MemOK, JobOK, Idle, Good, Unique
<1>3. RequestsOK'
  <2>1. \A c \in Clients : pc'[c] = "idle"
    BY DEF Down
  <2> QED
    BY <2>1 DEF Down, RequestsOK
<1> QED
  BY <1>1, <1>2, <1>3 DEF TypeInv

\* An entry whose record was noted differs in nothing else.
LEMMA NotedEntry ==
  ASSUME NEW e, IsEntry(e)
  PROVE  LET f == [e EXCEPT !.rec.body = "noted"] IN
         /\ IsEntry(f) /\ f.src = e.src /\ f.token = e.token /\ f.event = e.event
         /\ f.rec = [e.rec EXCEPT !.body = "noted"]
         /\ f.rec.name = e.rec.name /\ f.rec.session = e.rec.session
         /\ f.rec.thread = e.rec.thread
<1> DEFINE f == [e EXCEPT !.rec.body = "noted"]
           r == [e.rec EXCEPT !.body = "noted"]
<1>1. f = [src |-> e.src, rec |-> r, token |-> e.token, event |-> e.event]
  <2>1. e = [src |-> e.src, rec |-> e.rec, token |-> e.token, event |-> e.event]
    BY DEF IsEntry
  <2> QED
    BY <2>1
<1>2. /\ IsRecord(r) /\ r.name = e.rec.name /\ r.session = e.rec.session
      /\ r.thread = e.rec.thread
  BY NotedRecord DEF IsEntry
<1>3. f.rec = r
  BY <1>1
<1> HIDE DEF r, f
<1> QED
  BY <1>1, <1>2, <1>3 DEF IsEntry, f, r

\* What an old instance holds after it changed: every entry stands for one that
\* was there, the same but for the body of its record.
LEMMA NotedEntries ==
  ASSUME TypeInv, NEW e \in old, SourceChanges(e)
  PROVE  \A f \in old' : \E g \in old :
           /\ IsEntry(f) /\ f.src = g.src /\ f.token = g.token /\ f.event = g.event
           /\ f.rec.name = g.rec.name /\ f.rec.session = g.rec.session
           /\ f.rec.thread = g.rec.thread
           /\ f.rec = IF g.src = e.src /\ g.rec = e.rec THEN [e.rec EXCEPT !.body = "noted"]
                      ELSE g.rec
<1> DEFINE to(g) == [g EXCEPT !.rec.body = "noted"]
<1>1. old' = {IF g.src = e.src /\ g.rec = e.rec THEN to(g) ELSE g : g \in old}
  BY DEF SourceChanges
<1>2. \A g \in old : IsEntry(g)
  BY DEF TypeInv, OldOK
<1>3. ASSUME NEW g \in old
      PROVE  /\ IsEntry(to(g)) /\ to(g).src = g.src /\ to(g).token = g.token
             /\ to(g).event = g.event /\ to(g).rec = [g.rec EXCEPT !.body = "noted"]
             /\ to(g).rec.name = g.rec.name /\ to(g).rec.session = g.rec.session
             /\ to(g).rec.thread = g.rec.thread
  BY <1>2, NotedEntry
<1> HIDE DEF to
<1> SUFFICES ASSUME NEW f \in old', NEW g \in old,
                    f = IF g.src = e.src /\ g.rec = e.rec THEN to(g) ELSE g
             PROVE  /\ IsEntry(f) /\ f.src = g.src /\ f.token = g.token /\ f.event = g.event
                    /\ f.rec.name = g.rec.name /\ f.rec.session = g.rec.session
                    /\ f.rec.thread = g.rec.thread
                    /\ f.rec = IF g.src = e.src /\ g.rec = e.rec
                               THEN [e.rec EXCEPT !.body = "noted"] ELSE g.rec
  BY <1>1
<1>4. CASE g.src = e.src /\ g.rec = e.rec
  BY <1>3, <1>4
<1>5. CASE ~(g.src = e.src /\ g.rec = e.rec)
  BY <1>2, <1>5
<1> QED
  BY <1>4, <1>5

LEMMA SourceTypes ==
  ASSUME TypeInv, NEW e \in old, SourceChanges(e)
  PROVE  TypeInv'
<1>1. OldOK'
  BY NotedEntries DEF OldOK
<1>2. FilesOK' /\ MemOK' /\ JobOK' /\ RequestsOK'
  BY DEF SourceChanges, TypeInv, FilesOK, MemOK, JobOK, RequestsOK, files, daemon, requests,
         Idle, IsJob, IsPlan, GoodLedger, Good, Unique, Clashes, SameIds
<1> QED
  BY <1>1, <1>2 DEF TypeInv

-----------------------------------------------------------------------------
(* Requests.                                                               *)

\* A request moves on: what it wants is a draft, and a record once it entered.
LEMMA RequestMoves ==
  ASSUME TypeInv, NEW c \in Clients,
         NEW to \in {"idle", "looked", "entered", "created"}, pc' = [pc EXCEPT ![c] = to],
         NEW w \in Draft \cup {Nil}, want' = [want EXCEPT ![c] = w],
         to = "looked" => w \in Draft, to = "entered" => IsRecord(w)
  PROVE  RequestsOK'
<1>1. /\ pc \in [Clients -> {"idle", "looked", "entered", "created"}]
      /\ want \in [Clients -> Draft \cup {Nil}]
  BY DEF TypeInv, RequestsOK
<1>2. /\ pc' \in [Clients -> {"idle", "looked", "entered", "created"}]
      /\ want' \in [Clients -> Draft \cup {Nil}]
  BY <1>1
<1>3. ASSUME NEW d \in Clients
      PROVE  /\ pc'[d] = "looked" => want'[d] \in Draft
             /\ pc'[d] = "entered" => IsRecord(want'[d])
  <2>1. CASE d = c
    <3>1. pc'[d] = to /\ want'[d] = w
      BY <2>1, <1>1
    <3> QED
      BY <3>1
  <2>2. CASE d # c
    <3>1. pc'[d] = pc[d] /\ want'[d] = want[d]
      BY <2>2, <1>1
    <3> QED
      BY <3>1 DEF TypeInv, RequestsOK
  <2> QED
    BY <2>1, <2>2
<1>4. \A d \in Clients : pc'[d] = "entered" => IsRecord(want[d])'
  BY <1>3 DEF IsRecord
<1> QED
  BY <1>2, <1>3, <1>4 DEF RequestsOK

LEMMA JobKept ==
  ASSUME TypeInv, job' = job
  PROVE  JobOK'
BY DEF TypeInv, JobOK, Idle, IsJob, IsPlan, GoodLedger, Good, Unique, Clashes, SameIds

\* Steps of a request that create nothing.
LEMMA LookTypes ==
  ASSUME TypeInv, NEW c \in Clients, NEW n \in Names, Look(c, n)
  PROVE  TypeInv'
<1> DEFINE w == [name |-> n, session |-> Nil, thread |-> Nil, body |-> "new"]
<1>1. w \in Draft
  BY DEF Draft, Named
<1>2. pc' = [pc EXCEPT ![c] = "looked"] /\ want' = [want EXCEPT ![c] = w]
  BY DEF Look, At
<1>3. RequestsOK'
  <2> HIDE DEF w
  <2> QED
    BY <1>1, <1>2, RequestMoves
<1>4. UnchangedData /\ job' = job
  BY DEF Look, UnchangedData, daemon
<1> QED
  BY <1>3, <1>4, DataKept, JobKept DEF TypeInv

LEMMA EnterTypes ==
  ASSUME TypeInv, NEW c \in Clients, NEW id \in New, Enter(c, id)
  PROVE  TypeInv'
<1> DEFINE w == [name |-> want[c].name, session |-> id, thread |-> id, body |-> want[c].body]
<1>1. id \in Ids
  BY DEF New, Ids
<1>2. want[c] \in Draft
  BY DEF Enter, At, TypeInv, RequestsOK
<1>3. w \in Draft /\ IsRecord(w)
  BY <1>1, <1>2 DEF Draft, IsRecord
<1>4. want' = [want EXCEPT ![c] = w]
  <2>1. want[c] = [name |-> want[c].name, session |-> want[c].session,
                   thread |-> want[c].thread, body |-> want[c].body]
    BY <1>2 DEF Draft
  <2>2. [want[c] EXCEPT !.session = id, !.thread = id] = w
    <3> DEFINE d == [want[c] EXCEPT !.session = id]
    <3>1. d = [name |-> want[c].name, session |-> id,
               thread |-> want[c].thread, body |-> want[c].body]
      BY <2>1
    <3>2. [d EXCEPT !.thread = id] = w
      <4> HIDE DEF d
      <4> QED
        BY <3>1
    <3> QED
      BY <3>2
  <2>3. want' = [want EXCEPT ![c] = [want[c] EXCEPT !.session = id, !.thread = id]]
    <3>1. want' = [want EXCEPT ![c].session = id, ![c].thread = id]
      BY DEF Enter
    <3> QED
      BY <3>1, <2>1, <1>2 DEF TypeInv, RequestsOK
  <2> QED
    BY <2>2, <2>3
<1>5. pc' = [pc EXCEPT ![c] = "entered"]
  BY DEF Enter, At
<1>6. RequestsOK'
  <2> HIDE DEF w
  <2> QED
    BY <1>3, <1>4, <1>5, RequestMoves
<1>7. UnchangedData /\ job' = job
  BY DEF Enter, UnchangedData, daemon
<1> QED
  BY <1>6, <1>7, DataKept, JobKept DEF TypeInv

LEMMA RawTypes ==
  ASSUME TypeInv, NEW c \in Clients, NEW n \in Named, NEW id \in New, NEW t \in Ids, Raw(c, n, id, t)
  PROVE  TypeInv'
<1> DEFINE w == [name |-> n, session |-> id, thread |-> t, body |-> "raw"]
<1>1. id \in Ids
  BY DEF New, Ids
<1>2. w \in Draft /\ IsRecord(w)
  BY <1>1 DEF Draft, IsRecord
<1>3. pc' = [pc EXCEPT ![c] = "entered"] /\ want' = [want EXCEPT ![c] = w]
  BY DEF Raw, At
<1>4. RequestsOK'
  <2> HIDE DEF w
  <2> QED
    BY <1>2, <1>3, RequestMoves
<1>5. UnchangedData /\ job' = job
  BY DEF Raw, UnchangedData, daemon
<1> QED
  BY <1>4, <1>5, DataKept, JobKept DEF TypeInv

LEMMA RefuseTypes ==
  ASSUME TypeInv, NEW c \in Clients, Refuse(c)
  PROVE  TypeInv'
<1>1. pc' = [pc EXCEPT ![c] = "idle"] /\ want' = [want EXCEPT ![c] = Nil]
  BY DEF Refuse, At
<1>2. RequestsOK'
  BY <1>1, RequestMoves
<1>3. UnchangedData /\ job' = job
  BY DEF Refuse, UnchangedData, daemon
<1> QED
  BY <1>2, <1>3, DataKept, JobKept DEF TypeInv

LEMMA BindNewTypes ==
  ASSUME TypeInv, NEW c \in Clients, BindNew(c)
  PROVE  TypeInv'
<1>1. pc' = [pc EXCEPT ![c] = "idle"] /\ want' = [want EXCEPT ![c] = Nil]
  BY DEF BindNew, At
<1>2. RequestsOK'
  BY <1>1, RequestMoves
<1>3. UNCHANGED <<old, registry, ledger, intent, mem, job>>
  BY DEF BindNew, daemon
<1>4. OldOK' /\ FilesOK' /\ MemOK'
  BY <1>3 DEF TypeInv, OldOK, FilesOK, MemOK, GoodLedger, Good, Unique, Clashes, SameIds
<1> QED
  BY <1>2, <1>3, <1>4, JobKept DEF TypeInv

\* Records that are saved, or not.
LEMMA SavedRecords ==
  ASSUME TypeInv, NEW records, Good(records), Saves(records), UNCHANGED <<old, ledger, intent, job>>
  PROVE  OldOK' /\ FilesOK' /\ MemOK' /\ JobOK'
<1>1. registry' \in {registry, records} /\ mem' \in {mem, records}
  BY DEF Saves
<1>2. Good(registry)' /\ Good(mem)'
  BY <1>1 DEF TypeInv, FilesOK, MemOK, Good, Unique, Clashes, SameIds
<1>3. GoodLedger(ledger)'
  BY DEF TypeInv, FilesOK, GoodLedger
<1> QED
  BY <1>2, <1>3, JobKept DEF TypeInv, OldOK, FilesOK, MemOK

LEMMA CreateTypes ==
  ASSUME TypeInv, NEW c \in Clients, Create(c)
  PROVE  TypeInv'
<1>1. IsRecord(want[c]) /\ want[c] \in Draft \cup {Nil}
  BY DEF Create, TypeInv, RequestsOK
<1>2. UNCHANGED <<old, ledger, intent, job>>
  BY DEF Create
<1>3. OldOK' /\ FilesOK' /\ MemOK' /\ JobOK'
  <2>1. CASE \E r \in mem : SameIds(r, want[c])
    <3>1. UNCHANGED <<registry, mem>>
      BY <2>1 DEF Create
    <3> QED
      BY <1>2, <3>1, JobKept
      DEF TypeInv, OldOK, FilesOK, MemOK, GoodLedger, Good, Unique, Clashes, SameIds
  <2>2. CASE ~\E r \in mem : SameIds(r, want[c])
    <3>1. ~Clashes(want[c], mem)
      BY <2>2 DEF Clashes, SameIds
    <3>2. Good(mem \cup {want[c]})
      BY <1>1, <3>1, GoodUnion DEF TypeInv, MemOK
    <3>3. Saves(mem \cup {want[c]})
      BY <2>2 DEF Create
    <3> QED
      BY <1>2, <3>2, <3>3, SavedRecords
  <2> QED
    BY <2>1, <2>2
<1>4. RequestsOK'
  <2> DEFINE looks == want[c] \in mem' \ mem /\ want[c].body = "new"
             w == IF looks THEN want[c] ELSE Nil
             to == IF looks THEN "created" ELSE "idle"
  <2>1. pc' = [pc EXCEPT ![c] = to]
    BY DEF Create
  <2>2. want' = [want EXCEPT ![c] = w]
    BY DEF Create, TypeInv, RequestsOK
  <2>3. w \in Draft \cup {Nil} /\ to \in {"idle", "created"}
    BY <1>1
  <2> HIDE DEF w, to
  <2> QED
    BY <2>1, <2>2, <2>3, RequestMoves
<1> QED
  BY <1>3, <1>4 DEF TypeInv

LEMMA AnnotateTypes ==
  ASSUME TypeInv, NEW r \in mem, Annotate(r)
  PROVE  TypeInv'
<1> DEFINE s == [r EXCEPT !.body = "noted"]
<1>1. IsRecord(r) /\ Good(mem)
  BY DEF TypeInv, MemOK, Good
<1>2. IsRecord(s) /\ s.name = r.name /\ s.session = r.session /\ s.thread = r.thread
  BY <1>1, NotedRecord
<1>3. Saves((mem \ {r}) \cup {s})
  BY DEF Annotate
<1>4. UNCHANGED <<old, ledger, intent, job>>
  BY DEF Annotate
<1> HIDE DEF s
<1>5. ~Clashes(s, mem \ {r})
  BY <1>1, <1>2 DEF Good, Unique, Clashes, SameIds
<1>6. Good((mem \ {r}) \cup {s})
  <2>1. Good(mem \ {r})
    BY <1>1, GoodSubset
  <2> QED
    BY <1>2, <1>5, <2>1, GoodUnion
<1>7. RequestsOK'
  BY DEF Annotate, TypeInv, RequestsOK, requests
<1> QED
  BY <1>3, <1>4, <1>6, <1>7, SavedRecords DEF TypeInv

LEMMA RequestTypes ==
  ASSUME TypeInv, NEW c \in Clients, Request(c)
  PROVE  TypeInv'
BY LookTypes, EnterTypes, RawTypes, RefuseTypes, CreateTypes, BindNewTypes DEF Request

LEMMA NextTypes ==
  TypeInv /\ [Next]_vars => TypeInv'
<1> SUFFICES ASSUME TypeInv, [Next]_vars
             PROVE  TypeInv'
  OBVIOUS
<1>1. CASE Next
  BY <1>1, StartTypes, ServeTypes, CommitTypes, CommitFailsTypes, ResolveTypes, RequestTypes,
     AnnotateTypes, DownTypes, SourceTypes DEF Next, Stop, Crash
<1>2. CASE UNCHANGED vars
  <2>1. UnchangedData /\ job' = job /\ UNCHANGED requests
    BY <1>2 DEF vars, UnchangedData, daemon
  <2>2. RequestsOK'
    BY <2>1 DEF TypeInv, RequestsOK, requests
  <2> QED
    BY <2>1, <2>2, DataKept, JobKept DEF TypeInv
<1> QED
  BY <1>1, <1>2

\* The registry, in memory and in its file, and every plan that will replace
\* it, hold each name, session and thread once, whatever failed before.
THEOREM TypeCorrect ==
  Spec => []TypeOK
<1>1. Init => TypeInv
  BY InitTypes
<1>2. TypeInv /\ [Next]_vars => TypeInv'
  BY NextTypes
<1>3. TypeInv => TypeOK
  BY TypeInvImpliesTypeOK
<1> QED
  BY <1>1, <1>2, <1>3, PTL DEF Spec

-----------------------------------------------------------------------------
(* What a command reported stays.  The file alone is not inductive: a save *)
(* writes what the daemon has in memory, and a commit what it planned when *)
(* it began.  So both have to hold what was promised, and while a commit   *)
(* is under way in a live daemon nobody may be about to promise more.      *)

Has(P, S) == \A p \in P : \E r \in S : r.name = p.name /\ r.thread = p.thread
Granted(q, S) == \E r \in S : r.name = Target(q) /\ r.thread = q.thread

JobPromises ==
  /\ Has(promised, job.plan.records)
  /\ job.undo # None => Has(promised, job.undo.records)
  /\ up => \A c \in Clients : pc[c] # "entered"
  /\ ~job.rolling /\ job.q # Nil => Granted(job.q, job.plan.records)
  /\ ~job.rolling /\ job.q # Nil /\ job.stage \in {"callbacks", "ledger", "clear"} =>
       Granted(job.q, registry)

PromiseInv ==
  /\ Has(promised, registry)
  /\ up => Has(promised, mem)
  /\ ~Idle => JobPromises

LEMMA InitPromises ==
  Init => PromiseInv
BY DEF Init, PromiseInv, Has, Idle

\* A stage leaves the registry as it was, or as the plan has it.
LEMMA RegistryPublished ==
  ASSUME NEW stage, Publishes(stage)
  PROVE  registry' = IF stage = "registry" THEN job.plan.records ELSE registry
BY DEF Publishes, PublishesRegistry

LEMMA CommitPromises ==
  ASSUME TypeInv, PromiseInv, Commit
  PROVE  PromiseInv'
<1>1. IsJob(job) /\ JobPromises
  BY DEF TypeInv, JobOK, PromiseInv, Commit
<1>2. registry' = IF job.stage = "registry" THEN job.plan.records ELSE registry
  BY RegistryPublished DEF Commit
<1>3. Has(promised, registry')
  BY <1>1, <1>2 DEF PromiseInv, JobPromises
<1>4. CASE ~Last(job.stage)
  <2>1. job' = [job EXCEPT !.stage = NextStage(@)] /\ UNCHANGED <<mem, up, promised, requests>>
    BY <1>4 DEF Commit
  <2>2. job = [q |-> job.q, plan |-> job.plan, undo |-> job.undo,
               stage |-> job.stage, rolling |-> job.rolling]
    BY <1>1 DEF IsJob
  <2>3. job' = [q |-> job.q, plan |-> job.plan, undo |-> job.undo,
                stage |-> NextStage(job.stage), rolling |-> job.rolling]
    BY <2>1, <2>2
  <2>4. /\ job'.q = job.q /\ job'.plan = job.plan /\ job'.undo = job.undo
        /\ job'.stage = NextStage(job.stage) /\ job'.rolling = job.rolling
    BY <2>3
  <2>5. ASSUME ~job.rolling, job.q # Nil, NextStage(job.stage) \in {"callbacks", "ledger", "clear"}
        PROVE  Granted(job.q, registry')
    <3>1. job.stage \in {"registry", "callbacks", "ledger"} \/ job.stage = "clear"
      BY <1>1, <2>5 DEF IsJob, Stages, NextStage
    <3> QED
      BY <1>1, <1>2, <2>5, <3>1 DEF JobPromises
  <2>6. JobPromises'
    <3>1. pc' = pc
      BY <2>1 DEF requests
    <3> QED
      BY <1>1, <2>1, <2>4, <2>5, <3>1 DEF JobPromises, Has, Granted, Target
  <2> QED
    BY <1>3, <2>1, <2>6 DEF PromiseInv, Has
<1>5. CASE Last(job.stage) /\ job.rolling
  BY <1>3, <1>5 DEF Commit, PromiseInv, Idle, Has
<1>6. CASE Last(job.stage) /\ ~job.rolling
  <2>1. mem' = registry' /\ job' = None
    BY <1>6 DEF Commit, Reads
  <2>2. Has(promised', registry')
    <3>1. CASE job.q # Nil /\ up
      <4>1. promised' = promised \cup {[name |-> Target(job.q), thread |-> job.q.thread]}
        BY <1>6, <3>1 DEF Commit, Told
      <4>2. Granted(job.q, registry')
        BY <1>1, <1>2, <1>6, <3>1 DEF JobPromises, Last
      <4> QED
        BY <1>3, <4>1, <4>2 DEF Has, Granted
    <3>2. CASE ~(job.q # Nil /\ up)
      BY <1>3, <1>6, <3>2 DEF Commit
    <3> QED
      BY <3>1, <3>2
  <2> QED
    BY <2>1, <2>2 DEF PromiseInv, Idle, Has
<1> QED
  BY <1>4, <1>5, <1>6

LEMMA CommitFailsPromises ==
  ASSUME TypeInv, PromiseInv, NEW effect \in BOOLEAN, CommitFails(effect)
  PROVE  PromiseInv'
<1>1. IsJob(job) /\ JobPromises
  BY DEF TypeInv, JobOK, PromiseInv, CommitFails
<1>2. registry' \in {registry, job.plan.records}
  <2>1. CASE effect
    BY <2>1, RegistryPublished DEF CommitFails
  <2>2. CASE ~effect
    BY <2>2 DEF CommitFails, files
  <2> QED
    BY <2>1, <2>2
<1>3. Has(promised, registry')
  BY <1>1, <1>2 DEF PromiseInv, JobPromises
<1>4. UNCHANGED <<mem, up, promised, pc>>
  BY DEF CommitFails, requests
<1>5. CASE job' = None
  BY <1>3, <1>4, <1>5 DEF PromiseInv, Idle, Has
<1>6. CASE Undone /\ job' = [job EXCEPT !.plan = job.undo, !.undo = None,
                                        !.stage = "artifacts", !.rolling = TRUE]
  <2>1. job = [q |-> job.q, plan |-> job.plan, undo |-> job.undo,
               stage |-> job.stage, rolling |-> job.rolling]
    BY <1>1 DEF IsJob
  <2>2. job' = [q |-> job.q, plan |-> job.undo, undo |-> None,
                stage |-> "artifacts", rolling |-> TRUE]
    BY <1>6, <2>1
  <2>3. job'.plan = job.undo /\ job'.undo = None /\ job'.rolling
    BY <2>2
  <2>4. JobPromises'
    BY <1>1, <1>4, <1>6, <2>3 DEF JobPromises, Undone, Has
  <2> QED
    BY <1>3, <1>4, <2>4 DEF PromiseInv, Has
<1> QED
  BY <1>5, <1>6 DEF CommitFails

\* A commit that begins, while promises stay as they are.
LEMMA NewJobPromises ==
  ASSUME PromiseInv, NEW q, NEW plan, NEW undo, NEW stage, Commits(q, plan, undo, stage),
         UNCHANGED <<registry, mem, up, pc, promised>>,
         Has(promised, plan.records), undo # None => Has(promised, undo.records),
         up => \A c \in Clients : pc[c] # "entered",
         q # Nil => Granted(q, plan.records),
         stage \in {"callbacks", "ledger", "clear"} /\ q # Nil => Granted(q, registry)
  PROVE  PromiseInv'
<1>1. /\ job'.q = q /\ job'.plan = plan /\ job'.undo = undo
      /\ job'.stage = stage /\ job'.rolling = FALSE
  BY DEF Commits
<1>2. JobPromises'
  BY <1>1 DEF JobPromises, Has, Granted, Target
<1> QED
  BY <1>2 DEF PromiseInv, Has

\* A plan keeps what the registry has, and a resolution's plan grants it.
LEMMA ResolutionGrants ==
  ASSUME TypeInv, PromiseInv, NEW q \in Resolutions, ledger # None, NEW k \in Chosen(q)
  PROVE  /\ Has(promised, Resolution(q, k).records)
         /\ Granted(q, Resolution(q, k).records)
<1> DEFINE r == [k.rec EXCEPT !.name = Target(q)]
<1>1. Resolution(q, k).records = registry \cup {r}
  BY DEF Resolution
<1>2. r.name = Target(q) /\ r.thread = q.thread
  BY ChosenRecord, TargetNamed, RenamedRecord
<1> HIDE DEF r
<1> QED
  BY <1>1, <1>2 DEF PromiseInv, Has, Granted

LEMMA UndoKeeps ==
  ASSUME PromiseInv
  PROVE  Has(promised, Undo.records)
BY DEF PromiseInv, Undo

LEMMA SettledGrants ==
  ASSUME NEW q, Settled(q)
  PROVE  Granted(q, Undo.records) /\ Granted(q, registry)
BY DEF Settled, Holds, Granted, Undo

LEMMA StartPromises ==
  ASSUME TypeInv, PromiseInv, Start
  PROVE  PromiseInv'
<1>1. UNCHANGED <<registry, mem, up, pc, promised>> /\ ~up
  BY DEF Start, files, requests
<1>2. CASE Pending /\ Undecided(intent)
  <2>1. PICK k \in Chosen(intent) :
          Possible(intent, k) /\ Commits(intent, Resolution(intent, k), None, "intent")
    BY <1>2 DEF Start
  <2>2. intent \in Resolutions /\ ledger # None
    BY <1>2 DEF Pending, TypeInv, FilesOK, Undecided, InConflict
  <2> QED
    BY <1>1, <2>1, <2>2, ResolutionGrants, NewJobPromises
<1>3. CASE Pending /\ ~Undecided(intent)
  <2>1. Settled(intent) /\ Commits(intent, Undo, None, "clear")
    BY <1>3 DEF Start
  <2> QED
    BY <1>1, <2>1, UndoKeeps, SettledGrants, NewJobPromises
<1>4. CASE ~Pending
  <2> DEFINE plan == Plan(old, registry, binds, box)
  <2>1. Commits(Nil, plan, None, "artifacts")
    BY <1>4 DEF Start
  <2>2. Has(promised, plan.records)
    <3>1. registry \subseteq plan.records
      BY DEF Plan
    <3> HIDE DEF plan
    <3> QED
      BY <3>1 DEF PromiseInv, Has
  <2> HIDE DEF plan
  <2> QED
    BY <1>1, <2>1, <2>2, NewJobPromises
<1> QED
  BY <1>2, <1>3, <1>4

LEMMA ResolvePromises ==
  ASSUME TypeInv, PromiseInv, NEW q \in Resolutions, Resolve(q)
  PROVE  PromiseInv'
<1>1. UNCHANGED <<registry, pc>> /\ \A c \in Clients : pc[c] # "entered"
  BY DEF Resolve, Drained, files, requests
<1>2. CASE Undecided(q)
  <2> DEFINE undo == IF Pending THEN None ELSE Undo
  <2>1. PICK k \in Chosen(q) :
          /\ Possible(q, k) /\ Commits(q, Resolution(q, k), undo, "intent")
          /\ UNCHANGED <<mem, up, promised>>
    BY <1>2 DEF Resolve
  <2>2. ledger # None
    BY <1>2 DEF Undecided, InConflict
  <2>3. undo # None => Has(promised, undo.records)
    BY UndoKeeps
  <2>4. /\ Has(promised, Resolution(q, k).records)
        /\ Granted(q, Resolution(q, k).records)
    BY <2>2, ResolutionGrants
  <2> HIDE DEF undo
  <2> QED
    BY <1>1, <2>1, <2>3, <2>4, NewJobPromises
<1>3. CASE ~Undecided(q) /\ Pending
  <2>1. Settled(q) /\ Commits(q, Undo, None, "clear") /\ UNCHANGED <<mem, up, promised>>
    BY <1>3 DEF Resolve
  <2> QED
    BY <1>1, <2>1, UndoKeeps, SettledGrants, NewJobPromises
<1>4. CASE ~Undecided(q) /\ ~Pending
  <2>1. Granted(q, registry) /\ mem' = registry /\ Told(q) /\ UNCHANGED job /\ Idle
    BY <1>4, SettledGrants DEF Resolve, Drained
  <2>2. Has(promised', registry)
    BY <2>1 DEF Told, Has, Granted, PromiseInv
  <2> QED
    BY <1>1, <2>1, <2>2 DEF PromiseInv, Idle, Has
<1> QED
  BY <1>2, <1>3, <1>4

\* A request moves on, but nobody enters while a commit is under way.
LEMMA QuietPromises ==
  ASSUME TypeInv, PromiseInv, UNCHANGED <<registry, mem, up, job, promised>>,
         Idle \/ \A c \in Clients : pc'[c] = "entered" => pc[c] = "entered"
  PROVE  PromiseInv'
BY DEF PromiseInv, JobPromises, Idle, Has, Granted, Target

\* Records are saved that hold what was promised, while no commit is under way.
LEMMA SavedPromises ==
  ASSUME PromiseInv, Idle, job' = job, up, NEW records, Has(promised, records), Saves(records),
         promised' = promised
  PROVE  PromiseInv'
<1>1. registry' \in {registry, records} /\ mem' \in {mem, records}
  BY DEF Saves
<1> QED
  BY <1>1 DEF PromiseInv, Has, Idle

LEMMA CreatePromises ==
  ASSUME TypeInv, PromiseInv, NEW c \in Clients, Create(c)
  PROVE  PromiseInv'
<1>1. up /\ up' = up /\ job' = job /\ Idle
  BY DEF Create, PromiseInv, JobPromises
<1> DEFINE records == mem \cup {want[c]}
           made == want[c] \in mem' \ mem
           P == IF made THEN promised \cup {[name |-> want[c].name, thread |-> want[c].thread]}
                ELSE promised
<1>2. promised' = P
  BY DEF Create
<1>3. CASE \E r \in mem : SameIds(r, want[c])
  <2>1. UNCHANGED <<registry, mem>>
    BY <1>3 DEF Create
  <2>2. promised' = promised
    BY <1>2, <2>1
  <2> QED
    BY <1>1, <2>1, <2>2 DEF PromiseInv, Idle, Has
<1>4. CASE ~\E r \in mem : SameIds(r, want[c])
  <2>1. Saves(records)
    BY <1>4 DEF Create
  <2>2. Has(promised, records)
    BY <1>1 DEF PromiseInv, Has
  <2>3. CASE made
    <3>1. registry' = records /\ mem' = records
      BY <2>1, <2>3 DEF Saves
    <3>2. Has(promised', records)
      BY <1>2, <2>2, <2>3 DEF Has
    <3> HIDE DEF records
    <3> QED
      BY <1>1, <3>1, <3>2 DEF PromiseInv, Idle, Has
  <2>4. CASE ~made
    <3>1. promised' = promised
      BY <1>2, <2>4
    <3> HIDE DEF records
    <3> QED
      BY <1>1, <2>1, <2>2, <3>1, SavedPromises
  <2> QED
    BY <2>3, <2>4
<1> QED
  BY <1>3, <1>4

LEMMA AnnotatePromises ==
  ASSUME TypeInv, PromiseInv, NEW r \in mem, Annotate(r)
  PROVE  PromiseInv'
<1> DEFINE s == [r EXCEPT !.body = "noted"]
           records == (mem \ {r}) \cup {s}
<1>1. up /\ Idle /\ job' = job /\ promised' = promised /\ Saves(records)
  BY DEF Annotate
<1>2. s.name = r.name /\ s.thread = r.thread
  BY NotedRecord DEF TypeInv, MemOK, Good
<1>3. Has(promised, records)
  <2> HIDE DEF s
  <2> QED
    BY <1>1, <1>2 DEF PromiseInv, Has
<1> HIDE DEF records
<1> QED
  BY <1>1, <1>3, SavedPromises

LEMMA RequestPromises ==
  ASSUME TypeInv, PromiseInv, NEW c \in Clients, Request(c)
  PROVE  PromiseInv'
<1>1. pc \in [Clients -> {"idle", "looked", "entered", "created"}]
  BY DEF TypeInv, RequestsOK
<1>2. ASSUME NEW n \in Names, Look(c, n)
      PROVE  PromiseInv'
  BY <1>2, QuietPromises DEF Look, files, daemon
<1>3. ASSUME NEW id \in New, Enter(c, id)
      PROVE  PromiseInv'
  BY <1>3, QuietPromises DEF Enter, files, daemon
<1>4. ASSUME NEW n \in Named, NEW id \in New, NEW t \in Ids, Raw(c, n, id, t)
      PROVE  PromiseInv'
  BY <1>4, QuietPromises DEF Raw, files, daemon
<1>5. CASE Refuse(c)
  BY <1>1, <1>5, QuietPromises DEF Refuse, At, files, daemon
<1>6. CASE BindNew(c)
  BY <1>6, QuietPromises DEF BindNew, daemon
<1> QED
  BY <1>2, <1>3, <1>4, <1>5, <1>6, CreatePromises DEF Request

LEMMA NextPromises ==
  TypeInv /\ PromiseInv /\ [Next]_vars => PromiseInv'
<1> SUFFICES ASSUME TypeInv, PromiseInv, [Next]_vars
             PROVE  PromiseInv'
  OBVIOUS
<1>1. CASE Serve
  BY <1>1 DEF Serve, files, PromiseInv, Has, Idle
<1>2. ASSUME Down
      PROVE  PromiseInv'
  BY <1>2 DEF Down, files, PromiseInv, Has, Idle
<1>3. ASSUME NEW e \in old, SourceChanges(e)
      PROVE  PromiseInv'
  BY <1>3, QuietPromises DEF SourceChanges, files, daemon, requests
<1>4. CASE UNCHANGED vars
  BY <1>4, QuietPromises DEF vars, files, daemon, requests
<1> QED
  BY <1>1, <1>2, <1>3, <1>4, StartPromises, CommitPromises, CommitFailsPromises, ResolvePromises,
     RequestPromises, AnnotatePromises DEF Next, Stop, Crash

LEMMA PromiseInvImpliesPromisesKept ==
  PromiseInv => PromisesKept
BY DEF PromiseInv, PromisesKept, Has

\* A worker that a command reported stays in the registry, under its name and
\* with its thread, through any crashes, failed writes, rollbacks and recoveries.
THEOREM PromisesAreKept ==
  Spec => []PromisesKept
<1>1. Init => TypeInv /\ PromiseInv
  BY InitTypes, InitPromises
<1>2. TypeInv /\ PromiseInv /\ [Next]_vars => (TypeInv /\ PromiseInv)'
  BY NextTypes, NextPromises
<1>3. TypeInv /\ PromiseInv => PromisesKept
  BY PromiseInvImpliesPromisesKept
<1> QED
  BY <1>1, <1>2, <1>3, PTL DEF Spec

-----------------------------------------------------------------------------
(* No worker of an old instance is lost.                                   *)
(*                                                                         *)
(* Every entry is accounted for (Whole) by the files, by what the daemon   *)
(* has in memory, which the next save writes, by the plan of a commit, of  *)
(* which a crash may leave any part beside the files it has not reached,   *)
(* and by the state a rollback restores.                                   *)

KeptIn(e, R, B, X) ==
  \E r \in R :
    /\ r.session = e.rec.session /\ r.thread = e.rec.thread
    /\ e.token # Nil => Bind(e) \in B
    /\ e.event # Nil => Event(e, r.name) \in X
OpenIn(e, l) ==
  \E f \in l.conflicts : \E k \in f.cands : k.src = e.src /\ k.rec.session = e.rec.session
PassedIn(e, l) ==
  \E q \in l.resolutions : q.name = e.rec.name /\ q.as = NoName /\ q.thread # e.rec.thread

Whole(E, R, B, X, l) ==
  \A e \in E : KeptIn(e, R, B, X) \/ OpenIn(e, l) \/ PassedIn(e, l)
WholeIn(E, p) == Whole(E, p.records, p.binds, p.box, p.ledger)

\* An old instance holds a name, session and thread in one record, and a session
\* in one binding; a candidate is of a record that it held.
Sources(E) == \A e, f \in E :
  e.src = f.src /\ SameIds(e.rec, f.rec) => e.rec = f.rec /\ e.token = f.token
Cands(E, l) == l # None => \A f \in l.conflicts : \A k \in f.cands :
  /\ k.rec.name = f.name /\ k.rec \in k.digest
  /\ \A e \in E : e.src = k.src /\ e.rec.session = k.rec.session =>
       e.rec.thread = k.rec.thread /\ e.rec.name = k.rec.name

\* No write failed so that the daemon forgot what it had published, and no
\* rollback was cut off.
Quiet == harm \cap {"forgotten", "rollback"} = {}

\* The files a commit has reached are those of its plan.
Written ==
  /\ job.stage \in {"callbacks", "ledger", "clear"} => registry = job.plan.records
  /\ job.stage \in {"ledger", "clear"} => binds = job.plan.binds /\ box = job.plan.box
  /\ job.stage = "clear" => ledger = job.plan.ledger
Grows ==
  registry \subseteq job.plan.records /\ binds \subseteq job.plan.binds /\ box \subseteq job.plan.box

WholeJob ==
  /\ Written /\ WholeIn(old, job.plan) /\ Cands(old, job.plan.ledger)
  /\ ~job.rolling => Grows
  /\ job.undo # None =>
       /\ up /\ job.q # Nil /\ WholeIn(old, job.undo) /\ Cands(old, job.undo.ledger)
       /\ Whole(old, mem, job.undo.binds, job.undo.box, job.undo.ledger)
  /\ job.rolling =>
       /\ up /\ job.q # Nil /\ job.undo = None
       /\ Whole(old, mem, job.plan.binds, job.plan.box, job.plan.ledger)

\* The old instances were taken over: the scan is behind.
Began == up \/ Pending \/ ledger # None \/ (~Idle /\ job.q # Nil)

WholeInv ==
  /\ Sources(old)
  /\ Quiet =>
     /\ Cands(old, ledger)
     /\ ~Idle => WholeJob
     /\ Began /\ (Idle \/ ~job.rolling) => Whole(old, registry, binds, box, ledger)
     /\ up /\ Idle => Whole(old, mem, binds, box, ledger)

\* More records, bindings and events account for no less.
LEMMA WholeMore ==
  ASSUME NEW E, NEW R, NEW B, NEW X, NEW l, Whole(E, R, B, X, l),
         NEW S, NEW C, NEW Y, R \subseteq S, B \subseteq C, X \subseteq Y
  PROVE  Whole(E, S, C, Y, l)
<1>1. ASSUME NEW e \in E, KeptIn(e, R, B, X)
      PROVE  KeptIn(e, S, C, Y)
  BY <1>1 DEF KeptIn
<1>. QED
  BY <1>1 DEF Whole

\* What changes in an old instance is accounted for as before.
LEMMA NotedWhole ==
  ASSUME TypeInv, NEW e \in old, SourceChanges(e),
         NEW R, NEW B, NEW X, NEW l, Whole(old, R, B, X, l)
  PROVE  Whole(old', R, B, X, l)
<1>1. ASSUME NEW f \in old', NEW g \in old,
             f.src = g.src, f.token = g.token, f.event = g.event, f.rec.name = g.rec.name,
             f.rec.session = g.rec.session, f.rec.thread = g.rec.thread
      PROVE  KeptIn(f, R, B, X) \/ OpenIn(f, l) \/ PassedIn(f, l)
  <2>1. KeptIn(g, R, B, X) \/ OpenIn(g, l) \/ PassedIn(g, l)
    BY DEF Whole
  <2>. QED
    BY <1>1, <2>1 DEF KeptIn, OpenIn, PassedIn, Bind, Event
<1>. QED
  BY <1>1, NotedEntries DEF Whole

LEMMA NotedSources ==
  ASSUME TypeInv, NEW e \in old, SourceChanges(e), Sources(old)
  PROVE  /\ Sources(old')
         /\ \A l : Cands(old, l) => Cands(old', l)
<1>1. Sources(old')
  <2>1. ASSUME NEW f \in old', NEW h \in old', f.src = h.src, SameIds(f.rec, h.rec)
        PROVE  f.rec = h.rec /\ f.token = h.token
    <3>1. PICK g \in old :
            /\ f.src = g.src /\ f.token = g.token
            /\ f.rec.name = g.rec.name /\ f.rec.session = g.rec.session
            /\ f.rec.thread = g.rec.thread
            /\ f.rec = IF g.src = e.src /\ g.rec = e.rec THEN [e.rec EXCEPT !.body = "noted"]
                       ELSE g.rec
      BY NotedEntries
    <3>2. PICK i \in old :
            /\ h.src = i.src /\ h.token = i.token
            /\ h.rec.name = i.rec.name /\ h.rec.session = i.rec.session
            /\ h.rec.thread = i.rec.thread
            /\ h.rec = IF i.src = e.src /\ i.rec = e.rec THEN [e.rec EXCEPT !.body = "noted"]
                       ELSE i.rec
      BY NotedEntries
    <3>3. g.src = i.src /\ g.rec = i.rec /\ g.token = i.token
      BY <2>1, <3>1, <3>2 DEF Sources, SameIds
    <3>. QED
      BY <3>1, <3>2, <3>3
  <2>. QED
    BY <2>1 DEF Sources
<1>2. ASSUME NEW l, Cands(old, l), l # None
      PROVE  Cands(old', l)
  <2>1. \A f \in old' : \E g \in old :
          /\ f.src = g.src /\ f.rec.name = g.rec.name
          /\ f.rec.session = g.rec.session /\ f.rec.thread = g.rec.thread
    BY NotedEntries
  <2>. QED
    BY <1>2, <2>1 DEF Cands
<1>. QED
  BY <1>1, <1>2 DEF Cands

\* A scan takes every entry, or makes a conflict of it.
LEMMA ScanWhole ==
  ASSUME TypeInv, Sources(old), NEW R, NEW B, NEW X
  PROVE  LET p == Plan(old, R, B, X) IN
         /\ WholeIn(old, p) /\ Cands(old, p.ledger)
         /\ R \subseteq p.records /\ B \subseteq p.binds /\ X \subseteq p.box
<1> DEFINE Q == Quarantine(old, R, B, X)
           names == {e.rec.name : e \in {f \in old : f.rec.session \in Q}}
           taken == {e \in old : e.rec.session \notin Q /\ e.rec.name \notin names}
           conflict(n) == [name |-> n,
                           cands |-> {Candidate(e, old) : e \in {f \in old : f.rec.name = n}}]
           l == [conflicts |-> {conflict(n) : n \in names}, resolutions |-> {}]
           p == Plan(old, R, B, X)
<1>1. /\ p.records = R \cup {e.rec : e \in taken} /\ p.binds = B \cup Binds(taken)
      /\ p.box = X \cup Events(taken) /\ p.ledger = l
  BY DEF Plan
<1>. HIDE DEF Q, p
<1>2. ASSUME NEW e \in taken PROVE KeptIn(e, p.records, p.binds, p.box)
  BY <1>1 DEF KeptIn, Binds, Events
<1>3. ASSUME NEW e \in old, e \notin taken PROVE OpenIn(e, l)
  <2>1. e.rec.name \in names
    BY <1>3
  <2>2. Candidate(e, old).src = e.src /\ Candidate(e, old).rec = e.rec
    BY DEF Candidate
  <2>3. conflict(e.rec.name) \in l.conflicts /\ Candidate(e, old) \in conflict(e.rec.name).cands
    BY <2>1
  <2>. HIDE DEF l, conflict
  <2>. QED
    BY <2>2, <2>3 DEF OpenIn
<1>4. Cands(old, l)
  <2>1. ASSUME NEW n \in names, NEW x \in old, x.rec.name = n
        PROVE  LET k == Candidate(x, old) IN
               /\ k.rec.name = n /\ k.rec \in k.digest
               /\ \A e \in old : e.src = k.src /\ e.rec.session = k.rec.session =>
                    e.rec.thread = k.rec.thread /\ e.rec.name = k.rec.name
    BY <2>1 DEF Candidate, Sources, SameIds
  <2>2. \A f \in l.conflicts : \E n \in names : f = conflict(n)
    OBVIOUS
  <2>3. \A n : conflict(n).name = n /\
               \A k \in conflict(n).cands : \E x \in old : x.rec.name = n /\ k = Candidate(x, old)
    OBVIOUS
  <2>. HIDE DEF names, conflict, l
  <2>. QED
    BY <2>1, <2>2, <2>3 DEF Cands
<1>. QED
  BY <1>1, <1>2, <1>3, <1>4 DEF WholeIn, Whole, p

\* A resolution takes the chosen candidate, and leaves the others of its name in
\* their conflict, or passes them over.
LEMMA ResolutionWhole ==
  ASSUME TypeInv, Sources(old), Cands(old, ledger), ledger # None,
         Whole(old, registry, binds, box, ledger),
         NEW q \in Resolutions, NEW k \in Chosen(q), Possible(q, k)
  PROVE  LET p == Resolution(q, k) IN
         /\ WholeIn(old, p) /\ Cands(old, p.ledger)
         /\ registry \subseteq p.records /\ binds \subseteq p.binds /\ box \subseteq p.box
<1> DEFINE p == Resolution(q, k)
           r == [k.rec EXCEPT !.name = Target(q)]
           events == {Event(e, Target(q)) : e \in {f \in Source(k) : f.event # Nil}}
           l == [conflicts |-> Remaining(q, k), resolutions |-> ledger.resolutions \cup {q}]
<1>1. /\ p.records = registry \cup {r} /\ p.binds = binds \cup Binds(Source(k))
      /\ p.box = box \cup events /\ p.ledger = l
  BY DEF Resolution
<1>2. r.name = Target(q) /\ r.session = k.rec.session /\ r.thread = k.rec.thread
  BY ChosenRecord, TargetNamed, RenamedRecord
<1>3. PICK g \in ledger.conflicts : g.name = q.name /\ k \in g.cands /\ k.rec.thread = q.thread
  BY DEF Chosen
<1>4. k.rec \in k.digest /\ k.digest = {x.rec : x \in {f \in old : f.src = k.src}}
  BY <1>3 DEF Cands, Possible, Unchanged
<1>5. \A f \in ledger.conflicts : \A c \in f.cands :
        f.name = q.name /\ c.rec.thread = q.thread => c = k
  BY DEF Possible, Chosen
<1>6. \A f \in ledger.conflicts : [f EXCEPT !.cands = @ \ {k}] =
                                    [name |-> f.name, cands |-> f.cands \ {k}]
  <2>1. \A f \in ledger.conflicts : f = [name |-> f.name, cands |-> f.cands]
    BY DEF TypeInv, FilesOK, GoodLedger
  <2>. QED
    BY <2>1
<1>. HIDE DEF p, r
<1>7. ASSUME NEW e \in old, e.src = k.src, e.rec.session = k.rec.session
      PROVE  KeptIn(e, p.records, p.binds, p.box)
  <2>1. e \in Source(k)
    <3>1. PICK x \in old : x.src = k.src /\ x.rec = k.rec
      BY <1>4
    <3>. QED
      BY <1>7, <3>1 DEF Sources, SameIds, Source
  <2>2. e.rec = k.rec
    BY <2>1 DEF Source
  <2>. QED
    BY <1>1, <1>2, <2>1, <2>2 DEF KeptIn, Binds
<1>8. ASSUME NEW e \in old, NEW f \in ledger.conflicts, NEW c \in f.cands,
             c.src = e.src, c.rec.session = e.rec.session, c # k
      PROVE  OpenIn(e, l) \/ PassedIn(e, l)
  <2>1. CASE f.name # q.name
    <3>1. f \in l.conflicts
      BY <2>1 DEF Remaining
    <3>. QED
      BY <1>8, <3>1 DEF OpenIn
  <2>2. CASE f.name = q.name /\ q.as = NoName
    <3>1. e.rec.name = q.name /\ e.rec.thread = c.rec.thread
      BY <1>8, <2>2 DEF Cands
    <3>2. q.thread # e.rec.thread
      BY <1>5, <1>8, <2>2, <3>1
    <3>3. q \in l.resolutions
      OBVIOUS
    <3>. QED
      BY <2>2, <3>1, <3>2, <3>3 DEF PassedIn
  <2>3. CASE f.name = q.name /\ q.as # NoName
    <3>1. [f EXCEPT !.cands = @ \ {k}] \in l.conflicts
      <4>1. c \in [f EXCEPT !.cands = @ \ {k}].cands
        BY <1>6, <1>8
      <4>. QED
        BY <2>3, <4>1 DEF Remaining
    <3>. QED
      BY <1>6, <1>8, <3>1 DEF OpenIn
  <2>. QED
    BY <2>1, <2>2, <2>3
<1>9. WholeIn(old, p)
  <2>. SUFFICES ASSUME NEW e \in old
                PROVE  KeptIn(e, p.records, p.binds, p.box) \/ OpenIn(e, l) \/ PassedIn(e, l)
    BY <1>1 DEF WholeIn, Whole
  <2>1. CASE KeptIn(e, registry, binds, box)
    BY <1>1, <2>1 DEF KeptIn
  <2>2. CASE PassedIn(e, ledger)
    BY <2>2 DEF PassedIn
  <2>3. CASE OpenIn(e, ledger)
    BY <1>7, <1>8, <2>3 DEF OpenIn
  <2>. QED
    BY <2>1, <2>2, <2>3 DEF Whole
<1>10. Cands(old, l)
  <2>1. ASSUME NEW f \in Remaining(q, k)
        PROVE  \E h \in ledger.conflicts : f.name = h.name /\ f.cands \subseteq h.cands
    <3>1. CASE f \in ledger.conflicts
      BY <3>1
    <3>2. CASE f \notin ledger.conflicts
      <4>1. PICK h \in ledger.conflicts : f = [h EXCEPT !.cands = @ \ {k}]
        BY <3>2, Zenon DEF Remaining
      <4>. QED
        BY <1>6, <4>1
    <3>. QED
      BY <3>1, <3>2
  <2>2. l.conflicts = Remaining(q, k)
    OBVIOUS
  <2>. HIDE DEF l
  <2>. QED
    BY <2>1, <2>2 DEF Cands
<1>. QED
  BY <1>1, <1>9, <1>10 DEF p

-----------------------------------------------------------------------------
(* Every step keeps the old instances accounted for.                       *)

\* A stage of a commit: its file is now the plan's, and where nothing is rolled
\* back every file is as it was or more.
LEMMA PublishedWhole ==
  ASSUME TypeInv, WholeInv, Quiet, ~Idle, Publishes(job.stage), old' = old
  PROVE  /\ job.stage \in {"registry", "callbacks", "ledger", "clear"} =>
              registry' = job.plan.records
         /\ job.stage \in {"callbacks", "ledger", "clear"} =>
              binds' = job.plan.binds /\ box' = job.plan.box
         /\ job.stage \in {"ledger", "clear"} => ledger' = job.plan.ledger
         /\ Cands(old, ledger')
         /\ ~job.rolling =>
              /\ registry' \subseteq job.plan.records /\ binds' \subseteq job.plan.binds
              /\ box' \subseteq job.plan.box
              /\ Began \/ job.stage \in {"ledger", "clear"} =>
                   Whole(old, registry', binds', box', ledger')
<1>1. WholeJob /\ Written
  BY DEF WholeInv, WholeJob
<1>2. /\ registry' = IF job.stage = "registry" THEN job.plan.records ELSE registry
      /\ binds' = IF job.stage = "callbacks" THEN job.plan.binds ELSE binds
      /\ box' = IF job.stage = "callbacks" THEN job.plan.box ELSE box
      /\ ledger' = IF job.stage = "ledger" THEN job.plan.ledger ELSE ledger
  BY DEF Publishes, PublishesRegistry, PublishesCallbacks, PublishesLedger
<1>3. /\ job.stage \in {"registry", "callbacks", "ledger", "clear"} =>
           registry' = job.plan.records
      /\ job.stage \in {"callbacks", "ledger", "clear"} =>
           binds' = job.plan.binds /\ box' = job.plan.box
      /\ job.stage \in {"ledger", "clear"} => ledger' = job.plan.ledger
  BY <1>1, <1>2 DEF Written
<1>4. Cands(old, ledger')
  BY <1>1, <1>2 DEF WholeInv, WholeJob
<1>5. ASSUME ~job.rolling
      PROVE  /\ registry \subseteq registry' /\ registry' \subseteq job.plan.records
             /\ binds \subseteq binds' /\ binds' \subseteq job.plan.binds
             /\ box \subseteq box' /\ box' \subseteq job.plan.box
  BY <1>1, <1>2, <1>5 DEF WholeJob, Grows
<1>6. ASSUME ~job.rolling, Began \/ job.stage \in {"ledger", "clear"}
      PROVE  Whole(old, registry', binds', box', ledger')
  <2>1. CASE job.stage \in {"ledger", "clear"}
    BY <1>1, <1>3, <2>1 DEF WholeJob, WholeIn
  <2>2. CASE job.stage \notin {"ledger", "clear"}
    <3>1. ledger' = ledger /\ Whole(old, registry, binds, box, ledger)
      BY <1>2, <1>6, <2>2 DEF WholeInv
    <3>. QED
      BY <1>5, <1>6, <3>1, WholeMore
  <2>. QED
    BY <2>1, <2>2
<1>. QED
  BY <1>3, <1>4, <1>5, <1>6

\* A commit under way is one.
LEMMA JobIsOne ==
  ASSUME NEW j, j = [q |-> j.q, plan |-> j.plan, undo |-> j.undo,
                     stage |-> j.stage, rolling |-> j.rolling]
  PROVE  j # None
<1>1. "q" \in DOMAIN j
  <2>1. "q" \in DOMAIN [q |-> j.q, plan |-> j.plan, undo |-> j.undo,
                        stage |-> j.stage, rolling |-> j.rolling]
    OBVIOUS
  <2>. QED
    BY <2>1
<1>2. "q" \notin DOMAIN None
  BY DEF None
<1>. QED
  BY <1>1, <1>2

LEMMA CommitWhole ==
  ASSUME TypeInv, WholeInv, Commit
  PROVE  WholeInv'
<1>1. UNCHANGED <<old, luck>> /\ ~Idle /\ Publishes(job.stage) /\ Sources(old)
  BY DEF Commit, WholeInv
<1>. SUFFICES ASSUME Quiet PROVE WholeInv'
  BY <1>1 DEF WholeInv, Quiet, luck
<1>2. WholeJob /\ IsJob(job)
  BY <1>1 DEF WholeInv, TypeInv, JobOK
<1>3. CASE ~Last(job.stage)
  <2>1. job' = [job EXCEPT !.stage = NextStage(@)] /\ UNCHANGED <<mem, up>>
    BY <1>3 DEF Commit
  <2>2. job = [q |-> job.q, plan |-> job.plan, undo |-> job.undo,
               stage |-> job.stage, rolling |-> job.rolling]
    BY <1>2 DEF IsJob
  <2>3. job' = [q |-> job.q, plan |-> job.plan, undo |-> job.undo,
                stage |-> NextStage(job.stage), rolling |-> job.rolling]
    BY <2>1, <2>2
  <2>4. /\ job'.q = job.q /\ job'.plan = job.plan /\ job'.undo = job.undo
        /\ job'.stage = NextStage(job.stage) /\ job'.rolling = job.rolling
    BY <2>3
  <2>5. /\ NextStage(job.stage) \in {"callbacks", "ledger", "clear"} =>
             job.stage \in {"registry", "callbacks", "ledger"}
        /\ NextStage(job.stage) \in {"ledger", "clear"} => job.stage \in {"callbacks", "ledger"}
        /\ NextStage(job.stage) = "clear" => job.stage = "ledger"
    <3>1. job.stage \in Stages \ {"clear"}
      BY <1>2, <1>3, MigrationAssumption DEF IsJob, Last, Resolutions
    <3>. QED
      BY <3>1 DEF Stages, NextStage
  <2>6. Written'
    BY <1>1, <2>4, <2>5, PublishedWhole DEF Written
  <2>7. ~job.rolling => Grows'
    BY <1>1, <2>4, PublishedWhole DEF Grows
  <2>8. WholeJob'
    BY <1>1, <1>2, <2>1, <2>4, <2>6, <2>7 DEF WholeJob
  <2>9. Began' /\ ~job.rolling => Whole(old, registry', binds', box', ledger')
    <3>1. Began' => Began \/ job.stage \in {"ledger", "clear"}
      <4>1. Pending' => Pending \/ job.q # Nil
        BY <1>1, <1>2, MigrationAssumption
        DEF Publishes, PublishesIntent, IsJob, Resolutions, Pending
      <4>2. ledger' # ledger => job.stage = "ledger"
        BY <1>1 DEF Publishes, PublishesLedger
      <4>. QED
        BY <1>1, <2>1, <2>4, <4>1, <4>2 DEF Began, Idle
    <3>. QED
      BY <1>1, <3>1, PublishedWhole
  <2>10. ~Idle'
    BY <2>3, <2>4, JobIsOne DEF Idle
  <2>11. Cands(old, ledger')
    BY <1>1, PublishedWhole
  <2>. QED
    BY <1>1, <2>4, <2>8, <2>9, <2>10, <2>11 DEF WholeInv
<1>4. CASE Last(job.stage) /\ job.rolling
  <2>1. job' = None /\ UNCHANGED <<mem, up>> /\ job.stage = "clear"
    BY <1>2, <1>4 DEF Commit, WholeJob, Last
  <2>2. registry' = job.plan.records /\ binds' = job.plan.binds /\ box' = job.plan.box
        /\ ledger' = job.plan.ledger
    BY <1>1, <2>1, PublishedWhole
  <2>3. Whole(old, registry', binds', box', ledger')
    BY <1>2, <2>2 DEF WholeJob, WholeIn
  <2>4. Whole(old, mem, binds', box', ledger')
    BY <1>2, <1>4, <2>2 DEF WholeJob
  <2>5. Cands(old, ledger')
    BY <1>1, PublishedWhole
  <2>. QED
    BY <1>1, <2>1, <2>3, <2>4, <2>5 DEF WholeInv, Idle
<1>5. CASE Last(job.stage) /\ ~job.rolling
  <2>1. job' = None /\ mem' = registry' /\ job.stage \in {"ledger", "clear"}
    BY <1>5 DEF Commit, Reads, Last
  <2>. QED
    BY <1>1, <1>5, <2>1, PublishedWhole DEF WholeInv, Idle
<1>. QED
  BY <1>3, <1>4, <1>5

LEMMA CommitFailsWhole ==
  ASSUME TypeInv, WholeInv, NEW effect \in BOOLEAN, CommitFails(effect)
  PROVE  WholeInv'
<1>1. UNCHANGED <<old, mem, up>> /\ ~Idle /\ Sources(old)
  BY DEF CommitFails, WholeInv
<1>. SUFFICES ASSUME Quiet' PROVE WholeInv'
  BY <1>1 DEF WholeInv
<1>2. Quiet /\ ~job.rolling /\ (up /\ ~Undone => registry' = mem)
  BY DEF CommitFails, Mishap, Quiet
<1>3. WholeJob /\ IsJob(job)
  BY <1>1, <1>2 DEF WholeInv, TypeInv, JobOK
<1>4. Cands(old, ledger') /\ (Began => Whole(old, registry', binds', box', ledger'))
  <2>1. CASE effect
    BY <1>1, <1>2, <2>1, PublishedWhole DEF CommitFails
  <2>2. CASE ~effect
    BY <1>2, <2>2 DEF CommitFails, WholeInv, files
  <2>. QED
    BY <2>1, <2>2
<1>5. CASE Undone
  <2>1. job = [q |-> job.q, plan |-> job.plan, undo |-> job.undo,
               stage |-> job.stage, rolling |-> job.rolling]
    BY <1>3 DEF IsJob
  <2>2. job' = [q |-> job.q, plan |-> job.undo, undo |-> None,
                stage |-> "artifacts", rolling |-> TRUE]
    BY <1>5, <2>1 DEF CommitFails
  <2>3. /\ job'.q = job.q /\ job'.plan = job.undo /\ job'.undo = None
        /\ job'.stage = "artifacts" /\ job'.rolling
    BY <2>2
  <2>4. WholeJob'
    BY <1>1, <1>3, <1>5, <2>3 DEF WholeJob, Written, Undone, WholeIn
  <2>. QED
    BY <1>1, <1>4, <2>2, <2>3, <2>4 DEF WholeInv, Idle, None
<1>6. CASE ~Undone
  <2>1. job' = None /\ (up => registry' = mem)
    BY <1>2, <1>6 DEF CommitFails
  <2>2. Began' => Whole(old, registry', binds', box', ledger')
    <3>1. CASE Began
      BY <1>4, <3>1
    <3>2. CASE ~Began /\ effect
      <4>1. job.stage \notin {"ledger", "clear"} => UNCHANGED <<ledger, intent>>
        BY <1>1, <1>3, <3>2, MigrationAssumption
        DEF CommitFails, Publishes, PublishesLedger, PublishesIntent, Began, IsJob, Resolutions
      <4>2. Began' => job.stage \in {"ledger", "clear"}
        BY <1>1, <2>1, <3>2, <4>1 DEF Began, Pending, Idle
      <4>. QED
        BY <1>1, <1>2, <3>2, <4>2, PublishedWhole DEF CommitFails
    <3>3. CASE ~Began /\ ~effect
      BY <1>1, <2>1, <3>3 DEF CommitFails, files, Began, Pending, Idle
    <3>. QED
      BY <3>1, <3>2, <3>3
  <2>. QED
    BY <1>1, <1>4, <2>1, <2>2 DEF WholeInv, Idle, Began
<1>. QED
  BY <1>5, <1>6

\* A commit that begins, with a plan that accounts for everything.
LEMMA NewJobWhole ==
  ASSUME WholeInv, Quiet, Idle, UNCHANGED <<old, files, mem, up, luck>>,
         NEW q, NEW plan, NEW undo, NEW stage, Commits(q, plan, undo, stage),
         WholeIn(old, plan), Cands(old, plan.ledger),
         registry \subseteq plan.records, binds \subseteq plan.binds, box \subseteq plan.box,
         stage \in {"intent", "artifacts"} \/ (stage = "clear" /\ plan = Undo),
         q # Nil => Whole(old, registry, binds, box, ledger),
         undo # None => undo = Undo /\ up /\ q # Nil
  PROVE  WholeInv'
<1>1. /\ job'.q = q /\ job'.plan = plan /\ job'.undo = undo
      /\ job'.stage = stage /\ job'.rolling = FALSE
  BY DEF Commits
<1>2. UNCHANGED <<registry, binds, box, ledger, intent>>
  BY DEF files
<1>3. Written' /\ Grows'
  BY <1>1, <1>2 DEF Written, Grows, Undo
<1>4. Undo.records = registry /\ Undo.binds = binds /\ Undo.box = box /\ Undo.ledger = ledger
  BY DEF Undo
<1>5. WholeJob'
  <2>1. undo # None => /\ up /\ q # Nil /\ WholeIn(old, undo) /\ Cands(old, undo.ledger)
                      /\ Whole(old, mem, undo.binds, undo.box, undo.ledger)
    BY <1>4 DEF WholeInv, WholeIn
  <2>. QED
    BY <1>1, <1>3, <2>1 DEF WholeJob
<1>6. Began' => Whole(old, registry, binds, box, ledger)
  <2>1. Began' => Began \/ q # Nil
    BY <1>1, <1>2 DEF Began, Pending
  <2>. QED
    BY <2>1 DEF WholeInv
<1>. QED
  BY <1>2, <1>5, <1>6 DEF WholeInv, luck

LEMMA StartWhole ==
  ASSUME TypeInv, WholeInv, Start
  PROVE  WholeInv'
<1>1. Idle /\ ~up /\ UNCHANGED <<old, files, mem, up, luck>> /\ Sources(old)
  BY DEF Start, WholeInv
<1>. SUFFICES ASSUME Quiet PROVE WholeInv'
  BY <1>1 DEF WholeInv, Quiet, luck
<1>2. Cands(old, ledger) /\ (Pending => Whole(old, registry, binds, box, ledger))
  BY <1>1 DEF WholeInv, Began
<1>3. CASE Pending /\ Undecided(intent)
  <2>1. PICK k \in Chosen(intent) :
          Possible(intent, k) /\ Commits(intent, Resolution(intent, k), None, "intent")
    BY <1>3 DEF Start
  <2>2. intent \in Resolutions /\ ledger # None
    BY <1>3 DEF Pending, TypeInv, FilesOK, Undecided, InConflict
  <2>. DEFINE p == Resolution(intent, k)
  <2>3. /\ WholeIn(old, p) /\ Cands(old, p.ledger)
        /\ registry \subseteq p.records /\ binds \subseteq p.binds /\ box \subseteq p.box
    BY <1>1, <1>2, <1>3, <2>1, <2>2, ResolutionWhole
  <2>. HIDE DEF p
  <2>. QED
    BY <1>1, <1>2, <1>3, <2>1, <2>3, NewJobWhole DEF p
<1>4. CASE Pending /\ ~Undecided(intent)
  <2>1. Commits(intent, Undo, None, "clear")
    BY <1>4 DEF Start
  <2>2. /\ WholeIn(old, Undo) /\ Cands(old, Undo.ledger)
        /\ registry \subseteq Undo.records /\ binds \subseteq Undo.binds /\ box \subseteq Undo.box
    BY <1>2, <1>4 DEF Undo, WholeIn
  <2>. QED
    BY <1>1, <1>2, <1>4, <2>1, <2>2, NewJobWhole
<1>5. CASE ~Pending
  <2>. DEFINE p == Plan(old, registry, binds, box)
  <2>1. Commits(Nil, p, None, "artifacts")
    BY <1>5 DEF Start
  <2>2. /\ WholeIn(old, p) /\ Cands(old, p.ledger)
        /\ registry \subseteq p.records /\ binds \subseteq p.binds /\ box \subseteq p.box
    BY <1>1, ScanWhole
  <2>. HIDE DEF p
  <2>. QED
    BY <1>1, <2>1, <2>2, NewJobWhole
<1>. QED
  BY <1>3, <1>4, <1>5

LEMMA ResolveWhole ==
  ASSUME TypeInv, WholeInv, NEW q \in Resolutions, Resolve(q)
  PROVE  WholeInv'
<1>1. Idle /\ up /\ UNCHANGED <<old, files, luck>> /\ Sources(old)
  BY DEF Resolve, Drained, WholeInv
<1>. SUFFICES ASSUME Quiet PROVE WholeInv'
  BY <1>1 DEF WholeInv, Quiet, luck
<1>2. Cands(old, ledger) /\ Whole(old, registry, binds, box, ledger)
  BY <1>1 DEF WholeInv, Began
<1>3. q # Nil
  BY MigrationAssumption DEF Resolutions
<1>4. CASE Undecided(q)
  <2>. DEFINE undo == IF Pending THEN None ELSE Undo
  <2>1. PICK k \in Chosen(q) :
          /\ Possible(q, k) /\ Commits(q, Resolution(q, k), undo, "intent")
          /\ UNCHANGED <<mem, up>>
    BY <1>4 DEF Resolve
  <2>2. ledger # None
    BY <1>4 DEF Undecided, InConflict
  <2>. DEFINE p == Resolution(q, k)
  <2>3. /\ WholeIn(old, p) /\ Cands(old, p.ledger)
        /\ registry \subseteq p.records /\ binds \subseteq p.binds /\ box \subseteq p.box
    BY <1>1, <1>2, <2>1, <2>2, ResolutionWhole
  <2>4. undo # None => undo = Undo
    OBVIOUS
  <2>5. Commits(q, p, undo, "intent")
    BY <2>1
  <2>. HIDE DEF p, undo
  <2>. QED
    BY <1>1, <1>2, <1>3, <2>1, <2>3, <2>4, <2>5, NewJobWhole
<1>5. CASE ~Undecided(q) /\ Pending
  <2>1. Commits(q, Undo, None, "clear") /\ UNCHANGED <<mem, up>>
    BY <1>5 DEF Resolve
  <2>2. /\ WholeIn(old, Undo) /\ Cands(old, Undo.ledger)
        /\ registry \subseteq Undo.records /\ binds \subseteq Undo.binds /\ box \subseteq Undo.box
    BY <1>2 DEF Undo, WholeIn
  <2>. QED
    BY <1>1, <1>2, <2>1, <2>2, NewJobWhole
<1>6. CASE ~Undecided(q) /\ ~Pending
  <2>1. mem' = registry /\ UNCHANGED <<up, job>>
    BY <1>6 DEF Resolve
  <2>. QED
    BY <1>1, <1>2, <2>1 DEF WholeInv, Idle, files
<1>. QED
  BY <1>4, <1>5, <1>6

LEMMA ServeWhole ==
  ASSUME TypeInv, WholeInv, Serve
  PROVE  WholeInv'
<1>1. Idle /\ ledger # None /\ mem' = registry /\ UNCHANGED <<old, files, job, luck>>
  BY DEF Serve
<1>. SUFFICES ASSUME Quiet PROVE WholeInv'
  BY <1>1 DEF WholeInv, Quiet, luck
<1>2. Sources(old) /\ Cands(old, ledger) /\ Whole(old, registry, binds, box, ledger)
  BY <1>1 DEF WholeInv, Began
<1>. QED
  BY <1>1, <1>2 DEF WholeInv, Idle, files

\* Steps that leave the old instances, the files and the daemon alone.
LEMMA WholeKept ==
  ASSUME WholeInv, UNCHANGED <<old, files, daemon>>, Quiet' => Quiet
  PROVE  WholeInv'
<1>1. UNCHANGED <<old, registry, binds, box, ledger, intent, mem, up, job>>
  BY DEF files, daemon
<1>2. WholeJob' = WholeJob /\ Began' = Began /\ Idle' = Idle
  BY <1>1 DEF WholeJob, Written, Grows, WholeIn, Began, Pending, Idle
<1>. QED
  BY <1>1, <1>2 DEF WholeInv

\* A save writes what the daemon has in memory, and what it adds.
LEMMA SavedWhole ==
  ASSUME WholeInv, up, Idle, NEW records, Saves(records),
         Quiet => Whole(old, records, binds, box, ledger),
         UNCHANGED <<old, binds, box, ledger, intent, up, job>>
  PROVE  WholeInv'
<1>1. registry' \in {registry, records} /\ mem' \in {mem, records} /\ (Quiet' => Quiet)
  BY DEF Saves, Quiet, luck, Mishap
<1>. SUFFICES ASSUME Quiet PROVE WholeInv'
  BY <1>1 DEF WholeInv
<1>2. /\ Sources(old) /\ Cands(old, ledger) /\ Whole(old, registry, binds, box, ledger)
      /\ Whole(old, mem, binds, box, ledger)
  BY DEF WholeInv, Began
<1>3. Whole(old, registry', binds, box, ledger) /\ Whole(old, mem', binds, box, ledger)
  BY <1>1, <1>2
<1>. QED
  BY <1>2, <1>3 DEF WholeInv, Idle

LEMMA CreateWhole ==
  ASSUME TypeInv, PromiseInv, WholeInv, NEW c \in Clients, Create(c)
  PROVE  WholeInv'
<1>1. up /\ Idle /\ UNCHANGED <<old, binds, box, ledger, intent, up, job>>
  BY DEF Create, PromiseInv, JobPromises
<1>2. CASE \E r \in mem : SameIds(r, want[c])
  BY <1>1, <1>2, WholeKept DEF Create, files, daemon, luck, Quiet
<1>3. CASE ~\E r \in mem : SameIds(r, want[c])
  <2>1. Saves(mem \cup {want[c]})
    BY <1>3 DEF Create
  <2>2. ASSUME Quiet PROVE Whole(old, mem \cup {want[c]}, binds, box, ledger)
    <3>1. Whole(old, mem, binds, box, ledger)
      BY <1>1, <2>2 DEF WholeInv
    <3>. QED
      BY <3>1, WholeMore
  <2>. QED
    BY <1>1, <2>1, <2>2, SavedWhole
<1>. QED
  BY <1>2, <1>3

LEMMA AnnotateWhole ==
  ASSUME TypeInv, WholeInv, NEW r \in mem, Annotate(r)
  PROVE  WholeInv'
<1>. DEFINE s == [r EXCEPT !.body = "noted"]
            records == (mem \ {r}) \cup {s}
<1>1. up /\ Idle /\ Saves(records) /\ UNCHANGED <<old, binds, box, ledger, intent, up, job>>
  BY DEF Annotate
<1>2. s.name = r.name /\ s.session = r.session /\ s.thread = r.thread
  BY NotedRecord DEF TypeInv, MemOK, Good
<1>3. ASSUME Quiet PROVE Whole(old, records, binds, box, ledger)
  <2>1. Whole(old, mem, binds, box, ledger)
    BY <1>1, <1>3 DEF WholeInv
  <2>. HIDE DEF s
  <2>2. \A e : KeptIn(e, mem, binds, box) => KeptIn(e, records, binds, box)
    BY <1>2 DEF KeptIn, Event
  <2>. HIDE DEF records
  <2>. QED
    BY <2>1, <2>2 DEF Whole
<1>. HIDE DEF records
<1>. QED
  BY <1>1, <1>3, SavedWhole

LEMMA BindNewWhole ==
  ASSUME TypeInv, WholeInv, NEW c \in Clients, BindNew(c)
  PROVE  WholeInv'
<1>1. up /\ Idle /\ UNCHANGED <<old, registry, box, ledger, intent, mem, up, job>>
  BY DEF BindNew, daemon
<1>2. binds \subseteq binds' /\ (Quiet' => Quiet)
  BY DEF BindNew, Mishap, Quiet, luck
<1>. SUFFICES ASSUME Quiet PROVE WholeInv'
  BY <1>1, <1>2 DEF WholeInv
<1>3. /\ Sources(old) /\ Cands(old, ledger) /\ Whole(old, registry, binds, box, ledger)
      /\ Whole(old, mem, binds, box, ledger)
  BY <1>1 DEF WholeInv, Began
<1>4. Whole(old, registry, binds', box, ledger) /\ Whole(old, mem, binds', box, ledger)
  BY <1>2, <1>3, WholeMore
<1>. QED
  BY <1>1, <1>3, <1>4 DEF WholeInv, Idle

LEMMA RequestWhole ==
  ASSUME TypeInv, PromiseInv, WholeInv, NEW c \in Clients, Request(c)
  PROVE  WholeInv'
<1>1. ASSUME NEW n \in Names, Look(c, n)
      PROVE  WholeInv'
  BY <1>1, WholeKept DEF Look, luck, Quiet
<1>2. ASSUME NEW id \in New, Enter(c, id)
      PROVE  WholeInv'
  BY <1>2, WholeKept DEF Enter, luck, Quiet
<1>3. ASSUME NEW n \in Named, NEW id \in New, NEW t \in Ids, Raw(c, n, id, t)
      PROVE  WholeInv'
  BY <1>3, WholeKept DEF Raw, luck, Quiet
<1>4. CASE Refuse(c)
  BY <1>4, WholeKept DEF Refuse, luck, Quiet
<1>. QED
  BY <1>1, <1>2, <1>3, <1>4, CreateWhole, BindNewWhole DEF Request

\* A daemon that ends leaves the files, whole unless it was rolling back.
LEMMA DownWhole ==
  ASSUME WholeInv, Down, Quiet' => Quiet /\ (Idle \/ ~job.rolling)
  PROVE  WholeInv'
<1>1. /\ UNCHANGED <<old, registry, binds, box, ledger, intent>>
      /\ job' = None /\ up' = FALSE
  BY DEF Down, files
<1>2. Idle' /\ ~up' /\ (Began' => Began)
  BY <1>1 DEF Idle, Began, Pending
<1>. QED
  BY <1>1, <1>2 DEF WholeInv

LEMMA EndWhole ==
  ASSUME WholeInv, Stop \/ Crash
  PROVE  WholeInv'
<1>1. CASE Stop
  BY <1>1, DownWhole DEF Stop, Drained, luck, Quiet
<1>2. CASE Crash
  <2>1. Quiet' => Quiet /\ (Idle \/ ~job.rolling)
    BY <1>2 DEF Crash, Mishap, Quiet
  <2>. QED
    BY <1>2, <2>1, DownWhole DEF Crash
<1>. QED
  BY <1>1, <1>2

LEMMA SourceWhole ==
  ASSUME TypeInv, WholeInv, NEW e \in old, SourceChanges(e)
  PROVE  WholeInv'
<1>1. /\ Quiet' => Quiet
      /\ UNCHANGED <<registry, binds, box, ledger, intent, mem, up, job>>
  BY DEF SourceChanges, Mishap, Quiet, files, daemon
<1>2. \A R, B, X, l : Whole(old, R, B, X, l) => Whole(old', R, B, X, l)
  BY NotedWhole
<1>3. Sources(old') /\ \A l : Cands(old, l) => Cands(old', l)
  BY NotedSources DEF WholeInv
<1>. SUFFICES ASSUME Quiet PROVE WholeInv'
  BY <1>1, <1>3 DEF WholeInv
<1>4. ~Idle => WholeJob'
  BY <1>1, <1>2, <1>3 DEF WholeInv, WholeJob, WholeIn, Written, Grows
<1>. QED
  BY <1>1, <1>2, <1>3, <1>4 DEF WholeInv, Began, Pending, Idle

LEMMA InitWhole ==
  Init => WholeInv
<1>. SUFFICES ASSUME Init PROVE WholeInv
  OBVIOUS
<1>1. Sources(old)
  BY WorldsAssumption DEF Init, Sources
<1>2. Idle /\ ~up /\ ledger = None /\ ~Pending
  BY DEF Init, Idle, Pending
<1>. QED
  BY <1>1, <1>2 DEF WholeInv, Cands, Began

LEMMA NextWhole ==
  TypeInv /\ PromiseInv /\ WholeInv /\ [Next]_vars => WholeInv'
<1>. SUFFICES ASSUME TypeInv, PromiseInv, WholeInv, [Next]_vars
              PROVE  WholeInv'
  OBVIOUS
<1>1. CASE UNCHANGED vars
  BY <1>1, WholeKept DEF vars, luck, Quiet
<1>. QED
  BY <1>1, StartWhole, ServeWhole, CommitWhole, CommitFailsWhole, ResolveWhole, RequestWhole,
     AnnotateWhole, EndWhole, SourceWhole DEF Next

LEMMA WholeInvImpliesNothingLost ==
  WholeInv => NothingLost
BY DEF WholeInv, NothingLost, NeverDiscarded, Quiet, Began, Whole, KeptIn, OpenIn, PassedIn,
       Kept, Open, PassedOver

\* Once the migration is complete no worker of an old instance is gone, whatever
\* crashed, failed, was resolved, rolled back or recovered since; except after a
\* resolution that a daemon forgot, or a rollback that did not come to its end.
THEOREM NoWorkerIsLost ==
  Spec => []NothingLost
<1>1. Init => TypeInv /\ PromiseInv /\ WholeInv
  BY InitTypes, InitPromises, InitWhole
<1>2. TypeInv /\ PromiseInv /\ WholeInv /\ [Next]_vars => (TypeInv /\ PromiseInv /\ WholeInv)'
  BY NextTypes, NextPromises, NextWhole
<1>3. TypeInv /\ PromiseInv /\ WholeInv => NothingLost
  BY WholeInvImpliesNothingLost
<1>. QED
  BY <1>1, <1>2, <1>3, PTL DEF Spec

-----------------------------------------------------------------------------
(* A scan that is begun again.                                             *)

\* The daemon only serves, and a resolution is only begun, over a ledger that
\* was written; a commit writes a ledger, and a scan is no one's resolution.
Decided ==
  /\ up \/ Pending \/ (~Idle /\ job.q # Nil) => ledger # None
  /\ ~Idle =>
       /\ job.plan.ledger # None /\ (job.undo # None => job.undo.ledger # None)
       /\ job.q = Nil => ~up /\ ~Pending /\ job.undo = None /\ ~job.rolling

LEMMA LedgerIsOne ==
  ASSUME NEW k, NEW r
  PROVE  [conflicts |-> k, resolutions |-> r] # None
<1>1. "conflicts" \in DOMAIN [conflicts |-> k, resolutions |-> r]
  OBVIOUS
<1>2. "conflicts" \notin DOMAIN None
  BY DEF None
<1>. QED
  BY <1>1, <1>2

LEMMA StageDecided ==
  ASSUME TypeInv, Decided, ~Idle, Publishes(job.stage)
  PROVE  /\ ledger' = ledger \/ (ledger' = job.plan.ledger /\ job.stage = "ledger")
         /\ ledger # None => ledger' # None
         /\ job.stage = "ledger" => ledger' = job.plan.ledger /\ ledger' # None
         /\ Pending' => Pending \/ job.q # Nil
<1>1. ledger' = IF job.stage = "ledger" THEN job.plan.ledger ELSE ledger
  BY DEF Publishes, PublishesLedger
<1>2. Pending' => Pending \/ job.q # Nil
  BY MigrationAssumption
  DEF TypeInv, JobOK, Publishes, PublishesIntent, IsJob, Resolutions, Pending
<1>. QED
  BY <1>1, <1>2 DEF Decided

LEMMA CommitDecided ==
  ASSUME TypeInv, Decided, Commit
  PROVE  Decided'
<1>1. ~Idle /\ Publishes(job.stage) /\ IsJob(job)
  BY DEF Commit, TypeInv, JobOK
<1>2. CASE ~Last(job.stage)
  <2>1. job' = [job EXCEPT !.stage = NextStage(@)] /\ UNCHANGED <<mem, up>>
    BY <1>2 DEF Commit
  <2>2. job = [q |-> job.q, plan |-> job.plan, undo |-> job.undo,
               stage |-> job.stage, rolling |-> job.rolling]
    BY <1>1 DEF IsJob
  <2>3. /\ job'.q = job.q /\ job'.plan = job.plan /\ job'.undo = job.undo
        /\ job'.rolling = job.rolling
    BY <2>1, <2>2
  <2>. QED
    BY <1>1, <2>1, <2>3, StageDecided DEF Decided
<1>3. CASE Last(job.stage)
  <2>1. job' = None
    BY <1>3 DEF Commit, Reads
  <2>2. job.q # Nil \/ job.stage = "ledger"
    BY <1>3 DEF Last
  <2>. QED
    BY <1>1, <2>1, <2>2, StageDecided DEF Decided, Idle
<1>. QED
  BY <1>2, <1>3

LEMMA CommitFailsDecided ==
  ASSUME TypeInv, Decided, NEW effect \in BOOLEAN, CommitFails(effect)
  PROVE  Decided'
<1>1. ~Idle /\ IsJob(job) /\ up' = up
  BY DEF CommitFails, TypeInv, JobOK
<1>2. (ledger # None => ledger' # None) /\ (Pending' => Pending \/ job.q # Nil)
  <2>1. CASE effect
    BY <1>1, <2>1, StageDecided DEF CommitFails
  <2>2. CASE ~effect
    BY <2>2 DEF CommitFails, files, Pending
  <2>. QED
    BY <2>1, <2>2
<1>3. CASE Undone
  <2>1. job = [q |-> job.q, plan |-> job.plan, undo |-> job.undo,
               stage |-> job.stage, rolling |-> job.rolling]
    BY <1>1 DEF IsJob
  <2>2. job' = [q |-> job.q, plan |-> job.undo, undo |-> None,
                stage |-> "artifacts", rolling |-> TRUE]
    BY <1>3, <2>1 DEF CommitFails
  <2>3. job'.q = job.q /\ job'.plan = job.undo /\ job'.undo = None
    BY <2>2
  <2>. QED
    BY <1>1, <1>2, <1>3, <2>3 DEF Decided, Undone
<1>4. CASE ~Undone
  BY <1>1, <1>2, <1>4 DEF CommitFails, Decided, Idle
<1>. QED
  BY <1>3, <1>4

LEMMA NewJobDecided ==
  ASSUME Decided, NEW q, NEW plan, NEW undo, NEW stage, Commits(q, plan, undo, stage),
         UNCHANGED <<files, up>>, q # Nil => ledger # None,
         plan.ledger # None, undo # None => undo.ledger # None,
         q = Nil => ~up /\ ~Pending /\ undo = None
  PROVE  Decided'
<1>1. /\ job'.q = q /\ job'.plan = plan /\ job'.undo = undo /\ job'.rolling = FALSE
  BY DEF Commits
<1>. QED
  BY <1>1 DEF Decided, files, Pending

LEMMA NextDecided ==
  TypeInv /\ Decided /\ [Next]_vars => Decided'
<1>. SUFFICES ASSUME TypeInv, Decided, [Next]_vars
              PROVE  Decided'
  OBVIOUS
<1>1. \A q, k : Resolution(q, k).ledger # None
  BY LedgerIsOne DEF Resolution
<1>2. \A R, B, X : Plan(old, R, B, X).ledger # None
  BY LedgerIsOne DEF Plan
<1>3. Undo.ledger = ledger
  BY DEF Undo
<1>4. \A q \in Resolutions : q # Nil
  BY MigrationAssumption DEF Resolutions
<1>5. CASE Start
  <2>1. UNCHANGED <<files, up>> /\ ~up /\ (Pending => intent # Nil /\ ledger # None)
    BY <1>5 DEF Start, Pending, Decided
  <2>2. CASE Pending /\ Undecided(intent)
    <3>1. PICK k : Commits(intent, Resolution(intent, k), None, "intent")
      BY <1>5, <2>2 DEF Start
    <3>. QED
      BY <1>1, <2>1, <2>2, <3>1, NewJobDecided
  <2>3. CASE Pending /\ ~Undecided(intent)
    <3>1. Commits(intent, Undo, None, "clear")
      BY <1>5, <2>3 DEF Start
    <3>. QED
      BY <1>3, <2>1, <2>3, <3>1, NewJobDecided
  <2>4. CASE ~Pending
    <3>1. Commits(Nil, Plan(old, registry, binds, box), None, "artifacts")
      BY <1>5, <2>4 DEF Start
    <3>. QED
      BY <1>2, <2>1, <2>4, <3>1, NewJobDecided
  <2>. QED
    BY <2>2, <2>3, <2>4
<1>6. ASSUME NEW q \in Resolutions, Resolve(q)
      PROVE  Decided'
  <2>1. UNCHANGED <<files, up>> /\ up /\ Idle /\ q # Nil /\ ledger # None
    <3>1. up' = up
      BY <1>6 DEF Resolve
    <3>. QED
      BY <1>4, <1>6, <3>1 DEF Resolve, Drained, Decided
  <2>2. CASE Undecided(q)
    <3>. DEFINE undo == IF Pending THEN None ELSE Undo
    <3>1. PICK k : Commits(q, Resolution(q, k), undo, "intent")
      BY <1>6, <2>2 DEF Resolve
    <3>2. undo # None => undo.ledger # None
      BY <1>3, <2>1
    <3>. HIDE DEF undo
    <3>. QED
      BY <1>1, <2>1, <3>1, <3>2, NewJobDecided
  <2>3. CASE ~Undecided(q) /\ Pending
    <3>1. Commits(q, Undo, None, "clear")
      BY <1>6, <2>3 DEF Resolve
    <3>. QED
      BY <1>3, <2>1, <3>1, NewJobDecided
  <2>4. CASE ~Undecided(q) /\ ~Pending
    BY <1>6, <2>1, <2>4 DEF Resolve, Decided, Idle, files, Pending
  <2>. QED
    BY <2>2, <2>3, <2>4
<1>7. CASE UNCHANGED <<ledger, intent, up, job>>
  BY <1>7 DEF Decided, Idle, Pending
<1>8. CASE Serve
  BY <1>8 DEF Serve, Decided, Idle, Pending, files
<1>9. CASE Stop \/ Crash
  BY <1>9 DEF Stop, Crash, Down, Decided, Idle, Pending, files
<1>10. ASSUME NEW c \in Clients, Request(c)
       PROVE  UNCHANGED <<ledger, intent, up, job>>
  BY <1>10 DEF Request, Look, Enter, Raw, Refuse, Create, BindNew, files, daemon
<1>11. ASSUME NEW r \in mem, Annotate(r)
       PROVE  UNCHANGED <<ledger, intent, up, job>>
  BY <1>11 DEF Annotate
<1>12. ASSUME NEW e \in old, SourceChanges(e)
       PROVE  UNCHANGED <<ledger, intent, up, job>>
  BY <1>12 DEF SourceChanges, files, daemon
<1>13. CASE UNCHANGED vars
  BY <1>7, <1>13 DEF vars, files, daemon
<1>. QED
  BY <1>5, <1>6, <1>7, <1>8, <1>9, <1>10, <1>11, <1>12, <1>13,
     CommitDecided, CommitFailsDecided DEF Next

LEMMA InitDecided ==
  Init => Decided
BY DEF Init, Decided, Idle, Pending

\* A scan over what an interrupted scan published plans the same: what it finds
\* there is the old instances' own.
Contradicted(E, A, B, X) ==
  {e.rec.session : e \in {f \in E :
     \/ Clashes(f.rec, A)
     \/ f.token # Nil /\ ClashingBind(Bind(f), B)
     \/ f.event # Nil /\ ClashingEvent(Event(f, f.rec.name), X)}}

LEMMA PlanAgain ==
  ASSUME NEW E, NEW R, NEW S, NEW B, NEW X,
         S \in {R, Plan(E, R, {}, {}).records},
         B \in {{}, Plan(E, R, {}, {}).binds}, X \in {{}, Plan(E, R, {}, {}).box}
  PROVE  Plan(E, S, B, X) = Plan(E, R, {}, {})
<1>. DEFINE recs == {g.rec : g \in E}
            p == Plan(E, R, {}, {})
            names(Q) == {e.rec.name : e \in {f \in E : f.rec.session \in Q}}
            taken(Q) == {e \in E : e.rec.session \notin Q /\ e.rec.name \notin names(Q)}
            ledgerOf(Q) == [conflicts |-> {[name |-> n,
                                            cands |-> {Candidate(e, E) : e \in
                                                         {f \in E : f.rec.name = n}}] : n \in names(Q)},
                            resolutions |-> {}]
            recsOf(Q) == {e.rec : e \in taken(Q)}
            planOf(Q, T, C, Y) ==
              [records |-> T \cup recsOf(Q), binds |-> C \cup Binds(taken(Q)),
               box |-> Y \cup Events(taken(Q)), artifacts |-> Events(taken(Q)),
               ledger |-> ledgerOf(Q)]
            Q0 == Quarantine(E, R, {}, {})
            Q1 == Quarantine(E, S, B, X)
<1>1. /\ Q0 = Contradicted(E, recs \cup R, Binds(E) \cup {}, Events(E) \cup {})
      /\ Q1 = Contradicted(E, recs \cup S, Binds(E) \cup B, Events(E) \cup X)
  BY DEF Quarantine, Contradicted
<1>2. p = planOf(Q0, R, {}, {}) /\ Plan(E, S, B, X) = planOf(Q1, S, B, X)
  BY DEF Plan
<1>3. /\ recsOf(Q0) \subseteq recs /\ Binds(taken(Q0)) \subseteq Binds(E)
      /\ Events(taken(Q0)) \subseteq Events(E)
  BY DEF Binds, Events
<1>. HIDE DEF recs, names, taken, ledgerOf, recsOf, Q0, Q1, p
<1>4. /\ p.records = R \cup recsOf(Q0) /\ p.binds = {} \cup Binds(taken(Q0))
      /\ p.box = {} \cup Events(taken(Q0))
  BY <1>2
<1>5. /\ S \in {R, p.records} /\ B \in {{}, p.binds} /\ X \in {{}, p.box}
  BY DEF p
<1>6. /\ recs \cup S = recs \cup R /\ Binds(E) \cup B = Binds(E) \cup {}
      /\ Events(E) \cup X = Events(E) \cup {}
  BY <1>3, <1>4, <1>5
<1>7. Q1 = Q0
  BY <1>1, <1>6
<1>8. /\ S \cup recsOf(Q0) = R \cup recsOf(Q0)
      /\ B \cup Binds(taken(Q0)) = {} \cup Binds(taken(Q0))
      /\ X \cup Events(taken(Q0)) = {} \cup Events(taken(Q0))
  BY <1>4, <1>5
<1>9. planOf(Q1, S, B, X) = planOf(Q0, R, {}, {})
  BY <1>7, <1>8
<1>. QED
  BY <1>2, <1>9 DEF p

\* Before the first ledger is written, the files are those the daemon found, or
\* those of the scan of what it found; a scan under way writes nothing else.
Scanned(w, plan) ==
  /\ old = w.old
  /\ registry \in {w.records, plan.records}
  /\ \/ binds = {} /\ box = {}
     \/ binds = plan.binds /\ box = plan.box
  /\ ~Idle =>
       /\ job.plan = plan
       /\ job.stage \in {"callbacks", "ledger"} => registry = plan.records
       /\ job.stage = "ledger" => binds = plan.binds /\ box = plan.box
Found(w) == Plan(w.old, w.records, {}, {})
ScanInv ==
  ledger = None /\ "source" \notin harm => \E w \in Worlds : Scanned(w, Found(w))

LEMMA InitScans ==
  Init => ScanInv
BY DEF Init, ScanInv, Scanned, Idle

\* A stage of a scan.
LEMMA ScanStage ==
  ASSUME TypeInv, Decided, ledger = None, ~Idle, NEW w, NEW plan, Scanned(w, plan),
         Publishes(job.stage)
  PROVE  /\ job.q = Nil /\ job.undo = None /\ ~job.rolling /\ ~up
         /\ job.stage \in {"artifacts", "registry", "callbacks", "ledger"}
         /\ registry' = IF job.stage = "registry" THEN plan.records ELSE registry
         /\ binds' = IF job.stage = "callbacks" THEN plan.binds ELSE binds
         /\ box' = IF job.stage = "callbacks" THEN plan.box ELSE box
         /\ ledger' = IF job.stage = "ledger" THEN plan.ledger ELSE None
<1>1. job.q = Nil /\ job.undo = None /\ ~job.rolling /\ ~up /\ job.plan = plan
  BY DEF Decided, Scanned
<1>2. job.stage \in {"artifacts", "registry", "callbacks", "ledger"}
  BY <1>1, MigrationAssumption DEF TypeInv, JobOK, IsJob, Stages, Resolutions
<1>. QED
  BY <1>1, <1>2
  DEF Publishes, PublishesRegistry, PublishesCallbacks, PublishesLedger

LEMMA CommitScans ==
  ASSUME TypeInv, Decided, ScanInv, Commit
  PROVE  ScanInv'
<1>1. ~Idle /\ Publishes(job.stage) /\ UNCHANGED <<old, luck>> /\ IsJob(job)
  BY DEF Commit, TypeInv, JobOK
<1>. SUFFICES ASSUME ledger' = None, "source" \notin harm PROVE ScanInv'
  BY <1>1 DEF ScanInv, luck
<1>2. ledger = None
  BY <1>1, StageDecided
<1>3. PICK w \in Worlds : Scanned(w, Found(w))
  BY <1>2 DEF ScanInv
<1>. DEFINE plan == Found(w)
<1>4. /\ job.q = Nil /\ ~job.rolling
      /\ job.stage \in {"artifacts", "registry", "callbacks"}
      /\ registry' = IF job.stage = "registry" THEN plan.records ELSE registry
      /\ binds' = IF job.stage = "callbacks" THEN plan.binds ELSE binds
      /\ box' = IF job.stage = "callbacks" THEN plan.box ELSE box
  <2>1. job.stage # "ledger"
    BY <1>1, StageDecided
  <2>. QED
    BY <1>1, <1>2, <1>3, <2>1, ScanStage
<1>5. job' = [job EXCEPT !.stage = NextStage(@)]
  BY <1>4 DEF Commit, Last
<1>6. job = [q |-> job.q, plan |-> job.plan, undo |-> job.undo,
             stage |-> job.stage, rolling |-> job.rolling]
  BY <1>1 DEF IsJob
<1>7. job'.plan = job.plan /\ job'.stage = NextStage(job.stage)
  BY <1>5, <1>6
<1>8. /\ job.stage = "artifacts" => job'.stage = "registry"
      /\ job.stage = "registry" => job'.stage = "callbacks"
      /\ job.stage = "callbacks" => job'.stage = "ledger"
  BY <1>7 DEF NextStage
<1>. HIDE DEF plan
<1>9. Scanned(w, plan)'
  BY <1>1, <1>3, <1>4, <1>7, <1>8 DEF Scanned, plan
<1>. QED
  BY <1>9 DEF ScanInv, plan

LEMMA CommitFailsScans ==
  ASSUME TypeInv, Decided, ScanInv, NEW effect \in BOOLEAN, CommitFails(effect)
  PROVE  ScanInv'
<1>1. ~Idle /\ old' = old /\ ("source" \in harm => "source" \in harm')
  BY DEF CommitFails, Mishap
<1>. SUFFICES ASSUME ledger' = None, "source" \notin harm PROVE ScanInv'
  BY <1>1 DEF ScanInv
<1>2. ledger = None
  BY <1>1, StageDecided DEF CommitFails, files
<1>3. PICK w \in Worlds : Scanned(w, Found(w))
  BY <1>2 DEF ScanInv
<1>. DEFINE plan == Found(w)
<1>4. job.undo = None
  BY <1>1, <1>2 DEF Decided
<1>5. job' = None
  BY <1>4 DEF CommitFails, Undone
<1>6. /\ registry' \in {registry, plan.records}
      /\ (binds' = binds /\ box' = box) \/ (binds' = plan.binds /\ box' = plan.box)
  <2>1. CASE effect
    BY <1>1, <1>2, <1>3, <2>1, ScanStage DEF CommitFails
  <2>2. CASE ~effect
    BY <2>2 DEF CommitFails, files
  <2>. QED
    BY <2>1, <2>2
<1>. HIDE DEF plan
<1>7. Scanned(w, plan)'
  BY <1>1, <1>3, <1>5, <1>6 DEF Scanned, Idle, plan
<1>. QED
  BY <1>7 DEF ScanInv, plan

LEMMA StartScans ==
  ASSUME TypeInv, Decided, ScanInv, Start
  PROVE  ScanInv'
<1>1. Idle /\ UNCHANGED <<old, files, luck>>
  BY DEF Start
<1>. SUFFICES ASSUME ledger = None, "source" \notin harm PROVE ScanInv'
  BY <1>1 DEF ScanInv, luck, files
<1>2. PICK w \in Worlds : Scanned(w, Found(w))
  BY DEF ScanInv
<1>3. ~Pending
  BY DEF Decided
<1>4. Commits(Nil, Plan(old, registry, binds, box), None, "artifacts")
  BY <1>3 DEF Start
<1>5. Plan(old, registry, binds, box) = Found(w)
  BY <1>2, PlanAgain DEF Scanned, Found
<1>. DEFINE plan == Found(w)
<1>. HIDE DEF plan
<1>6. job'.plan = plan /\ job'.stage = "artifacts"
  BY <1>4, <1>5 DEF Commits, plan
<1>7. Scanned(w, plan)'
  BY <1>1, <1>2, <1>6 DEF Scanned, files, plan
<1>. QED
  BY <1>7 DEF ScanInv, plan

LEMMA NextScans ==
  TypeInv /\ Decided /\ ScanInv /\ [Next]_vars => ScanInv'
<1>. SUFFICES ASSUME TypeInv, Decided, ScanInv, [Next]_vars
              PROVE  ScanInv'
  OBVIOUS
<1>1. ASSUME UNCHANGED <<old, files>>, job' = job \/ job' = None, harm \subseteq harm'
      PROVE  ScanInv'
  BY <1>1 DEF ScanInv, Scanned, Idle, files
<1>2. ASSUME ledger' = ledger, ledger # None
      PROVE  ScanInv'
  BY <1>2 DEF ScanInv
<1>3. up => ledger # None
  BY DEF Decided
<1>4. ASSUME NEW q \in Resolutions, Resolve(q)
      PROVE  ledger' = ledger /\ up
  BY <1>4 DEF Resolve, Drained, files
<1>5. ASSUME NEW c \in Clients, Request(c)
      PROVE  ledger' = ledger /\ up
  BY <1>5 DEF Request, Look, Enter, Raw, Refuse, Create, BindNew, files
<1>6. ASSUME NEW r \in mem, Annotate(r)
      PROVE  ledger' = ledger /\ up
  BY <1>6 DEF Annotate
<1>7. CASE Serve
  BY <1>2, <1>7 DEF Serve, files
<1>8. CASE Stop \/ Crash
  BY <1>1, <1>8 DEF Stop, Crash, Down, Mishap, luck
<1>9. ASSUME NEW e \in old, SourceChanges(e)
      PROVE  ScanInv'
  BY <1>9 DEF SourceChanges, Mishap, ScanInv
<1>10. CASE UNCHANGED vars
  BY <1>1, <1>10 DEF vars, daemon, luck
<1>. QED
  BY <1>2, <1>3, <1>4, <1>5, <1>6, <1>7, <1>8, <1>9, <1>10,
     StartScans, CommitScans, CommitFailsScans DEF Next

\* The step that writes the first ledger ends a scan, of the first files.
LEMMA StepRepairs ==
  ASSUME TypeInv, Decided, ScanInv, [Next]_vars, ledger = None, ledger' # None,
         "source" \notin harm
  PROVE  \E w \in Worlds :
           LET plan == Plan(w.old, w.records, {}, {}) IN
           /\ old = w.old
           /\ registry' = plan.records /\ binds' = plan.binds
           /\ box' = plan.box /\ ledger' = plan.ledger
<1>1. Commit \/ \E effect \in BOOLEAN : CommitFails(effect)
  <2>1. ~(UNCHANGED vars) /\ ~Start /\ ~Serve /\ ~Stop /\ ~Crash
    BY DEF vars, files, Start, Serve, Stop, Crash, Down
  <2>2. \A q \in Resolutions : ~Resolve(q)
    BY DEF Resolve, files
  <2>3. \A c \in Clients : ~Request(c)
    BY DEF Request, Look, Enter, Raw, Refuse, Create, BindNew, files
  <2>4. (\A r \in mem : ~Annotate(r)) /\ (\A e \in old : ~SourceChanges(e))
    BY DEF Annotate, SourceChanges, files
  <2>. QED
    BY <2>1, <2>2, <2>3, <2>4 DEF Next
<1>2. ~Idle /\ Publishes(job.stage)
  BY <1>1 DEF Commit, CommitFails, files
<1>3. PICK w \in Worlds : Scanned(w, Found(w))
  BY DEF ScanInv
<1>. DEFINE plan == Found(w)
<1>. HIDE DEF plan
<1>4. /\ job.stage = "ledger" /\ registry' = registry /\ binds' = binds /\ box' = box
      /\ ledger' = plan.ledger
  <2>1. Scanned(w, plan)
    BY <1>3 DEF plan
  <2>. QED
    BY <1>2, <2>1, ScanStage
<1>5. /\ old = w.old /\ registry' = plan.records /\ binds' = plan.binds
      /\ box' = plan.box /\ ledger' = plan.ledger
  BY <1>2, <1>3, <1>4 DEF Scanned, plan
<1>. QED
  BY <1>5 DEF plan, Found

\* A scan that was interrupted anywhere, any number of times, and begun again
\* over the files it had published, ends with what one scan of the first files
\* would have made.
THEOREM ScansRepair ==
  Spec => ScanRepairs
<1>1. Init => TypeInv /\ Decided /\ ScanInv
  BY InitTypes, InitDecided, InitScans
<1>2. TypeInv /\ Decided /\ ScanInv /\ [Next]_vars => (TypeInv /\ Decided /\ ScanInv)'
  BY NextTypes, NextDecided, NextScans
<1>3. TypeInv /\ Decided /\ ScanInv /\ [Next]_vars =>
        [ledger = None /\ ledger' # None /\ "source" \notin harm =>
           \E w \in Worlds :
             LET plan == Plan(w.old, w.records, {}, {}) IN
             /\ old = w.old
             /\ registry' = plan.records /\ binds' = plan.binds
             /\ box' = plan.box /\ ledger' = plan.ledger]_vars
  BY StepRepairs
<1>. QED
  BY <1>1, <1>2, <1>3, PTL DEF Spec, ScanRepairs

-----------------------------------------------------------------------------
(* A resolution that was begun can be ended.                               *)

\* No write failed so that a live daemon goes on with an intent it did not ask
\* for, or without what it published; no rollback was cut off; no source changed.
Calm == harm \cap {"intent", "forgotten", "rollback", "source"} = {}

Mendable(q) == IF Undecided(q) THEN \E k \in Chosen(q) : Possible(q, k) ELSE Settled(q)

\* The commit of a resolution: its intent is there, the files it has written do
\* not stand in its way, and the plan is what it would be made of them.
Underway(q) ==
  /\ intent = q \/ (job.stage = "intent" /\ intent = Nil)
  /\ IF job.stage = "clear" THEN Settled(q)
     ELSE /\ Undecided(q) /\ (up => job.undo # None)
          /\ \E k \in Chosen(q) : Possible(q, k) /\ job.plan = Resolution(q, k)

MendInv == Calm => \A q \in Resolutions :
  /\ Idle /\ intent = q => Mendable(q) /\ (up => Settled(q) /\ Granted(q, mem))
  /\ ~Idle /\ ~job.rolling /\ job.q = q => Underway(q)

LEMMA SettledIsDecided ==
  ASSUME NEW q, Settled(q)
  PROVE  ~Undecided(q) /\ Mendable(q)
BY DEF Settled, Undecided, Mendable

\* While the files stay as they are, so does what can be made of them.
LEMMA MendSame ==
  ASSUME NEW q, UNCHANGED <<old, registry, binds, box, artifacts, ledger>>
  PROVE  /\ Settled(q)' <=> Settled(q)
         /\ Undecided(q)' <=> Undecided(q)
         /\ Chosen(q)' = Chosen(q)
         /\ \A k : (Possible(q, k)' <=> Possible(q, k)) /\ Resolution(q, k)' = Resolution(q, k)
         /\ Mendable(q)' <=> Mendable(q)
<1>1. (Settled(q)' <=> Settled(q)) /\ (Undecided(q)' <=> Undecided(q))
  BY DEF Settled, Holds, Undecided, InConflict, Target
<1>2. Chosen(q)' = Chosen(q)
  BY DEF Chosen
<1>3. ASSUME NEW k PROVE Resolution(q, k)' = Resolution(q, k)
  BY DEF Resolution, Source, Remaining, Target
<1>4. ASSUME NEW k PROVE Possible(q, k)' <=> Possible(q, k)
  BY <1>2, <1>3 DEF Possible, Unchanged, Target
<1>5. Mendable(q)' <=> Mendable(q)
  BY <1>1, <1>2, <1>4 DEF Mendable
<1>. QED
  BY <1>1, <1>2, <1>3, <1>4, <1>5

\* What a candidate brings with it does not contradict itself.
LEMMA SourceAgrees ==
  ASSUME Sources(old), NEW q, NEW k
  PROVE  /\ \A b, c \in Binds(Source(k)) : b = c
         /\ \A v, w \in {Event(e, Target(q)) : e \in {f \in Source(k) : f.event # Nil}} :
              v.id = w.id => v = w
<1>1. \A e, f \in Source(k) : e.rec = k.rec /\ e.token = f.token
  BY DEF Source, Sources, SameIds
<1>2. \A b, c \in Binds(Source(k)) : b = c
  BY <1>1 DEF Binds, Bind
<1>3. ASSUME NEW v \in {Event(e, Target(q)) : e \in {f \in Source(k) : f.event # Nil}},
             NEW w \in {Event(e, Target(q)) : e \in {f \in Source(k) : f.event # Nil}},
             v.id = w.id
      PROVE  v = w
  BY <1>1, <1>3 DEF Event
<1>. QED
  BY <1>2, <1>3

\* A stage of a resolution's commit leaves the resolution possible, with the
\* same plan, or settled once the ledger is written.
LEMMA StageMends ==
  ASSUME TypeInv, WholeInv, Quiet, ~Idle, ~job.rolling, NEW q \in Resolutions, job.q = q,
         ledger # None, Underway(q), job.stage # "clear", Publishes(job.stage), old' = old
  PROVE  IF job.stage = "ledger" THEN Settled(q)'
         ELSE Undecided(q)' /\ \E k \in Chosen(q)' : Possible(q, k)' /\ job.plan = Resolution(q, k)'
<1>1. PICK k \in Chosen(q) : Possible(q, k) /\ job.plan = Resolution(q, k)
  BY DEF Underway
<1>2. Undecided(q)
  BY DEF Underway
<1>. DEFINE r == [k.rec EXCEPT !.name = Target(q)]
            N == Binds(Source(k))
            events == {Event(e, Target(q)) : e \in {f \in Source(k) : f.event # Nil}}
<1>3. /\ job.plan.records = registry \cup {r} /\ job.plan.binds = binds \cup N
      /\ job.plan.box = box \cup events /\ job.plan.artifacts = events
      /\ job.plan.ledger.resolutions = ledger.resolutions \cup {q}
  BY <1>1 DEF Resolution
<1>4. r.name = Target(q) /\ r.thread = q.thread
  BY ChosenRecord, TargetNamed, RenamedRecord
<1>5. /\ \A b, c \in N : b = c
      /\ \A v, w \in events : v.id = w.id => v = w
  BY SourceAgrees DEF WholeInv
<1>6. /\ ~Clashes(r, registry)
      /\ \A b \in binds \cup N : ~ClashingBind(b, binds)
      /\ \A v \in events : ~ClashingEvent(v, box \cup artifacts)
  BY <1>1, <1>3 DEF Possible
<1>7. /\ registry' = IF job.stage = "registry" THEN job.plan.records ELSE registry
      /\ binds' = IF job.stage = "callbacks" THEN job.plan.binds ELSE binds
      /\ box' = IF job.stage = "callbacks" THEN job.plan.box ELSE box
      /\ artifacts' = IF job.stage = "artifacts" THEN artifacts \cup job.plan.artifacts ELSE artifacts
      /\ ledger' = IF job.stage = "ledger" THEN job.plan.ledger ELSE ledger
  BY DEF Publishes, PublishesRegistry, PublishesCallbacks, PublishesLedger, PublishesArtifacts
<1>8. CASE job.stage = "ledger"
  <2>1. registry' = registry /\ registry = job.plan.records
    BY <1>7, <1>8 DEF WholeInv, WholeJob, Written
  <2>. HIDE DEF r
  <2>2. \E x \in registry' : x.name = Target(q) /\ x.thread = q.thread
    BY <1>3, <1>4, <2>1
  <2>3. q \in ledger'.resolutions
    BY <1>3, <1>7, <1>8
  <2>. QED
    BY <1>8, <2>2, <2>3 DEF Settled, Holds, Target
<1>9. CASE job.stage # "ledger"
  <2>1. ledger' = ledger
    BY <1>7, <1>9
  <2>2. Undecided(q)' /\ Chosen(q)' = Chosen(q) /\ Unchanged(k)'
    BY <1>1, <1>2, <2>1 DEF Undecided, InConflict, Chosen, Possible, Unchanged
  <2>3. Source(k)' = Source(k) /\ Remaining(q, k)' = Remaining(q, k)
    BY <2>1 DEF Source, Remaining
  <2>. DEFINE R == registry \cup {r}
  <2>. HIDE DEF r, N, events
  <2>4. /\ registry' \in {registry, registry \cup {r}} /\ binds' \in {binds, binds \cup N}
        /\ box' \in {box, box \cup events} /\ artifacts' \in {artifacts, artifacts \cup events}
    BY <1>3, <1>7
  <2>5. /\ registry' \cup {r} = registry \cup {r} /\ binds' \cup N = binds \cup N
        /\ box' \cup events = box \cup events
    BY <2>4
  <2>6. Resolution(q, k)' = Resolution(q, k)
    <3>1. Resolution(q, k) = [records |-> registry \cup {r}, binds |-> binds \cup N,
                              box |-> box \cup events, artifacts |-> events,
                              ledger |-> [conflicts |-> Remaining(q, k),
                                          resolutions |-> ledger.resolutions \cup {q}]]
      BY DEF Resolution, r, N, events
    <3>2. Resolution(q, k)' = [records |-> registry' \cup {r}, binds |-> binds' \cup N,
                               box |-> box' \cup events, artifacts |-> events,
                               ledger |-> [conflicts |-> Remaining(q, k)',
                                           resolutions |-> ledger'.resolutions \cup {q}]]
      BY <2>3 DEF Resolution, r, N, events, Target
    <3>. QED
      BY <2>1, <2>3, <2>5, <3>1, <3>2
  <2>7. ~Clashes(r, registry')
    BY <1>6, <2>4 DEF Clashes
  <2>8. \A b \in binds' \cup N : ~ClashingBind(b, binds')
    BY <1>5, <1>6, <2>4 DEF ClashingBind
  <2>9. \A v \in events : ~ClashingEvent(v, box' \cup artifacts')
    BY <1>5, <1>6, <2>4 DEF ClashingEvent
  <2>10. Possible(q, k)'
    <3>1. Chosen(q)' = {k}
      BY <1>1, <2>2 DEF Possible
    <3>2. ~Clashes([k.rec EXCEPT !.name = Target(q)], registry)'
      BY <2>7 DEF r, Target, Clashes, SameIds
    <3>3. Resolution(q, k)'.binds = binds' \cup N /\ Resolution(q, k)'.artifacts = events
      BY <1>1, <1>3, <2>5, <2>6
    <3>. QED
      BY <2>2, <2>8, <2>9, <3>1, <3>2, <3>3 DEF Possible, ClashingBind, ClashingEvent
  <2>. QED
    BY <1>1, <1>9, <2>2, <2>6, <2>10
<1>. QED
  BY <1>8, <1>9

LEMMA CommitMends ==
  ASSUME TypeInv, WholeInv, Decided, MendInv, Commit
  PROVE  MendInv'
<1>1. ~Idle /\ Publishes(job.stage) /\ UNCHANGED <<old, luck>> /\ IsJob(job)
  BY DEF Commit, TypeInv, JobOK
<1>2. \A q \in Resolutions : q # Nil
  BY MigrationAssumption DEF Resolutions
<1>3. intent' = IF job.stage = "intent" THEN job.q ELSE IF job.stage = "clear" THEN Nil ELSE intent
  BY <1>1 DEF Publishes, PublishesIntent
<1>. SUFFICES ASSUME Calm, NEW q \in Resolutions
              PROVE  (/\ Idle /\ intent = q => Mendable(q) /\ (up => Settled(q) /\ Granted(q, mem))
                      /\ ~Idle /\ ~job.rolling /\ job.q = q => Underway(q))'
  BY <1>1 DEF MendInv, Calm, luck
<1>4. CASE ~Last(job.stage)
  <2>1. job' = [job EXCEPT !.stage = NextStage(@)] /\ UNCHANGED <<mem, up>>
    BY <1>4 DEF Commit
  <2>2. job = [q |-> job.q, plan |-> job.plan, undo |-> job.undo,
               stage |-> job.stage, rolling |-> job.rolling]
    BY <1>1 DEF IsJob
  <2>3. job' = [q |-> job.q, plan |-> job.plan, undo |-> job.undo,
                stage |-> NextStage(job.stage), rolling |-> job.rolling]
    BY <2>1, <2>2
  <2>4. /\ job'.q = job.q /\ job'.plan = job.plan /\ job'.undo = job.undo
        /\ job'.stage = NextStage(job.stage) /\ job'.rolling = job.rolling /\ ~Idle'
    BY <2>3, JobIsOne DEF Idle
  <2>5. ASSUME ~job.rolling, job.q = q
        PROVE  Underway(q)'
    <3>1. job.stage \in Stages \ {"clear"}
      BY <1>1, <1>2, <1>4, <2>5 DEF IsJob, Last
    <3>2. /\ NextStage(job.stage) = "clear" <=> job.stage = "ledger"
          /\ NextStage(job.stage) # "intent"
      BY <3>1 DEF Stages, NextStage
    <3>3. Underway(q) /\ ledger # None
      BY <1>1, <1>2, <2>5 DEF MendInv, Decided
    <3>4. intent' = q
      BY <1>3, <2>5, <3>1, <3>3 DEF Underway
    <3>5. IF job.stage = "ledger" THEN Settled(q)'
          ELSE Undecided(q)' /\ \E k \in Chosen(q)' : Possible(q, k)' /\ job.plan = Resolution(q, k)'
      BY <1>1, <2>5, <3>1, <3>3, StageMends DEF Calm, Quiet
    <3>6. job.stage # "ledger" => (up => job.undo # None)
      BY <3>1, <3>3 DEF Underway
    <3>. QED
      BY <2>1, <2>4, <3>2, <3>4, <3>5, <3>6 DEF Underway
  <2>. QED
    BY <2>4, <2>5
<1>5. CASE Last(job.stage)
  <2>1. job' = None
    BY <1>5 DEF Commit, Reads
  <2>2. intent' # q
    <3>1. CASE job.q = Nil
      BY <1>1, <1>2, <1>3, <1>5, <3>1 DEF Last, Decided, Pending
    <3>2. CASE job.q # Nil
      BY <1>2, <1>3, <1>5, <3>2 DEF Last
    <3>. QED
      BY <3>1, <3>2
  <2>. QED
    BY <2>1, <2>2 DEF Idle
<1>. QED
  BY <1>4, <1>5

LEMMA CommitFailsMends ==
  ASSUME TypeInv, WholeInv, Decided, MendInv, NEW effect \in BOOLEAN, CommitFails(effect)
  PROVE  MendInv'
<1>1. ~Idle /\ UNCHANGED <<old, mem, up>> /\ IsJob(job)
  BY DEF CommitFails, TypeInv, JobOK
<1>2. \A q \in Resolutions : q # Nil
  BY MigrationAssumption DEF Resolutions
<1>. SUFFICES ASSUME Calm', NEW q \in Resolutions
              PROVE  (/\ Idle /\ intent = q => Mendable(q) /\ (up => Settled(q) /\ Granted(q, mem))
                      /\ ~Idle /\ ~job.rolling /\ job.q = q => Underway(q))'
  BY DEF MendInv
<1>3. /\ Calm /\ ~job.rolling /\ (up /\ ~Undone => registry' = mem)
      /\ Undone \/ job.stage # "intent"
  BY DEF CommitFails, Mishap, Calm, Undone
<1>4. CASE Undone
  <2>1. job = [q |-> job.q, plan |-> job.plan, undo |-> job.undo,
               stage |-> job.stage, rolling |-> job.rolling]
    BY <1>1 DEF IsJob
  <2>2. job' = [q |-> job.q, plan |-> job.undo, undo |-> None,
                stage |-> "artifacts", rolling |-> TRUE]
    BY <1>4, <2>1 DEF CommitFails
  <2>3. job' = [q |-> job'.q, plan |-> job'.plan, undo |-> job'.undo,
                stage |-> job'.stage, rolling |-> job'.rolling] /\ job'.rolling
    BY <2>2
  <2>. QED
    BY <2>3, JobIsOne DEF Idle
<1>5. CASE ~Undone
  <2>1. job' = None /\ job.stage # "intent"
    BY <1>3, <1>5 DEF CommitFails
  <2>. SUFFICES ASSUME intent' = q
                PROVE  Mendable(q)' /\ (up => Settled(q)' /\ Granted(q, mem))
    BY <1>1, <2>1 DEF Idle, Granted, Target
  <2>2. intent = q
    <3>1. CASE effect
      BY <1>2, <2>1, <3>1 DEF CommitFails, Publishes, PublishesIntent
    <3>2. CASE ~effect
      BY <3>2 DEF CommitFails, files
    <3>. QED
      BY <3>1, <3>2
  <2>3. job.q # Nil
    BY <1>1, <1>2, <2>2 DEF Decided, Pending
  <2>4. job.q = q /\ Underway(q) /\ ledger # None
    <3>1. job.q \in Resolutions
      BY <1>1, <2>3 DEF IsJob
    <3>2. Underway(job.q)
      BY <1>1, <1>3, <3>1 DEF MendInv
    <3>. QED
      BY <1>1, <2>1, <2>2, <2>3, <3>2 DEF Underway, Decided
  <2>5. CASE job.stage = "clear"
    <3>1. UNCHANGED <<old, registry, binds, box, artifacts, ledger>>
      <4>1. CASE effect
        BY <1>1, <2>5, <4>1 DEF CommitFails, Publishes, PublishesArtifacts, PublishesRegistry,
                                PublishesCallbacks, PublishesLedger
      <4>2. CASE ~effect
        BY <1>1, <4>2 DEF CommitFails, files
      <4>. QED
        BY <4>1, <4>2
    <3>2. Settled(q)
      BY <2>4, <2>5 DEF Underway
    <3>3. Settled(q)' /\ Mendable(q)'
      BY <3>1, <3>2, SettledIsDecided, MendSame
    <3>4. up => Granted(q, mem)
      BY <1>3, <1>5, <3>1, <3>2 DEF Settled, Holds, Granted
    <3>. QED
      BY <3>3, <3>4
  <2>6. CASE job.stage # "clear"
    <3>1. job.undo = None
      BY <1>1, <1>5, <2>1, <2>6 DEF Undone, IsJob, Stages
    <3>2. ~up
      BY <2>4, <2>6, <3>1 DEF Underway
    <3>3. Mendable(q)'
      <4>1. CASE effect
        <5>1. IF job.stage = "ledger" THEN Settled(q)'
              ELSE Undecided(q)' /\ \E k \in Chosen(q)' : Possible(q, k)' /\ job.plan = Resolution(q, k)'
          BY <1>1, <1>3, <2>4, <2>6, <4>1, StageMends DEF CommitFails, Calm, Quiet
        <5>2. Settled(q)' => ~Undecided(q)'
          BY DEF Settled, Undecided
        <5>. QED
          BY <5>1, <5>2 DEF Mendable
      <4>2. CASE ~effect
        <5>1. UNCHANGED <<old, registry, binds, box, artifacts, ledger>>
          BY <1>1, <4>2 DEF CommitFails, files
        <5>2. Mendable(q)
          BY <2>4, <2>6 DEF Underway, Mendable
        <5>. QED
          BY <5>1, <5>2, MendSame
      <4>. QED
        BY <4>1, <4>2
    <3>. QED
      BY <3>2, <3>3
  <2>. QED
    BY <2>5, <2>6
<1>. QED
  BY <1>4, <1>5

\* A commit that begins.
LEMMA NewJobMends ==
  ASSUME UNCHANGED <<old, files, up, luck>>,
         NEW p, NEW plan, NEW undo, NEW stage, Commits(p, plan, undo, stage),
         Calm => \A q \in Resolutions : p = q =>
           /\ intent = q \/ (stage = "intent" /\ intent = Nil)
           /\ IF stage = "clear" THEN Settled(q)
              ELSE /\ Undecided(q) /\ (up => undo # None)
                   /\ \E k \in Chosen(q) : Possible(q, k) /\ plan = Resolution(q, k)
  PROVE  MendInv'
<1>1. /\ job'.q = p /\ job'.plan = plan /\ job'.undo = undo /\ job'.stage = stage
      /\ job' = [q |-> job'.q, plan |-> job'.plan, undo |-> job'.undo,
                 stage |-> job'.stage, rolling |-> job'.rolling]
  BY DEF Commits
<1>2. ~Idle'
  BY <1>1, JobIsOne DEF Idle
<1>3. ASSUME NEW q \in Resolutions, Calm, p = q
      PROVE  Underway(q)'
  <2>1. UNCHANGED <<old, registry, binds, box, artifacts, ledger, intent, up>>
    BY DEF files
  <2>2. CASE stage = "clear"
    BY <1>1, <1>3, <2>1, <2>2, MendSame DEF Underway
  <2>3. CASE stage # "clear"
    BY <1>1, <1>3, <2>1, <2>3, MendSame DEF Underway
  <2>. QED
    BY <2>2, <2>3
<1>. QED
  BY <1>1, <1>2, <1>3 DEF MendInv, Calm, luck

LEMMA StartMends ==
  ASSUME TypeInv, MendInv, Start
  PROVE  MendInv'
<1>1. Idle /\ ~up /\ UNCHANGED <<old, files, up, luck>>
  BY DEF Start
<1>2. \A q \in Resolutions : q # Nil
  BY MigrationAssumption DEF Resolutions
<1>3. CASE Pending /\ Undecided(intent)
  <2>1. PICK k \in Chosen(intent) :
          Possible(intent, k) /\ Commits(intent, Resolution(intent, k), None, "intent")
    BY <1>3 DEF Start
  <2>. QED
    BY <1>1, <1>3, <2>1, NewJobMends
<1>4. CASE Pending /\ ~Undecided(intent)
  <2>1. Settled(intent) /\ Commits(intent, Undo, None, "clear")
    BY <1>4 DEF Start
  <2>. QED
    BY <1>1, <2>1, NewJobMends
<1>5. CASE ~Pending
  <2>1. Commits(Nil, Plan(old, registry, binds, box), None, "artifacts")
    BY <1>5 DEF Start
  <2>. QED
    BY <1>1, <1>2, <2>1, NewJobMends
<1>. QED
  BY <1>3, <1>4, <1>5

LEMMA ResolveMends ==
  ASSUME TypeInv, MendInv, NEW q \in Resolutions, Resolve(q)
  PROVE  MendInv'
<1>1. Idle /\ up /\ UNCHANGED <<old, files, up, luck>> /\ Allowed(q)
  BY DEF Resolve, Drained
<1>2. Undo # None
  <2>1. "records" \in DOMAIN Undo /\ "records" \notin DOMAIN None
    BY DEF Undo, None
  <2>. QED
    BY <2>1
<1>3. CASE Undecided(q)
  <2>. DEFINE undo == IF Pending THEN None ELSE Undo
  <2>1. PICK k \in Chosen(q) : Possible(q, k) /\ Commits(q, Resolution(q, k), undo, "intent")
    BY <1>3 DEF Resolve
  <2>2. Calm => ~Pending
    BY <1>1, <1>3, SettledIsDecided DEF MendInv, Allowed
  <2>3. Calm => undo # None /\ intent = Nil
    BY <1>2, <2>2 DEF Pending
  <2>. HIDE DEF undo
  <2>. QED
    BY <1>1, <1>3, <2>1, <2>3, NewJobMends
<1>4. CASE ~Undecided(q) /\ Pending
  <2>1. Settled(q) /\ Commits(q, Undo, None, "clear") /\ intent = q
    BY <1>1, <1>4 DEF Resolve, Allowed
  <2>. QED
    BY <1>1, <2>1, NewJobMends
<1>5. CASE ~Undecided(q) /\ ~Pending
  <2>1. job' = job /\ intent' = Nil /\ (Calm' => Calm)
    BY <1>1, <1>5 DEF Resolve, Pending, files, Calm, luck
  <2>2. \A p \in Resolutions : p # Nil
    BY MigrationAssumption DEF Resolutions
  <2>. QED
    BY <1>1, <2>1, <2>2 DEF MendInv, Idle
<1>. QED
  BY <1>3, <1>4, <1>5

\* Nothing that a resolution needs changes.
LEMMA MendKept ==
  ASSUME MendInv, Calm' => Calm, UNCHANGED <<old, files, daemon>>
  PROVE  MendInv'
<1>1. UNCHANGED <<old, registry, binds, box, artifacts, ledger, intent, mem, up, job>>
  BY DEF files, daemon
<1>. SUFFICES ASSUME Calm, NEW q \in Resolutions
              PROVE  (/\ Idle /\ intent = q => Mendable(q) /\ (up => Settled(q) /\ Granted(q, mem))
                      /\ ~Idle /\ ~job.rolling /\ job.q = q => Underway(q))'
  BY DEF MendInv
<1>2. Granted(q, mem)' <=> Granted(q, mem)
  BY <1>1 DEF Granted, Target
<1>3. Underway(q)' <=> Underway(q)
  BY <1>1, MendSame DEF Underway
<1>. QED
  BY <1>1, <1>2, <1>3, MendSame DEF MendInv, Idle

\* While the daemon serves, a begun resolution is settled, and stays so when what
\* the daemon has in memory is saved with more, or with other bodies.
LEMMA SavedMends ==
  ASSUME MendInv, up, Idle, NEW records,
         registry' \in {registry, records}, mem' \in {mem, records}, Calm' => Calm,
         \A q \in Resolutions : Granted(q, mem) => Granted(q, records),
         UNCHANGED <<ledger, intent, up, job>>
  PROVE  MendInv'
<1>. SUFFICES ASSUME Calm, NEW q \in Resolutions, intent = q
              PROVE  Mendable(q)' /\ Settled(q)' /\ Granted(q, mem)'
  BY DEF MendInv, Idle
<1>1. Settled(q) /\ Granted(q, mem) /\ Granted(q, records)
  BY DEF MendInv
<1>2. Granted(q, registry)
  BY <1>1 DEF Settled, Holds, Granted
<1>3. Granted(q, mem)'
  BY <1>1 DEF Granted, Target
<1>4. Settled(q)'
  BY <1>1, <1>2 DEF Settled, Holds, Granted, InConflict, Target
<1>5. Mendable(q)'
  BY <1>4 DEF Settled, Undecided, Mendable
<1>. QED
  BY <1>3, <1>4, <1>5

LEMMA CreateMends ==
  ASSUME TypeInv, PromiseInv, MendInv, NEW c \in Clients, Create(c)
  PROVE  MendInv'
<1>1. up /\ Idle /\ UNCHANGED <<old, binds, box, artifacts, ledger, intent, up, job>>
  BY DEF Create, PromiseInv, JobPromises
<1>2. CASE \E r \in mem : SameIds(r, want[c])
  BY <1>1, <1>2, MendKept DEF Create, files, daemon, luck, Calm
<1>3. CASE ~\E r \in mem : SameIds(r, want[c])
  <2>. DEFINE records == mem \cup {want[c]}
  <2>1. /\ registry' \in {registry, records} /\ mem' \in {mem, records} /\ (Calm' => Calm)
    BY <1>3 DEF Create, Saves, Mishap, luck, Calm
  <2>2. \A q \in Resolutions : Granted(q, mem) => Granted(q, records)
    BY DEF Granted
  <2>. HIDE DEF records
  <2>. QED
    BY <1>1, <2>1, <2>2, SavedMends
<1>. QED
  BY <1>2, <1>3

LEMMA AnnotateMends ==
  ASSUME TypeInv, MendInv, NEW r \in mem, Annotate(r)
  PROVE  MendInv'
<1>. DEFINE s == [r EXCEPT !.body = "noted"]
            records == (mem \ {r}) \cup {s}
<1>1. up /\ Idle /\ Saves(records) /\ UNCHANGED <<ledger, intent, up, job>>
  BY DEF Annotate
<1>2. s.name = r.name /\ s.thread = r.thread
  BY NotedRecord DEF TypeInv, MemOK, Good
<1>3. \A q \in Resolutions : Granted(q, mem) => Granted(q, records)
  <2>. HIDE DEF s
  <2>. QED
    BY <1>2 DEF Granted
<1>. HIDE DEF records
<1>4. registry' \in {registry, records} /\ mem' \in {mem, records} /\ (Calm' => Calm)
  BY <1>1 DEF Saves, Mishap, luck, Calm
<1>. QED
  BY <1>1, <1>3, <1>4, SavedMends

LEMMA RequestMends ==
  ASSUME TypeInv, PromiseInv, MendInv, NEW c \in Clients, Request(c)
  PROVE  MendInv'
<1>1. ASSUME NEW n \in Names, Look(c, n)
      PROVE  MendInv'
  BY <1>1, MendKept DEF Look, luck, Calm
<1>2. ASSUME NEW id \in New, Enter(c, id)
      PROVE  MendInv'
  BY <1>2, MendKept DEF Enter, luck, Calm
<1>3. ASSUME NEW n \in Named, NEW id \in New, NEW t \in Ids, Raw(c, n, id, t)
      PROVE  MendInv'
  BY <1>3, MendKept DEF Raw, luck, Calm
<1>4. CASE Refuse(c)
  BY <1>4, MendKept DEF Refuse, luck, Calm
<1>5. CASE BindNew(c)
  <2>1. up /\ Idle /\ UNCHANGED <<registry, ledger, intent, mem, up, job>> /\ (Calm' => Calm)
    BY <1>5 DEF BindNew, daemon, Mishap, luck, Calm
  <2>. QED
    BY <2>1, SavedMends
<1>. QED
  BY <1>1, <1>2, <1>3, <1>4, <1>5, CreateMends DEF Request

\* A daemon that ends leaves a resolution that the next one can end.
LEMMA EndMends ==
  ASSUME TypeInv, Decided, MendInv, Stop \/ Crash
  PROVE  MendInv'
<1>1. /\ UNCHANGED <<old, registry, binds, box, artifacts, ledger, intent>>
      /\ job' = None /\ up' = FALSE
  BY DEF Stop, Crash, Down, files
<1>2. Calm' => Calm /\ (Idle \/ ~job.rolling)
  BY DEF Stop, Drained, Crash, Mishap, luck, Calm
<1>. SUFFICES ASSUME Calm, Idle \/ ~job.rolling, NEW q \in Resolutions, intent = q
              PROVE  Mendable(q)'
  BY <1>1, <1>2 DEF MendInv, Idle
<1>3. q # Nil
  BY MigrationAssumption DEF Resolutions
<1>4. CASE Idle
  BY <1>1, <1>4, MendSame DEF MendInv
<1>5. CASE ~Idle
  <2>1. job.q \in Resolutions
    BY <1>3, <1>5 DEF Decided, Pending, TypeInv, JobOK, IsJob
  <2>2. Underway(job.q)
    BY <1>5, <2>1 DEF MendInv
  <2>3. job.q = q
    BY <1>3, <2>2 DEF Underway
  <2>4. Mendable(q)
    BY <2>2, <2>3, SettledIsDecided DEF Underway, Mendable
  <2>. QED
    BY <1>1, <2>4, MendSame
<1>. QED
  BY <1>4, <1>5

LEMMA InitMends ==
  Init => MendInv
<1>1. \A q \in Resolutions : q # Nil
  BY MigrationAssumption DEF Resolutions
<1>. QED
  BY <1>1 DEF Init, MendInv, Idle

LEMMA NextMends ==
  TypeInv /\ PromiseInv /\ WholeInv /\ Decided /\ MendInv /\ [Next]_vars => MendInv'
<1>. SUFFICES ASSUME TypeInv, PromiseInv, WholeInv, Decided, MendInv, [Next]_vars
              PROVE  MendInv'
  OBVIOUS
<1>1. CASE UNCHANGED vars
  BY <1>1, MendKept DEF vars, luck, Calm
<1>2. CASE Serve
  <2>1. intent' = Nil /\ job' = job /\ Idle
    BY <1>2 DEF Serve, Pending, files
  <2>2. \A q \in Resolutions : q # Nil
    BY MigrationAssumption DEF Resolutions
  <2>. QED
    BY <2>1, <2>2 DEF MendInv, Idle
<1>3. ASSUME NEW e \in old, SourceChanges(e)
      PROVE  MendInv'
  BY <1>3 DEF SourceChanges, Mishap, MendInv, Calm
<1>. QED
  BY <1>1, <1>2, <1>3, StartMends, CommitMends, CommitFailsMends, ResolveMends, RequestMends,
     AnnotateMends, EndMends DEF Next

LEMMA MendInvImpliesRecoverable ==
  ASSUME TypeInv, MendInv
  PROVE  Recoverable
<1>. SUFFICES ASSUME Pending, Idle, Calm
              PROVE  Mendable(intent)
  BY DEF Recoverable, Calm, Mendable
<1>1. intent \in Resolutions
  BY DEF Pending, TypeInv, FilesOK
<1>. QED
  BY <1>1 DEF MendInv

\* A resolution that a crash or a failed write interrupted can be ended, from
\* every prefix of its commit, by the next start or status.
THEOREM ResolutionsAreRecoverable ==
  Spec => []Recoverable
<1>. DEFINE Inv == TypeInv /\ PromiseInv /\ WholeInv /\ Decided /\ MendInv
<1>1. Init => Inv
  BY InitTypes, InitPromises, InitWhole, InitDecided, InitMends
<1>2. Inv /\ [Next]_vars => Inv'
  BY NextTypes, NextPromises, NextWhole, NextDecided, NextMends
<1>3. Inv => Recoverable
  BY MendInvImpliesRecoverable
<1>. QED
  BY <1>1, <1>2, <1>3, PTL DEF Spec
=============================================================================
