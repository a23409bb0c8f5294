------------------------------ MODULE Migration ------------------------------
(***************************************************************************)
(* Names and what they stand for: the registry of workers (registry.py),   *)
(* the sessions that clients start and recover in it (facade.py,           *)
(* broker.py), and the migration of the registries and callbacks of old    *)
(* per-instance daemons into it (migration.py).                            *)
(*                                                                         *)
(* Every file is replaced atomically and survives a crash; the daemon's    *)
(* copy of the registry does not.  A migration commits four files in a     *)
(* fixed order, an operation of the live daemon brackets that with a file  *)
(* that says what it intends.  The daemon may crash between any two steps, *)
(* a write may fail before or after it took effect, and an old daemon that *)
(* still runs may change its registry: at most MaxMishaps of these happen, *)
(* `harm` remembers what they hit.                                         *)
(*                                                                         *)
(* Abstracted: what a worker is apart from its name and identifiers (body),*)
(* the text of events, digests (a digest is the content it is taken of),   *)
(* the counts of a status.  Codex is a supply of fresh thread ids.  The    *)
(* maintenance gate appears as what it excludes here; see Gateway.         *)
(***************************************************************************)
EXTENDS Naturals, FiniteSets

CONSTANTS Clients,    \* threads of the daemon that serve requests
          Names,      \* worker names
          NoName,     \* a session without a name
          Fresh,      \* thread ids Codex has not given out yet
          Worlds,     \* what the first start may find: [old, records]
          Kinds,      \* the mishaps that may happen
          MaxMishaps,
          Nil

Mishaps == {"crash", "io", "source"}

\* A worker's record, and what an old instance `src` holds of one: the record,
\* the token of its callback binding, and an event that waits to be sent, in an
\* entry of its own where several do.
Named == Names \cup {NoName}
IdsOf(w) == UNION {{e.rec.session, e.rec.thread} : e \in w.old}
              \cup UNION {{r.session, r.thread} : r \in w.records}
Ids == Fresh \cup UNION {IdsOf(w) : w \in Worlds}

ASSUME MigrationAssumption ==
  /\ Kinds \subseteq Mishaps /\ MaxMishaps \in Nat
  /\ Nil \notin Named \cup Ids /\ NoName \notin Names
  /\ Nil \notin [name : Names, thread : Ids, as : Named]
  /\ \A w \in Worlds : Fresh \cap IdsOf(w) = {}

VARIABLES
  old,        \* the old instances: what their registries and callbacks hold
  registry,   \* registry.json
  binds, box, \* callbacks.json: bindings by session, outbox by event
  artifacts,  \* callback artifacts by event
  ledger,     \* migration.json: conflicts and resolutions
  intent,     \* migration-resolution.json
  mem,        \* SessionRegistry._records of the daemon
  up,         \* the daemon serves
  job,        \* the commit under way
  pc, want,   \* a client's request: its progress, the record it creates
  promised,   \* names and threads a command said are there
  left, harm  \* mishaps that may still happen, kinds that did

files == <<registry, binds, box, artifacts, ledger, intent>>
daemon == <<mem, up, job>>
requests == <<pc, want>>
luck == <<left, harm>>
vars == <<old, files, daemon, requests, promised, luck>>

\* No ledger yet, no commit, no state to restore.
None == [none |-> Nil]
Idle == job = None

Init ==
  /\ \E w \in Worlds : old = w.old /\ registry = w.records
  /\ binds = {} /\ box = {} /\ artifacts = {}
  /\ ledger = None /\ intent = Nil
  /\ mem = {} /\ up = FALSE /\ job = None
  /\ pc = [c \in Clients |-> "idle"]
  /\ want = [c \in Clients |-> Nil]
  /\ promised = {}
  /\ left = MaxMishaps /\ harm = {}

Mishap(kind, as) ==
  /\ kind \in Kinds /\ left > 0
  /\ left' = left - 1 /\ harm' = harm \cup {as}

(***************************************************************************)
(* Identity.  A registry holds each name, session and thread once.         *)
(***************************************************************************)
SameIds(r, s) ==
  \/ r.session = s.session
  \/ r.thread = s.thread
  \/ r.name = s.name /\ r.name # NoName
Clashes(r, records) == \E s \in records : SameIds(r, s) /\ r # s
Unique(records) == \A r \in records : ~Clashes(r, records)

\* What the files the first start finds are known to be: a registry that is not,
\* the daemon's or that of an old instance, is refused when it is read.
IsRecord(r) ==
  /\ r = [name |-> r.name, session |-> r.session, thread |-> r.thread, body |-> r.body]
  /\ r.name \in Named /\ r.session \in Ids /\ r.thread \in Ids
IsEntry(e) ==
  /\ e = [src |-> e.src, rec |-> e.rec, token |-> e.token, event |-> e.event]
  /\ IsRecord(e.rec)

ASSUME WorldsAssumption ==
  \A w \in Worlds :
    /\ Unique(w.records) /\ \A r \in w.records : IsRecord(r)
    /\ \A e \in w.old : IsEntry(e)
    /\ \A e, f \in w.old : e.src = f.src /\ SameIds(e.rec, f.rec) =>
         e.rec = f.rec /\ e.token = f.token

Bind(e) == [session |-> e.rec.session, token |-> e.token]
Binds(E) == {Bind(e) : e \in {f \in E : f.token # Nil}}
ClashingBind(b, bs) == \E x \in bs : x.session = b.session /\ x # b

\* An event is projected onto the name its worker gets.
Event(e, name) == [id |-> e.event, session |-> e.rec.session, name |-> name]
Events(E) == {Event(e, e.rec.name) : e \in {f \in E : f.event # Nil}}
ClashingEvent(v, vs) == \E x \in vs : x.id = v.id /\ x # v

(***************************************************************************)
(* _plan: what the first start makes of the old instances.  The sessions   *)
(* whose record, binding or event another one contradicts are quarantined; *)
(* a name with such a session is a conflict, with all its candidates.      *)
(***************************************************************************)
\* Mutant: a record that the registry has already is a contradiction, too.
QuarantinePresent(E, R, B, X) ==
  {e.rec.session : e \in {f \in E : Clashes(f.rec, {g.rec : g \in E})
                                     \/ \E r \in R : SameIds(f.rec, r)}}

Quarantine(E, R, B, X) ==
  {e.rec.session : e \in {f \in E :
     \/ Clashes(f.rec, {g.rec : g \in E} \cup R)
     \/ f.token # Nil /\ ClashingBind(Bind(f), Binds(E) \cup B)
     \/ f.event # Nil /\ ClashingEvent(Event(f, f.rec.name), Events(E) \cup X)}}

Candidate(e, E) ==
  [src |-> e.src, rec |-> e.rec, digest |-> {f.rec : f \in {g \in E : g.src = e.src}}]

Plan(E, R, B, X) ==
  LET Q == Quarantine(E, R, B, X)
      names == {e.rec.name : e \in {f \in E : f.rec.session \in Q}}
      taken == {e \in E : e.rec.session \notin Q /\ e.rec.name \notin names}
  IN [records |-> R \cup {e.rec : e \in taken},
      binds |-> B \cup Binds(taken),
      box |-> X \cup Events(taken),
      artifacts |-> Events(taken),
      ledger |-> [conflicts |-> {[name |-> n,
                                  cands |-> {Candidate(e, E) : e \in
                                               {f \in E : f.rec.name = n}}] : n \in names},
                  resolutions |-> {}]]

\* A session without a name cannot be a conflict, and no artifact is replaced.
Refused(plan) ==
  \/ \E k \in plan.ledger.conflicts : k.name = NoName
  \/ \E v \in plan.artifacts : ClashingEvent(v, artifacts)

(***************************************************************************)
(* resolve: one candidate of a conflict gets the name, or another name.    *)
(***************************************************************************)
Resolutions == [name : Names, thread : Ids, as : Named]
Target(q) == IF q.as = NoName THEN q.name ELSE q.as
InConflict(n) == ledger # None /\ \E k \in ledger.conflicts : k.name = n
Chosen(q) ==
  {k \in UNION {f.cands : f \in {g \in ledger.conflicts : g.name = q.name}} :
     k.rec.thread = q.thread}
Holds(q) == \E r \in registry : r.name = Target(q) /\ r.thread = q.thread

\* Decided before, or nothing to decide: the record has to be there.
Settled(q) ==
  /\ Holds(q)
  /\ \/ q \in ledger.resolutions
     \/ ~InConflict(q.name) /\ ~InConflict(Target(q))

Unchanged(k) == k.digest = {e.rec : e \in {f \in old : f.src = k.src}}
Source(k) == {e \in old : e.src = k.src /\ e.rec = k.rec}

\* What is left of the conflicts once candidate k is taken: the others of its
\* name stay only when it got another name.
Remaining(q, k) ==
  {f \in ledger.conflicts : f.name # q.name} \cup
  IF q.as = NoName THEN {}
  ELSE {f \in {[g EXCEPT !.cands = @ \ {k}] : g \in {h \in ledger.conflicts : h.name = q.name}} :
          f.cands # {}}

Resolution(q, k) ==
  LET events == {Event(e, Target(q)) : e \in {f \in Source(k) : f.event # Nil}}
  IN [records |-> registry \cup {[k.rec EXCEPT !.name = Target(q)]},
      binds |-> binds \cup Binds(Source(k)),
      box |-> box \cup events,
      artifacts |-> events,
      ledger |-> [conflicts |-> Remaining(q, k), resolutions |-> ledger.resolutions \cup {q}]]

\* Mutant: a record that was published before the crash is in the way.
PossibleOnce(q, k) ==
  /\ Chosen(q) = {k}
  /\ Unchanged(k)
  /\ \A r \in registry : ~SameIds([k.rec EXCEPT !.name = Target(q)], r)

Possible(q, k) ==
  LET plan == Resolution(q, k) IN
  /\ Chosen(q) = {k}
  /\ Unchanged(k)
  /\ ~Clashes([k.rec EXCEPT !.name = Target(q)], registry)
  /\ \A b \in plan.binds : ~ClashingBind(b, binds)
  /\ \A v \in plan.artifacts : ~ClashingEvent(v, box \cup artifacts)

\* A resolution that was begun has to be ended before another one.
Pending == intent # Nil
Allowed(q) == Pending => intent = q
Undecided(q) == q \notin ledger.resolutions /\ InConflict(q.name)

(***************************************************************************)
(* The commit, a file at a time.                                           *)
(***************************************************************************)
Stages == {"intent", "artifacts", "registry", "callbacks", "ledger", "clear"}

\* The old state, for a resolution that fails; not for one that is recovered.
Undo == [records |-> registry, binds |-> binds, box |-> box, artifacts |-> {},
         ledger |-> ledger]

Commits(q, plan, undo, stage) ==
  job' = [q |-> q, plan |-> plan, undo |-> undo, stage |-> stage, rolling |-> FALSE]

\* Mutant: the ledger before the files it speaks of.
NextStageLedgerFirst(stage) ==
  CASE stage = "intent" -> "artifacts"
    [] stage = "artifacts" -> "ledger"
    [] stage = "ledger" -> IF job.q = Nil THEN "registry" ELSE "clear"

NextStage(stage) ==
  CASE stage = "intent" -> "artifacts"
    [] stage = "artifacts" -> "registry"
    [] stage = "registry" -> "callbacks"
    [] stage = "callbacks" -> "ledger"
    [] stage = "ledger" -> "clear"

\* The file a stage writes.
PublishesIntent(stage) ==
  intent' = IF stage = "intent" THEN job.q ELSE IF stage = "clear" THEN Nil ELSE intent
PublishesArtifacts(stage) ==
  artifacts' = IF stage = "artifacts" THEN artifacts \cup job.plan.artifacts ELSE artifacts
PublishesRegistry(stage) ==
  registry' = IF stage = "registry" THEN job.plan.records ELSE registry
PublishesCallbacks(stage) ==
  /\ binds' = IF stage = "callbacks" THEN job.plan.binds ELSE binds
  /\ box' = IF stage = "callbacks" THEN job.plan.box ELSE box
PublishesLedger(stage) ==
  ledger' = IF stage = "ledger" THEN job.plan.ledger ELSE ledger

Publishes(stage) ==
  /\ PublishesIntent(stage) /\ PublishesArtifacts(stage) /\ PublishesRegistry(stage)
  /\ PublishesCallbacks(stage) /\ PublishesLedger(stage)

\* The last stage of a scan writes the ledger; a resolution clears its intent.
Last(stage) == stage = IF job.q = Nil THEN "ledger" ELSE "clear"

\* The end of a commit.  A live daemon reads the registry again, a starting one
\* reads it for the first time.
\* Mutant: a live daemon goes on with what it had in memory.
ReadsOnce == mem' = (IF up THEN mem ELSE registry') /\ up' = TRUE /\ job' = None

Reads == mem' = registry' /\ up' = TRUE /\ job' = None

Told(q) == promised' = promised \cup {[name |-> Target(q), thread |-> q.thread]}

Commit ==
  /\ ~Idle
  /\ Publishes(job.stage)
  /\ IF ~Last(job.stage)
       THEN job' = [job EXCEPT !.stage = NextStage(@)] /\ UNCHANGED <<mem, up, promised>>
     ELSE IF job.rolling
       THEN job' = None /\ UNCHANGED <<mem, up, promised>>
     ELSE /\ Reads
          /\ IF job.q # Nil /\ up THEN Told(job.q) ELSE UNCHANGED promised
  /\ UNCHANGED <<old, requests, luck>>

\* A write that fails, or a file that was replaced and cannot be synced.
Undone == job.undo # None /\ job.stage \in {"artifacts", "registry", "callbacks", "ledger"}

CommitFails(effect) ==
  /\ ~Idle
  /\ IF effect THEN Publishes(job.stage) ELSE UNCHANGED files
  /\ Mishap("io", CASE job.rolling -> "rollback"
                     [] ~job.rolling /\ up /\ ~Undone /\ registry' # mem -> "forgotten"
                     [] OTHER -> IF job.stage = "intent" THEN "intent" ELSE "commit")
  /\ job' = IF Undone THEN [job EXCEPT !.plan = job.undo, !.undo = None,
                                       !.stage = "artifacts", !.rolling = TRUE]
                      ELSE None
  /\ UNCHANGED <<old, mem, up, requests, promised>>

(***************************************************************************)
(* _serve: a resolution that was begun first, then the scan, then service. *)
(***************************************************************************)
Start ==
  /\ ~up /\ Idle
  /\ IF Pending
       THEN IF Undecided(intent)
              THEN \E k \in Chosen(intent) :
                     Possible(intent, k) /\ Commits(intent, Resolution(intent, k), None, "intent")
              ELSE Settled(intent) /\ Commits(intent, Undo, None, "clear")
       ELSE /\ ledger = None
            /\ LET plan == Plan(old, registry, binds, box) IN
                 ~Refused(plan) /\ Commits(Nil, plan, None, "artifacts")
  /\ UNCHANGED <<old, files, mem, up, requests, promised, luck>>

Serve ==
  /\ ~up /\ Idle /\ ~Pending /\ ledger # None
  /\ mem' = registry /\ up' = TRUE
  /\ UNCHANGED <<old, files, job, requests, promised, luck>>

\* migration resolve, and the recovery a status runs, in a live daemon.  The
\* drain waits for the sessions under way, then both stores are locked.
Drained == up /\ Idle /\ \A c \in Clients : pc[c] # "entered"

Resolve(q) ==
  /\ Drained /\ Allowed(q)
  /\ IF Undecided(q)
       THEN \E k \in Chosen(q) :
              /\ Possible(q, k)
              /\ Commits(q, Resolution(q, k), IF Pending THEN None ELSE Undo, "intent")
              /\ UNCHANGED <<mem, up, promised>>
       ELSE /\ Settled(q)
            /\ IF Pending
                 THEN Commits(q, Undo, None, "clear") /\ UNCHANGED <<mem, up, promised>>
                 ELSE mem' = registry /\ Told(q) /\ UNCHANGED <<up, job>>
  /\ UNCHANGED <<old, files, requests, luck>>

(***************************************************************************)
(* Sessions.  `start` looks the name up, enters the gate, has Codex make a *)
(* thread, creates the record, looks the name up again and binds the       *)
(* callback.  The raw commands session start and session resume --thread   *)
(* create without looking, the latter for a thread that is known.          *)
(***************************************************************************)
At(c, from, to) == pc[c] = from /\ pc' = [pc EXCEPT ![c] = to]
Used == IdsOf([old |-> old, records |-> registry \cup mem])
          \cup {want[c].thread : c \in {d \in Clients : want[d] # Nil}}
          \cup {p.thread : p \in promised} \cup {b.session : b \in binds}
New == Fresh \ Used

Look(c, n) ==
  /\ up /\ Idle /\ At(c, "idle", "looked")
  /\ ~InConflict(n) /\ \A r \in mem : r.name # n
  /\ want' = [want EXCEPT ![c] = [name |-> n, session |-> Nil, thread |-> Nil, body |-> "new"]]
  /\ UNCHANGED <<old, files, daemon, promised, luck>>

Enter(c, id) ==
  /\ up /\ Idle /\ At(c, "looked", "entered")
  /\ want' = [want EXCEPT ![c].session = id, ![c].thread = id]
  /\ UNCHANGED <<old, files, daemon, promised, luck>>

Raw(c, n, session, thread) ==
  /\ up /\ Idle /\ At(c, "idle", "entered")
  /\ \A r \in mem : r.thread # thread
  /\ want' = [want EXCEPT ![c] =
       [name |-> n, session |-> session, thread |-> thread, body |-> "raw"]]
  /\ UNCHANGED <<old, files, daemon, promised, luck>>

\* Save and remember; a failed save is not remembered.
Saves(records) ==
  \/ registry' = records /\ mem' = records /\ UNCHANGED luck
  \/ Mishap("io", "save") /\ registry' \in {registry, records} /\ UNCHANGED mem

\* Codex refuses.
Refuse(c) ==
  /\ up /\ At(c, "entered", "idle")
  /\ want' = [want EXCEPT ![c] = Nil]
  /\ UNCHANGED <<old, files, daemon, promised, luck>>

\* Mutant: an identifier that is taken is not refused.
CreateAnyway(c) ==
  /\ up /\ At(c, "entered", "idle")
  /\ Saves(mem \cup {want[c]})
  /\ want' = [want EXCEPT ![c] = Nil]
  /\ UNCHANGED <<old, binds, box, artifacts, ledger, intent, up, job, promised>>

Create(c) ==
  /\ up /\ pc[c] = "entered"
  /\ IF \E r \in mem : SameIds(r, want[c])
       THEN UNCHANGED <<registry, mem, luck>>
       ELSE Saves(mem \cup {want[c]})
  /\ LET made == want[c] \in mem' \ mem
         looks == made /\ want[c].body = "new" IN
     /\ pc' = [pc EXCEPT ![c] = IF looks THEN "created" ELSE "idle"]
     /\ want' = IF looks THEN want ELSE [want EXCEPT ![c] = Nil]
     /\ promised' = IF made THEN promised \cup {[name |-> want[c].name, thread |-> want[c].thread]}
                    ELSE promised
  /\ UNCHANGED <<old, binds, box, artifacts, ledger, intent, up, job>>

BindNew(c) ==
  /\ up /\ Idle /\ At(c, "created", "idle")
  /\ want' = [want EXCEPT ![c] = Nil]
  /\ LET found == {r \in mem : r.name = want[c].name} IN
     \/ /\ binds' = binds \cup {[session |-> r.session, token |-> "new"] : r \in found}
        /\ UNCHANGED luck
     \/ Mishap("io", "save") /\ UNCHANGED binds
  /\ UNCHANGED <<old, registry, box, artifacts, ledger, intent, daemon, promised>>

\* A turn of a worker without a policy of its own changes its record.
Annotate(r) ==
  /\ up /\ Idle /\ r \in mem /\ r.body = "raw"
  /\ Saves((mem \ {r}) \cup {[r EXCEPT !.body = "noted"]})
  /\ UNCHANGED <<old, binds, box, artifacts, ledger, intent, up, job, requests, promised>>

(***************************************************************************)
(* The daemon ends, orderly between requests or not; an old daemon that    *)
(* was not stopped changes what it holds.                                  *)
(***************************************************************************)
Down ==
  /\ up' = FALSE /\ job' = None /\ mem' = {}
  /\ pc' = [c \in Clients |-> "idle"]
  /\ want' = [c \in Clients |-> Nil]
  /\ UNCHANGED <<old, files, promised>>

Stop == up /\ Drained /\ Down /\ UNCHANGED luck
Crash == (up \/ ~Idle) /\ Mishap("crash", IF ~Idle /\ job.rolling THEN "rollback" ELSE "crash") /\ Down

SourceChanges(e) ==
  /\ Mishap("source", "source")
  /\ old' = {IF f.src = e.src /\ f.rec = e.rec THEN [f EXCEPT !.rec.body = "noted"] ELSE f :
               f \in old}
  /\ UNCHANGED <<files, daemon, requests, promised>>

Request(c) ==
  \/ \E n \in Names : Look(c, n)
  \/ \E id \in New : Enter(c, id)
  \/ \E n \in Named, id \in New, t \in Ids :
       (t = id \/ t \in Used) /\ Raw(c, n, id, t)
  \/ Refuse(c)
  \/ Create(c)
  \/ BindNew(c)

Next ==
  \/ Start \/ Serve \/ Commit \/ \E effect \in BOOLEAN : CommitFails(effect)
  \/ \E q \in Resolutions : Resolve(q)
  \/ \E c \in Clients : Request(c)
  \/ \E r \in mem : Annotate(r)
  \/ Stop \/ Crash \/ \E e \in old : SourceChanges(e)

Spec == Init /\ [][Next]_vars

(***************************************************************************)
(* Types, with what a registry that is read or written has to be: each     *)
(* name, session and thread once, in the plans of a scan and a resolution  *)
(* too, for publish_snapshot refuses another only after the artifacts were *)
(* published.                                                              *)
(***************************************************************************)
TypeOK ==
  /\ \A e \in old : IsEntry(e)
  /\ Unique(registry) /\ Unique(mem)
  /\ ~Idle => Unique(job.plan.records) /\ job.stage \in Stages
  /\ intent \in Resolutions \cup {Nil}
  /\ \A c \in Clients : pc[c] \in {"idle", "looked", "entered", "created"}
  /\ ledger # None => ledger.resolutions \subseteq Resolutions

\* Where an entry of an old instance is: in the registry, with its callback and
\* its event; in a conflict that waits for an answer; or passed over, another
\* candidate having got the name.
Kept(e) ==
  \E r \in registry :
    /\ r.session = e.rec.session /\ r.thread = e.rec.thread
    /\ e.token # Nil => Bind(e) \in binds
    /\ e.event # Nil => Event(e, r.name) \in box
Open(e) ==
  \E f \in ledger.conflicts : \E k \in f.cands :
    k.src = e.src /\ k.rec.session = e.rec.session
PassedOver(e) ==
  \E q \in ledger.resolutions :
    q.name = e.rec.name /\ q.as = NoName /\ q.thread # e.rec.thread

\* "Migrated or quarantined, never silently discarded": once the ledger says
\* that the migration is complete, whatever crashed, failed or was resolved
\* since, no worker of an old instance is gone.
NeverDiscarded ==
  ledger # None /\ Idle => \A e \in old : Kept(e) \/ Open(e) \/ PassedOver(e)

\* What holds: a worker is only lost after a resolution of the live daemon
\* published its registry, failed, and left the daemon with the earlier one in
\* memory, or after a rollback that did not come to its end.
NothingLost == harm \cap {"forgotten", "rollback"} = {} => NeverDiscarded

\* A worker that a command reported is in the registry, under its name and with
\* its thread, for good: no rollback of a resolution, no recovery and no save
\* from an older copy of the registry takes it away.
PromisesKept ==
  \A p \in promised : \E r \in registry : r.name = p.name /\ r.thread = p.thread

\* A resolution that a crash interrupted can be recovered, so that the next
\* daemon starts, from every prefix of its commit.  Not so one whose intent was
\* left in a daemon that goes on (other commands may take its name), or whose
\* source an old daemon changed.
Recoverable ==
  Pending /\ Idle /\ harm \cap {"intent", "forgotten", "rollback", "source"} = {} =>
    IF Undecided(intent) THEN \E k \in Chosen(intent) : Possible(intent, k)
    ELSE Settled(intent)

\* A scan that was interrupted anywhere, once or several times, and begun again
\* over the files it had published, ends with what one scan of the first files
\* would have made: nothing twice, nothing quarantined because of itself.
ScanRepairs ==
  [][ledger = None /\ ledger' # None /\ "source" \notin harm =>
       \E w \in Worlds :
         LET plan == Plan(w.old, w.records, {}, {}) IN
         /\ old = w.old
         /\ registry' = plan.records /\ binds' = plan.binds
         /\ box' = plan.box /\ ledger' = plan.ledger]_vars
==============================================================================
