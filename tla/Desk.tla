-------------------------------- MODULE Desk --------------------------------
(***************************************************************************)
(* The registries behind the API: v1 labels and cases, the v2 intelligence *)
(* registry and the tables that keep one row per key.  Endpoints are plain *)
(* functions: each runs in a thread of its own and interleaves with the    *)
(* others between any two statements.  A Store method opens a connection   *)
(* of its own; a SELECT takes no transaction, the first write takes the    *)
(* write lock, and the end of the block commits.  The operation and its    *)
(* audit event are two transactions.                                       *)
(***************************************************************************)
EXTENDS AuditTrail, SequencesExt

CONSTANTS
  Startup,        \* the thread of lifespan(), which migrates labels and is not audited
  NoLabel,        \* origin of an assertion that no v1 label was migrated to
  Scenarios,      \* what the requests ask for: a set of functions on Event
  SeedLabels, SeedAssertions,  \* what the database holds at first
  MaxRestarts     \* bound on restarts of the process

Worker == Event \cup {Startup}
Field == {"case_status", "notes"}
Operation == {"label", "import", "migrate", "review", "review_label", "insert", "append", "case"}
Ids(set) == {x.id : x \in set}

\* Identifiers are pairs, of the thread that made them first.  What a request inserts by
\* its contents is keyed by them, never by a fresh identifier.  The database may hold
\* labels, assertions of its own, and assertions an earlier run migrated from labels.
ASSUME DeskAssumption ==
  /\ Startup \notin Event
  /\ \A t \in Scenarios : \A e \in Event :
       /\ t[e].op \in Operation
       /\ t[e].op \in {"label", "import"} => t[e].items \in Seq(Range(t[e].items))
       /\ t[e].op = "insert" => t[e].key \notin Event
       /\ t[e].op = "case" => t[e].fields \subseteq Field
  /\ IsFiniteSet(SeedLabels) /\ Ids(SeedLabels) \cap Ids(SeedAssertions) = {}
  /\ \A x \in SeedLabels \cup SeedAssertions : x.id[1] \notin Worker /\ x.seen = {}
  /\ \A l \in SeedLabels : "status" \in DOMAIN l
  /\ \A a \in SeedAssertions : "state" \in DOMAIN a
  /\ \A l, m \in SeedLabels : l.id = m.id => l = m
  /\ \A a \in SeedAssertions :
       a.base = 0 /\ (a.origin = NoLabel \/ \E l \in SeedLabels :
                         l.id = a.origin /\ (a.state = "REVIEWED" <=> l.status = "APPROVED"))

VARIABLES
  task,           \* what each request asks for
  step, todo, view,            \* per thread: where it is, items left, what it has read
  labels, assertions, entities, rows, caseRow,   \* the tables
  reviews,        \* label_reviews and assertion_reviews_v2 in commit order
  clock,          \* the time stamps given to reviews so far
  caseLog,        \* history: the updates of the case in commit order
  restarts

tables == <<labels, assertions, entities, rows, caseRow, reviews, clock, caseLog>>
local == <<task, step, todo, view>>
deskVars == <<trailVars, tables, local, restarts>>

Task(w) == IF w = Startup THEN [op |-> "migrate"] ELSE task[w]

\* The items a request works through one after the other.
Items(w) == CASE Task(w).op \in {"label", "import"} -> Task(w).items
              [] OTHER -> << >>

Init ==
  /\ TrailInit
  /\ task \in Scenarios
  /\ step = [w \in Worker |-> "start"]
  /\ todo = [w \in Worker |-> IF w \in Event THEN Items(w) ELSE << >>]
  /\ view = [w \in Worker |-> {}]
  /\ labels = SeedLabels /\ assertions = SeedAssertions
  /\ entities = {} /\ rows = {}
  /\ caseRow = [f \in Field |-> NoEvent]
  /\ reviews = << >> /\ clock = 0 /\ caseLog = << >> /\ restarts = 0

----------------------------------------------------------------------------
\* Requests are served once the lifespan's startup has returned.
At(w, op, s) ==
  /\ Task(w).op = op
  /\ step[w] = s
  /\ w # Startup => step[Startup] = "done"

Goto(w, s) == step' = [step EXCEPT ![w] = s]

\* A write statement needs the lock; its transaction is one step.
CanWrite == writer = NoEvent

\* The operation is committed; the endpoint goes on to its audit event.
Respond(w) ==
  /\ Goto(w, "done")
  /\ IF w = Startup THEN UNCHANGED trailVars ELSE CallAudit(w)

\* The thread goes on to its next item, or is through.
NextItem(w) ==
  /\ todo' = [todo EXCEPT ![w] = Tail(@)]
  /\ IF Len(todo[w]) = 1 THEN Respond(w) ELSE Goto(w, "start") /\ UNCHANGED trailVars

\* Slip: the refused request is audited like the others.
RefuseSlip(w) == Respond(w)

\* The endpoint answers 404 or 422: no audit event.
Refuse(w) == Goto(w, "refused") /\ UNCHANGED trailVars

\* sqlite3.IntegrityError or "database is locked": 500, no audit event.
Fails(w) == Goto(w, "failed") /\ UNCHANGED trailVars

\* Identifiers are random: those of a restarted migration are new ones.
ItemId(w) == <<w, IF w = Startup THEN <<restarts, Len(todo[w])>> ELSE Len(todo[w])>>

\* A list without labels and a file without rows are answered, and audited, at once.
NoItems(w) ==
  /\ At(w, "label", "start") \/ At(w, "import", "start")
  /\ todo[w] = << >>
  /\ Respond(w)
  /\ UNCHANGED <<task, todo, view, tables, restarts>>

----------------------------------------------------------------------------
\* add_label (POST /labels, and each item of POST /labels/import).
AddLabelRead(w) ==
  /\ At(w, "label", "start")
  /\ todo[w] # << >>
  /\ view' = [view EXCEPT ![w] = {l \in labels : l.address = Head(todo[w]).address}]
  /\ Goto(w, "write")
  /\ UNCHANGED <<task, todo, tables, trailVars, restarts>>

\* Slip: a label that is not approved settles the conflict.
NewLabelStatusSlip(owner, existing) ==
  IF existing # {} /\ \A l \in existing : l.status = "APPROVED" /\ l.owner # owner
  THEN "CONFLICT" ELSE "APPROVED"

NewLabelStatus(owner, existing) ==
  IF \E l \in existing : l.status = "APPROVED" /\ l.owner # owner
  THEN "CONFLICT" ELSE "APPROVED"

AddLabelWrite(w) ==
  /\ At(w, "label", "write")
  /\ CanWrite
  /\ labels' = labels \cup
       {[id |-> ItemId(w), address |-> Head(todo[w]).address, owner |-> Head(todo[w]).owner,
         status |-> NewLabelStatus(Head(todo[w]).owner, view[w]), seen |-> Ids(view[w])]}
  /\ NextItem(w)
  /\ UNCHANGED <<task, view, assertions, entities, rows, caseRow, reviews, clock, caseLog, restarts>>

\* review_label: the row is read and replaced, and the event written with a time
\* stamp taken under the lock.  Only review_status of a label ever changes.
LabelStamp == clock + 1

ReviewLabel(w) ==
  /\ At(w, "review_label", "start")
  /\ LET t == Task(w) IN
       IF t.target \notin Ids(labels)
       THEN Refuse(w) /\ UNCHANGED <<labels, reviews, clock>>
       ELSE /\ CanWrite
            /\ labels' = {IF l.id = t.target THEN [l EXCEPT !.status = t.status] ELSE l : l \in labels}
            /\ reviews' = Append(reviews, [by |-> w, target |-> t.target, status |-> t.status,
                                           at |-> LabelStamp])
            /\ clock' = clock + 1
            /\ Respond(w)
  /\ UNCHANGED <<task, todo, view, assertions, entities, rows, caseRow, caseLog, restarts>>

----------------------------------------------------------------------------
\* migrate_legacy_labels_to_assertions: at startup, and on request.  The labels are
\* listed once; each is looked up, then given a source, an entity and an assertion.
Listed == SetToSeq({[label |-> l.id, name |-> l.owner, status |-> l.status, base |-> Len(reviews)] : l \in labels})

MigrateList(w) ==
  /\ At(w, "migrate", "start")
  /\ todo[w] = << >>
  /\ todo' = [todo EXCEPT ![w] = Listed]
  /\ IF labels = {} THEN Respond(w) ELSE Goto(w, "check") /\ UNCHANGED trailVars
  /\ UNCHANGED <<task, view, tables, restarts>>

\* Slip: the label's own assertion is not looked for.
MigratedSlip(label) == {}

Migrated(label) == {a \in assertions : a.origin = label}

MigrateCheck(w) ==
  /\ \/ At(w, "migrate", "check")
     \/ At(w, "migrate", "start") /\ todo[w] # << >>
  /\ view' = [view EXCEPT ![w] = Ids(assertions)]
  /\ IF Migrated(Head(todo[w]).label) # {}
     THEN NextItem(w)
     ELSE Goto(w, "source") /\ UNCHANGED <<todo, trailVars>>
  /\ UNCHANGED <<task, tables, restarts>>

\* A row of import_entity_assertions_csv goes the same way as a label, without the
\* look-up and with the review state the file gives.
ImportRow(w) ==
  /\ At(w, "import", "start")
  /\ todo[w] # << >>
  /\ Goto(w, "source")
  /\ UNCHANGED <<task, todo, view, tables, trailVars, restarts>>

Building(w, s) == At(w, "migrate", s) \/ At(w, "import", s)

\* create_intelligence_source, and find_entity by name.  The migration writes the source
\* first and the import looks first; nothing reads a source by its contents, so the
\* order is not told apart.
FindEntity(w) ==
  /\ Building(w, "source")
  /\ CanWrite
  /\ Goto(w, IF \E n \in entities : n.name = Head(todo[w]).name THEN "assert" ELSE "entity")
  /\ UNCHANGED <<task, todo, view, tables, trailVars, restarts>>

CreateEntity(w) ==
  /\ Building(w, "entity")
  /\ CanWrite
  /\ entities' = entities \cup {[id |-> ItemId(w), name |-> Head(todo[w]).name]}
  /\ Goto(w, "assert")
  /\ UNCHANGED <<task, todo, view, labels, assertions, rows, caseRow, reviews, clock, caseLog,
                 trailVars, restarts>>

MigratedState(status) == IF status = "APPROVED" THEN "REVIEWED" ELSE "REJECTED"

\* create_entity_address_assertion for a source that is new: never a duplicate.
BuildAssertion(w) ==
  /\ Building(w, "assert")
  /\ CanWrite
  /\ LET item == Head(todo[w]) IN
       assertions' = assertions \cup
         {IF Task(w).op = "migrate"
          THEN [id |-> ItemId(w), seen |-> view[w], origin |-> item.label,
                state |-> MigratedState(item.status), base |-> item.base]
          ELSE [id |-> ItemId(w), seen |-> view[w], origin |-> NoLabel,
                state |-> item.state, base |-> 0]}
  /\ NextItem(w)
  /\ UNCHANGED <<task, view, labels, entities, rows, caseRow, reviews, clock, caseLog, restarts>>

----------------------------------------------------------------------------
\* review_entity_address_assertion_v2: the row is read and the event time-stamped
\* before the transaction that replaces the row and inserts the event.
ReviewRead(w) ==
  /\ At(w, "review", "start")
  /\ IF Task(w).target \in Ids(assertions)
     THEN /\ clock' = clock + 1
          /\ view' = [view EXCEPT ![w] = {clock + 1}]
          /\ Goto(w, "write") /\ UNCHANGED trailVars
     ELSE Refuse(w) /\ UNCHANGED <<clock, view>>
  /\ UNCHANGED <<task, todo, labels, assertions, entities, rows, caseRow, reviews, caseLog, restarts>>

\* Slip: a decision that was made already is not overwritten.
ReviewedSlip(t) ==
  {IF a.id = t.target /\ a.state = "UNREVIEWED" THEN [a EXCEPT !.state = t.status] ELSE a : a \in assertions}

Reviewed(t) == {IF a.id = t.target THEN [a EXCEPT !.state = t.status] ELSE a : a \in assertions}

ReviewWrite(w) ==
  /\ At(w, "review", "write")
  /\ CanWrite
  /\ assertions' = Reviewed(Task(w))
  /\ reviews' = Append(reviews, [by |-> w, target |-> Task(w).target, status |-> Task(w).status,
                                 at |-> CHOOSE at \in view[w] : TRUE])
  /\ Respond(w)
  /\ UNCHANGED <<task, todo, view, labels, entities, rows, caseRow, clock, caseLog, restarts>>

----------------------------------------------------------------------------
\* Slip: the key is compared within the request's own rows.
KeyedSlip(t) == {}

\* Look a key up, return the row there is, otherwise insert one: assertions and
\* relationships (by their contents) and the content-addressed records (by id).
Keyed(t) == {r \in rows : r.table = t.table /\ r.key = t.key}

\* entity_relationships_v2 has no unique index a new row could break: its UNIQUE
\* constraint covers the payload, which holds the row's own id and time.
Unique(table) == table # "relationship"

InsertRead(w) ==
  /\ At(w, "insert", "start")
  /\ view' = [view EXCEPT ![w] = Ids(rows)]
  /\ IF Keyed(Task(w)) # {} THEN Respond(w) ELSE Goto(w, "write") /\ UNCHANGED trailVars
  /\ UNCHANGED <<task, todo, tables, restarts>>

InsertWrite(w) ==
  /\ At(w, "insert", "write")
  /\ CanWrite
  /\ LET t == Task(w) IN
       IF Unique(t.table) /\ Keyed(t) # {}
       THEN Fails(w) /\ UNCHANGED rows
       ELSE /\ rows' = rows \cup {[id |-> w, table |-> t.table, key |-> t.key, seen |-> view[w]]}
            /\ Respond(w)
  /\ UNCHANGED <<task, todo, view, labels, assertions, entities, caseRow, reviews, clock, caseLog, restarts>>

\* Rows with a fresh identifier: notes, annotations, drafts, sources, cases.
AppendRow(w) ==
  /\ At(w, "append", "start")
  /\ CanWrite
  /\ rows' = rows \cup {[id |-> w, table |-> Task(w).table, key |-> w, seen |-> {}]}
  /\ Respond(w)
  /\ UNCHANGED <<task, todo, view, labels, assertions, entities, caseRow, reviews, clock, caseLog, restarts>>

----------------------------------------------------------------------------
\* update_case (PATCH /cases/{id}): the case is read, the fields the request sets are
\* changed in the copy, and the whole row is replaced.
CaseRead(w) ==
  /\ At(w, "case", "start")
  /\ view' = [view EXCEPT ![w] = {[row |-> caseRow, base |-> Len(caseLog)]}]
  /\ Goto(w, "write")
  /\ UNCHANGED <<task, todo, tables, trailVars, restarts>>

\* Slip: fields the request leaves out are reset.
CopyWithSlip(row, fields, w) == [f \in Field |-> IF f \in fields THEN w ELSE NoEvent]

CopyWith(row, fields, w) == [f \in Field |-> IF f \in fields THEN w ELSE row[f]]

CaseWrite(w) ==
  /\ At(w, "case", "write")
  /\ CanWrite
  /\ \E read \in view[w] :
       /\ caseRow' = CopyWith(read.row, Task(w).fields, w)
       /\ caseLog' = Append(caseLog, [by |-> w, base |-> read.base])
  /\ Respond(w)
  /\ UNCHANGED <<task, todo, view, labels, assertions, entities, rows, reviews, clock, restarts>>

----------------------------------------------------------------------------
\* A case, an entity or a source that the request names is not there: 404 or 422,
\* before anything is looked up or written.
Missing(w) ==
  /\ \E op \in {"insert", "append", "case"} : At(w, op, "start")
  /\ Refuse(w)
  /\ UNCHANGED <<task, todo, view, tables, restarts>>

\* A wait for the write lock that lasts too long.  The CSV import turns it into a
\* rejected row and goes on.
WriteTimesOut(w) ==
  /\ ~CanWrite
  /\ \/ step[w] \in {"write", "source", "entity", "assert"}
     \/ step[w] = "start" /\ Task(w).op \in {"review_label", "append"}
  /\ step[Startup] = "done"
  /\ IF Task(w).op = "import" THEN NextItem(w) ELSE Fails(w) /\ UNCHANGED todo
  /\ UNCHANGED <<task, view, tables, restarts>>

AuditStep == (\E e \in Event : TrailStep(e)) /\ UNCHANGED <<local, tables, restarts>>

\* The process dies between any two statements and starts again.
Restart ==
  /\ restarts < MaxRestarts
  /\ restarts' = restarts + 1
  /\ TrailCrash
  /\ step' = [w \in Worker |-> IF w = Startup THEN "start"
                               ELSE IF step[w] = "done" \/ (step[w] = "start" /\ todo[w] = Items(w))
                               THEN step[w] ELSE "lost"]
  /\ todo' = [todo EXCEPT ![Startup] = << >>]
  /\ UNCHANGED <<task, view, tables>>

RegistryStep(w) ==
  \/ NoItems(w) \/ AddLabelRead(w) \/ AddLabelWrite(w) \/ ReviewLabel(w)
  \/ MigrateList(w) \/ MigrateCheck(w) \/ ImportRow(w)
  \/ FindEntity(w) \/ CreateEntity(w) \/ BuildAssertion(w)
  \/ ReviewRead(w) \/ ReviewWrite(w)
  \/ InsertRead(w) \/ InsertWrite(w) \/ AppendRow(w)
  \/ CaseRead(w) \/ CaseWrite(w)
  \/ Missing(w) \/ WriteTimesOut(w)

Next == (\E w \in Worker : RegistryStep(w)) \/ AuditStep \/ Restart

Spec == Init /\ [][Next]_deskVars

----------------------------------------------------------------------------
\* An audit event tells of an operation that took effect, on every item it names, and
\* an operation that was refused or failed left none (app.py: every endpoint calls
\* audit() after its operation committed).
AuditedIsApplied ==
  \A e \in events :
    /\ step[e] = "done"
    /\ CASE task[e].op = "label" -> \A k \in DOMAIN task[e].items : <<e, k>> \in Ids(labels)
         [] task[e].op \in {"review", "review_label"} -> \E i \in DOMAIN reviews : reviews[i].by = e
         [] task[e].op = "insert" -> Keyed(task[e]) # {}
         [] task[e].op = "append" -> e \in Ids(rows)
         [] task[e].op = "case" -> \E i \in DOMAIN caseLog : caseLog[i].by = e
         [] OTHER -> todo[e] = << >>

\* Two approved labels of one address name the same owner, unless they were added at
\* the same time or a reviewer approved one of them without regard to the other
\* (storage.py, add_label and review_label; README: "an unresolved or conflicting
\* label is excluded from attribution").
LabelsAgree ==
  \A l, m \in labels :
    (/\ l.address = m.address /\ l.owner # m.owner
     /\ l.status = "APPROVED" /\ m.status = "APPROVED")
    => \/ l.id \notin m.seen /\ m.id \notin l.seen
       \/ \E i \in DOMAIN reviews : reviews[i].target \in {l.id, m.id} /\ reviews[i].status = "APPROVED"

\* A label has one v2 assertion, whatever crash cut a migration off, unless two
\* migrations ran at the same time; and that assertion is REVIEWED exactly if the label
\* is APPROVED, unless one of them was reviewed after the label was listed
\* (storage.py, migrate_legacy_labels_to_assertions).
MigrationFaithful ==
  \A a \in assertions : a.origin # NoLabel =>
    /\ \A b \in assertions : a.origin = b.origin /\ a.id # b.id
                               => a.id \notin b.seen /\ b.id \notin a.seen
    /\ \A l \in labels : l.id = a.origin =>
         \/ (a.state = "REVIEWED") = (l.status = "APPROVED")
         \/ \E i \in DOMAIN reviews : \/ reviews[i].target = a.id
                                      \/ i > a.base /\ reviews[i].target = l.id

\* The review history explains the state it led to: a label has the status its latest
\* event by time stamp gave it, an assertion the state of the event committed last
\* (storage.py, review_label and review_entity_address_assertion_v2).
HistoryExplains ==
  /\ \A l \in labels : \A i \in DOMAIN reviews :
       (/\ reviews[i].target = l.id
        /\ \A j \in DOMAIN reviews : reviews[j].target = l.id => reviews[j].at <= reviews[i].at)
       => l.status = reviews[i].status
  /\ \A a \in assertions : \A i \in DOMAIN reviews :
       (reviews[i].target = a.id /\ \A j \in DOMAIN reviews : j > i => reviews[j].target # a.id)
       => a.state = reviews[i].status

\* A field keeps the value an audited update gave it until another update sets that
\* field, or writes back a copy of the case it had read before (storage.py,
\* update_case).
UpdatesStand ==
  \A i \in DOMAIN caseLog : \A f \in task[caseLog[i].by].fields :
    \/ caseRow[f] = caseLog[i].by
    \/ \E j \in DOMAIN caseLog : j > i /\ (f \in task[caseLog[j].by].fields \/ caseLog[j].base < i)

\* A key has one row.  Only relationships can be doubled, by requests that both looked
\* before either wrote; elsewhere the slower request fails and stays unaudited
\* (storage.py, create_entity_relationship_v2 and the save_* methods).
OneRowPerKey ==
  \A r, s \in rows :
    r.table = s.table /\ r.key = s.key /\ r.id # s.id
    => r.table = "relationship" /\ r.id \notin s.seen /\ s.id \notin r.seen
=============================================================================
