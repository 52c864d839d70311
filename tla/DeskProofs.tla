----------------------------- MODULE DeskProofs -----------------------------
(***************************************************************************)
(* Whatever the endpoints do, they touch the audit trail only as record    *)
(* and crash do: the desk is an instance of the trail, and what is proved  *)
(* of the trail holds of it.  Then the registries, table by table: what a  *)
(* thread has read and not yet written back is part of each invariant.     *)
(***************************************************************************)
EXTENDS Desk, AuditTrailProofs, FiniteSetTheorems

TrailMoves == [TrailNext]_trailVars

\* An endpoint that answers calls record_audit; the startup thread does not.
LEMMA RespondCalls ==
  ASSUME NEW w \in Worker, Respond(w)
  PROVE  TrailMoves
<1>1. CASE w = Startup
  BY <1>1 DEF Respond, TrailMoves
<1>2. CASE w # Startup
  <2>1. w \in Event
    BY <1>2 DEF Worker
  <2>2. CallAudit(w)
    BY <1>2 DEF Respond
  <2> QED BY <2>1, <2>2 DEF TrailMoves, TrailNext
<1> QED BY <1>1, <1>2

\* A step of a registry answers its request, or leaves the trail alone.
LEMMA RegistryTrail ==
  ASSUME NEW w \in Worker, RegistryStep(w)
  PROVE  Respond(w) \/ UNCHANGED trailVars
<1>1. NextItem(w) => Respond(w) \/ UNCHANGED trailVars
  BY DEF NextItem
<1>2. CASE NoItems(w) \/ AddLabelRead(w) \/ AddLabelWrite(w) \/ ReviewLabel(w)
  BY <1>1, <1>2 DEF NoItems, AddLabelRead, AddLabelWrite, ReviewLabel, Refuse
<1>3. CASE MigrateList(w) \/ MigrateCheck(w) \/ ImportRow(w)
  BY <1>1, <1>3 DEF MigrateList, MigrateCheck, ImportRow, trailVars
<1>4. CASE FindEntity(w) \/ CreateEntity(w) \/ BuildAssertion(w)
  BY <1>1, <1>4 DEF FindEntity, CreateEntity, BuildAssertion
<1>5. CASE ReviewRead(w) \/ ReviewWrite(w)
  BY <1>5 DEF ReviewRead, ReviewWrite, Refuse
<1>6. CASE InsertRead(w) \/ InsertWrite(w) \/ AppendRow(w)
  BY <1>6 DEF InsertRead, InsertWrite, AppendRow, Fails
<1>7. CASE CaseRead(w) \/ CaseWrite(w) \/ Missing(w) \/ WriteTimesOut(w)
  BY <1>1, <1>7 DEF CaseRead, CaseWrite, Missing, WriteTimesOut, Refuse, Fails
<1> QED BY <1>2, <1>3, <1>4, <1>5, <1>6, <1>7 DEF RegistryStep

LEMMA DeskMoves == [Next]_deskVars => TrailMoves
<1> SUFFICES ASSUME [Next]_deskVars
             PROVE  TrailMoves
  OBVIOUS
<1>1. ASSUME NEW w \in Worker, RegistryStep(w)
      PROVE  TrailMoves
  BY <1>1, RegistryTrail, RespondCalls DEF TrailMoves
<1>2. CASE AuditStep
  BY <1>2 DEF AuditStep, TrailMoves, TrailNext
<1>3. CASE Restart
  BY <1>3 DEF Restart, TrailMoves, TrailNext
<1>4. CASE UNCHANGED deskVars
  BY <1>4 DEF deskVars, TrailMoves
<1> QED BY <1>1, <1>2, <1>3, <1>4 DEF Next

\* The desk implements the trail: for every set of requests, whatever they ask for, in
\* every interleaving, over lock timeouts and restarts, audit events are recorded as
\* record_audit alone would record them (app.py, audit; storage.py, record_audit).
THEOREM DeskIsTrail == Spec => TrailSpec
<1>1. Init => TrailInit
  BY DEF Init
<1> QED BY <1>1, DeskMoves, PTL DEF Spec, TrailSpec, TrailMoves

\* The chain the endpoints leave behind is linear and complete (storage.py,
\* verify_audit_chain_v2).
THEOREM DeskChainIntact == Spec => []ChainIntact
BY DeskIsTrail, TrailIntact, PTL

\* The endpoints only ever append to the log (storage.py, record_audit).
THEOREM DeskAppendsOnly == Spec => AppendOnly
BY DeskIsTrail, TrailAppendsOnly, PTL

-----------------------------------------------------------------------------
(* The threads of the desk: what a step does to the one that takes it *)

\* A sequence of whatever it holds.
Sequence(s) == s \in Seq(Range(s))

\* A sequence is one over the members it has.
LEMMA SequenceOver ==
  ASSUME NEW S, NEW s \in Seq(S)
  PROVE  Sequence(s)
<1>1. Len(s) \in Nat /\ DOMAIN s = 1 .. Len(s) /\ SubSeq(s, 1, Len(s)) = s
  BY LenProperties, SubSeqFull
<1>2. \A i \in 1 .. Len(s) : s[i] \in Range(s)
  BY <1>1 DEF Range
<1>3. SubSeq(s, 1, Len(s)) \in Seq(Range(s))
  BY <1>1, <1>2, SubSeqProperties
<1> QED BY <1>1, <1>3 DEF Sequence

LEMMA SequenceMembers ==
  ASSUME NEW s, Sequence(s)
  PROVE  /\ Len(s) \in Nat /\ DOMAIN s = 1 .. Len(s)
         /\ s = << >> <=> Len(s) = 0
BY LenProperties, EmptySeq DEF Sequence

LEMMA SequenceTail ==
  ASSUME NEW s, Sequence(s), s # << >>
  PROVE  /\ Sequence(Tail(s)) /\ Len(s) \in Nat \ {0} /\ Len(Tail(s)) = Len(s) - 1
         /\ Head(s) = s[1] /\ 1 \in DOMAIN s
         /\ \A i \in DOMAIN Tail(s) : i + 1 \in DOMAIN s /\ Tail(s)[i] = s[i + 1]
         /\ Tail(s) = << >> <=> Len(s) = 1
<1>1. /\ Len(s) \in Nat \ {0} /\ DOMAIN s = 1 .. Len(s)
  BY SequenceMembers
<1>2. /\ Tail(s) \in Seq(Range(s)) /\ Len(Tail(s)) = Len(s) - 1 /\ Head(s) = s[1]
      /\ \A i \in 1 .. Len(Tail(s)) : Tail(s)[i] = s[i + 1]
  BY HeadTailProperties DEF Sequence
<1>3. DOMAIN Tail(s) = 1 .. Len(s) - 1
  BY <1>2, LenProperties
<1>4. Sequence(Tail(s))
  BY <1>2, SequenceOver
<1>5. Tail(s) = << >> <=> Len(s) = 1
  <2>1. PICK t : t = Tail(s)
    OBVIOUS
  <2>2. t = << >> <=> Len(t) = 0
    BY <1>4, <2>1, SequenceMembers
  <2> QED BY <1>1, <1>2, <2>1, <2>2
<1> QED BY <1>1, <1>2, <1>3, <1>4, <1>5

LEMMA SequenceAppend ==
  ASSUME NEW s, Sequence(s), NEW x
  PROVE  /\ Sequence(Append(s, x)) /\ Len(s) \in Nat /\ DOMAIN s = 1 .. Len(s)
         /\ Len(Append(s, x)) = Len(s) + 1 /\ DOMAIN Append(s, x) = 1 .. Len(s) + 1
         /\ Append(s, x)[Len(s) + 1] = x
         /\ \A i \in DOMAIN s : Append(s, x)[i] = s[i]
<1> DEFINE t == Append(s, x)
<1>1. s \in Seq(Range(s) \cup {x}) /\ x \in Range(s) \cup {x}
  BY DEF Sequence
<1>2. /\ t \in Seq(Range(s) \cup {x}) /\ Len(t) = Len(s) + 1 /\ t[Len(s) + 1] = x
      /\ \A i \in 1 .. Len(s) : t[i] = s[i]
  BY <1>1, AppendProperties
<1>3. Len(s) \in Nat /\ DOMAIN s = 1 .. Len(s) /\ DOMAIN t = 1 .. Len(s) + 1
  BY <1>1, <1>2, LenProperties
<1> HIDE DEF t
<1>4. Sequence(t)
  BY <1>2, SequenceOver
<1> QED BY <1>2, <1>3, <1>4 DEF t

\* The types, as far as the registries need them.
Shape ==
  /\ task \in Scenarios
  /\ DOMAIN step = Worker /\ DOMAIN todo = Worker /\ DOMAIN view = Worker
  /\ \A w \in Worker : Sequence(todo[w])
  /\ restarts \in Nat /\ clock \in Nat
  /\ Sequence(reviews) /\ Sequence(caseLog)
  /\ IsFiniteSet(labels)

Busy == {"check", "source", "entity", "assert"}

\* A thread in the middle of an item has one, and only two operations build assertions.
ItemsLeft ==
  \A w \in Worker :
    /\ step[w] \in Busy => Task(w).op \in {"migrate", "import"} /\ todo[w] # << >>
    /\ step[w] = "write" => Task(w).op # "import" /\ (Task(w).op = "label" => todo[w] # << >>)

Threads == Shape /\ ItemsLeft

\* The listing of the labels: one entry for each of them.
LEMMA ListedLabels ==
  ASSUME IsFiniteSet(labels)
  PROVE  /\ Sequence(Listed) /\ (Listed = << >> <=> labels = {})
         /\ \A i \in DOMAIN Listed : \E l \in labels :
              Listed[i] = [label |-> l.id, name |-> l.owner, status |-> l.status, base |-> Len(reviews)]
<1> DEFINE entry == [l \in labels |-> [label |-> l.id, name |-> l.owner, status |-> l.status,
                                      base |-> Len(reviews)]]
           S == {[label |-> l.id, name |-> l.owner, status |-> l.status, base |-> Len(reviews)] :
                   l \in labels}
<1>1. /\ \A l \in labels : entry[l] \in S
      /\ \A x \in S : \E l \in labels : x = entry[l]
  OBVIOUS
<1>2. entry \in [labels -> S] /\ Listed = SetToSeq(S)
  BY DEF Listed
<1>3. \A x \in S : \E l \in labels :
        x = [label |-> l.id, name |-> l.owner, status |-> l.status, base |-> Len(reviews)]
  OBVIOUS
<1> HIDE DEF entry, S
<1>4. IsFiniteSet(S)
  <2>1. entry \in Surjection(labels, S)
    BY <1>1, <1>2 DEF Surjection
  <2> QED BY <2>1, FS_Surjection DEF ExistsSurjection
<1>5. PICK n \in Nat : n = Cardinality(S) /\ \E f \in [1 .. n -> S] : IsInjective(f)
  <2>1. PICK n \in Nat : ExistsBijection(1 .. n, S)
    BY <1>4, FS_NatBijection
  <2>2. n = Cardinality(S)
    BY <2>1, FS_CountingElements
  <2> QED BY <2>1, <2>2 DEF ExistsBijection, Bijection, Injection
<1>6. Listed \in [1 .. n -> S]
  BY <1>2, <1>5 DEF SetToSeq
<1>7. Listed \in Seq(S) /\ Len(Listed) = n /\ DOMAIN Listed = 1 .. n
  BY <1>5, <1>6, SMT
<1>8. Listed = << >> <=> labels = {}
  <2>1. n = 0 <=> S = {}
    BY <1>4, <1>5, FS_EmptySet
  <2>2. S = {} <=> labels = {}
    BY <1>1
  <2>3. Listed = << >> <=> Len(Listed) = 0
    BY <1>7, SequenceOver, SequenceMembers
  <2> QED BY <1>7, <2>1, <2>2, <2>3
<1>9. \A i \in DOMAIN Listed : Listed[i] \in S
  BY <1>6, <1>7
<1> QED BY <1>3, <1>7, <1>8, <1>9, SequenceOver

\* A thread goes on within its item, on to its next item, or lists the labels.
GoesOn(w) == todo'[w] = todo[w] /\ step'[w] # "start"

TakesNext(w) ==
  /\ todo[w] # << >> /\ todo'[w] = Tail(todo[w])
  /\ step'[w] = IF Len(todo[w]) = 1 THEN "done" ELSE "start"

Lists(w) ==
  /\ Task(w).op = "migrate" /\ step[w] = "start" /\ todo[w] = << >>
  /\ todo'[w] = Listed /\ step'[w] = IF labels = {} THEN "done" ELSE "check"

\* A step of a thread leaves the other threads alone.
Alone(w) ==
  /\ UNCHANGED <<task, restarts>>
  /\ DOMAIN step' = Worker /\ DOMAIN todo' = Worker /\ DOMAIN view' = Worker
  /\ \A v \in Worker \ {w} : step'[v] = step[v] /\ todo'[v] = todo[v] /\ view'[v] = view[v]

LEMMA NextItemTakes ==
  ASSUME Threads, NEW w \in Worker, NextItem(w), todo[w] # << >>, UNCHANGED <<task, view, restarts>>
  PROVE  Alone(w) /\ TakesNext(w)
<1>1. /\ DOMAIN step = Worker /\ DOMAIN todo = Worker /\ DOMAIN view = Worker
      /\ todo' = [todo EXCEPT ![w] = Tail(todo[w])]
      /\ step' = [step EXCEPT ![w] = IF Len(todo[w]) = 1 THEN "done" ELSE "start"]
  BY DEF Threads, Shape, NextItem, Respond, Goto
<1> QED BY <1>1 DEF Alone, TakesNext

LEMMA StepsAlone ==
  ASSUME Threads, NEW w \in Worker, RegistryStep(w)
  PROVE  Alone(w) /\ step[w] # "done" /\ (GoesOn(w) \/ TakesNext(w) \/ Lists(w))
<1>1. DOMAIN step = Worker /\ DOMAIN todo = Worker /\ DOMAIN view = Worker
  BY DEF Threads, Shape
<1>2. /\ step[w] \in Busy => Task(w).op \in {"migrate", "import"} /\ todo[w] # << >>
      /\ step[w] = "write" => Task(w).op # "import" /\ (Task(w).op = "label" => todo[w] # << >>)
  BY DEF Threads, ItemsLeft
<1> DEFINE Result == Alone(w) /\ step[w] # "done" /\ (GoesOn(w) \/ TakesNext(w) \/ Lists(w))
<1> SUFFICES Result
  OBVIOUS
<1>3. ASSUME NEW s, s # "start", step[w] # "done", Goto(w, s), UNCHANGED <<task, todo, restarts>>,
             DOMAIN view' = DOMAIN view, \A v \in Worker \ {w} : view'[v] = view[v]
      PROVE  Result
  BY <1>1, <1>3 DEF Goto, Alone, GoesOn
<1>4. ASSUME step[w] # "done", Respond(w), UNCHANGED <<task, todo, view, restarts>>
      PROVE  Result
  BY <1>3, <1>4 DEF Respond
<1>5. ASSUME step[w] # "done", NextItem(w), todo[w] # << >>, UNCHANGED <<task, view, restarts>>
      PROVE  Result
  BY <1>5, NextItemTakes
<1> HIDE DEF Result
<1>6. CASE NoItems(w) \/ AddLabelRead(w) \/ AddLabelWrite(w) \/ ReviewLabel(w)
  <2>1. CASE NoItems(w)
    BY <1>4, <2>1 DEF NoItems, At
  <2>2. CASE AddLabelRead(w)
    BY <1>1, <1>3, <2>2 DEF AddLabelRead, At
  <2>3. CASE AddLabelWrite(w)
    BY <1>2, <1>5, <2>3 DEF AddLabelWrite, At
  <2>4. CASE ReviewLabel(w)
    BY <1>3, <1>4, <2>4 DEF ReviewLabel, At, Refuse
  <2> QED BY <1>6, <2>1, <2>2, <2>3, <2>4
<1>7. CASE MigrateList(w)
  <2>1. /\ Task(w).op = "migrate" /\ step[w] = "start" /\ todo[w] = << >>
        /\ todo' = [todo EXCEPT ![w] = Listed] /\ UNCHANGED <<task, view, restarts>>
        /\ step' = [step EXCEPT ![w] = IF labels = {} THEN "done" ELSE "check"]
    BY <1>7 DEF MigrateList, At, Respond, Goto
  <2> QED BY <1>1, <2>1 DEF Result, Alone, Lists
<1>8. CASE MigrateCheck(w)
  <2>1. CASE Migrated(Head(todo[w]).label) # {}
    <3>1. /\ todo[w] # << >> /\ step[w] # "done" /\ NextItem(w) /\ UNCHANGED <<task, restarts>>
          /\ view' = [view EXCEPT ![w] = Ids(assertions)]
      BY <1>2, <1>8, <2>1 DEF MigrateCheck, At, Busy
    <3>2. /\ todo' = [todo EXCEPT ![w] = Tail(todo[w])]
          /\ step' = [step EXCEPT ![w] = IF Len(todo[w]) = 1 THEN "done" ELSE "start"]
      BY <3>1 DEF NextItem, Respond, Goto
    <3> QED BY <1>1, <3>1, <3>2 DEF Result, Alone, TakesNext
  <2>2. CASE Migrated(Head(todo[w]).label) = {}
    BY <1>3, <1>8, <2>2 DEF MigrateCheck, At
  <2> QED BY <2>1, <2>2
<1>9. CASE ImportRow(w) \/ FindEntity(w) \/ CreateEntity(w)
  BY <1>3, <1>9 DEF ImportRow, FindEntity, CreateEntity, Building, At
<1>10. CASE BuildAssertion(w)
  BY <1>2, <1>5, <1>10 DEF BuildAssertion, Building, At, Busy
<1>11. CASE ReviewRead(w) \/ ReviewWrite(w)
  <2>1. CASE ReviewRead(w)
    BY <1>1, <1>3, <2>1 DEF ReviewRead, At, Refuse
  <2>2. CASE ReviewWrite(w)
    BY <1>4, <2>2 DEF ReviewWrite, At
  <2> QED BY <1>11, <2>1, <2>2
<1>12. CASE InsertRead(w)
  <2>1. PICK x : /\ view' = [view EXCEPT ![w] = x] /\ step[w] = "start"
                 /\ UNCHANGED <<task, todo, restarts>> /\ (Goto(w, "done") \/ Goto(w, "write"))
    BY <1>12 DEF InsertRead, Respond, At
  <2> QED BY <1>3, <2>1
<1>13. CASE InsertWrite(w) \/ AppendRow(w)
  BY <1>3, <1>4, <1>13 DEF InsertWrite, AppendRow, At, Fails
<1>14. CASE CaseRead(w) \/ CaseWrite(w)
  <2>1. CASE CaseRead(w)
    BY <1>1, <1>3, <2>1 DEF CaseRead, At
  <2>2. CASE CaseWrite(w)
    BY <1>4, <2>2 DEF CaseWrite, At
  <2> QED BY <1>14, <2>1, <2>2
<1>15. CASE WriteTimesOut(w)
  <2>1. step[w] # "done"
    BY <1>15 DEF WriteTimesOut
  <2>2. CASE Task(w).op = "import"
    BY <1>2, <1>5, <1>15, <2>1, <2>2 DEF WriteTimesOut, Busy
  <2>3. CASE Task(w).op # "import"
    BY <1>3, <1>15, <2>1, <2>3 DEF WriteTimesOut, Fails
  <2> QED BY <2>2, <2>3
<1>16. CASE Missing(w)
  <2>1. step[w] = "start" /\ Goto(w, "refused") /\ UNCHANGED <<task, todo, view, restarts>>
    BY <1>16 DEF Missing, At, Refuse
  <2> QED BY <1>3, <2>1
<1> QED
  BY <1>6, <1>7, <1>8, <1>9, <1>10, <1>11, <1>12, <1>13, <1>14, <1>15, <1>16 DEF RegistryStep, Result

\* Which operations touch which tables.
LEMMA TablesTouched ==
  ASSUME NEW w \in Worker, RegistryStep(w)
  PROVE  /\ labels' = labels \/ AddLabelWrite(w) \/ ReviewLabel(w)
         /\ assertions' = assertions \/ BuildAssertion(w) \/ ReviewWrite(w)
         /\ UNCHANGED <<reviews, clock>> \/ ReviewLabel(w) \/ ReviewRead(w) \/ ReviewWrite(w)
         /\ rows' = rows \/ InsertWrite(w) \/ AppendRow(w)
         /\ UNCHANGED <<caseRow, caseLog>> \/ CaseWrite(w)
<1>1. CASE NoItems(w) \/ AddLabelRead(w) \/ AddLabelWrite(w) \/ ReviewLabel(w)
  BY <1>1 DEF NoItems, AddLabelRead, AddLabelWrite, ReviewLabel, tables
<1>2. CASE MigrateList(w) \/ MigrateCheck(w) \/ ImportRow(w) \/ FindEntity(w)
  BY <1>2 DEF MigrateList, MigrateCheck, ImportRow, FindEntity, tables
<1>3. CASE CreateEntity(w) \/ BuildAssertion(w) \/ ReviewRead(w) \/ ReviewWrite(w)
  BY <1>3 DEF CreateEntity, BuildAssertion, ReviewRead, ReviewWrite
<1>4. CASE InsertRead(w) \/ InsertWrite(w) \/ AppendRow(w)
  BY <1>4 DEF InsertRead, InsertWrite, AppendRow, tables
<1>5. CASE CaseRead(w) \/ CaseWrite(w) \/ Missing(w) \/ WriteTimesOut(w)
  BY <1>5 DEF CaseRead, CaseWrite, Missing, WriteTimesOut, tables
<1> QED BY <1>1, <1>2, <1>3, <1>4, <1>5 DEF RegistryStep

\* How a thread comes to wait for a write, or to an item.
LEMMA WaysIn ==
  ASSUME Threads, NEW w \in Worker, RegistryStep(w)
  PROVE  /\ step'[w] = "write" => AddLabelRead(w) \/ ReviewRead(w) \/ InsertRead(w) \/ CaseRead(w)
         /\ step'[w] = "check" => MigrateList(w)
         /\ step'[w] \in {"source", "entity", "assert"} =>
              MigrateCheck(w) \/ ImportRow(w) \/ FindEntity(w) \/ CreateEntity(w)
<1>1. DOMAIN step = Worker
  BY DEF Threads, Shape
<1>2. ASSUME NEW s, Goto(w, s) PROVE step'[w] = s
  BY <1>1, <1>2 DEF Goto
<1>3. Respond(w) => step'[w] = "done"
  BY <1>1 DEF Respond, Goto
<1>4. NextItem(w) => step'[w] \in {"done", "start"}
  BY <1>1, <1>3 DEF NextItem, Goto
<1>5. CASE NoItems(w) \/ AddLabelWrite(w) \/ ReviewLabel(w) \/ BuildAssertion(w) \/ Missing(w)
  BY <1>2, <1>3, <1>4, <1>5 DEF NoItems, AddLabelWrite, ReviewLabel, BuildAssertion, Missing, Refuse
<1>6. CASE ReviewWrite(w) \/ InsertWrite(w) \/ AppendRow(w) \/ CaseWrite(w) \/ WriteTimesOut(w)
  BY <1>2, <1>3, <1>4, <1>6 DEF ReviewWrite, InsertWrite, AppendRow, CaseWrite, WriteTimesOut, Fails
<1>7. CASE AddLabelRead(w) \/ ReviewRead(w) \/ InsertRead(w) \/ CaseRead(w)
  BY <1>2, <1>3, <1>7 DEF AddLabelRead, ReviewRead, InsertRead, CaseRead, Refuse
<1>8. CASE MigrateList(w)
  BY <1>2, <1>3, <1>8 DEF MigrateList
<1>9. CASE MigrateCheck(w) \/ ImportRow(w) \/ FindEntity(w) \/ CreateEntity(w)
  BY <1>2, <1>4, <1>9 DEF MigrateCheck, ImportRow, FindEntity, CreateEntity
<1> QED BY <1>5, <1>6, <1>7, <1>8, <1>9 DEF RegistryStep

\* A step of the desk: of one thread, of the audit trail alone, or a restart.
Quiet == UNCHANGED <<task, step, todo, view, labels, assertions, entities, rows, caseRow, reviews,
                     clock, caseLog, restarts>>

LEMMA StepKinds ==
  ASSUME [Next]_deskVars
  PROVE  (\E w \in Worker : RegistryStep(w)) \/ Quiet \/ Restart
BY DEF Next, AuditStep, deskVars, Quiet, local, tables

LEMMA Operations ==
  ASSUME task \in Scenarios, NEW w \in Worker
  PROVE  /\ Task(w).op \in Operation
         /\ w = Startup => Task(w).op = "migrate"
         /\ w # Startup => w \in Event /\ Task(w) = task[w]
BY DeskAssumption DEF Task, Worker, Operation

LEMMA ThreadsInit == Init => Threads
<1> SUFFICES ASSUME Init PROVE Threads
  OBVIOUS
<1>1. task \in Scenarios /\ Sequence(<< >>)
  <2>1. << >> \in Seq({})
    BY EmptySeq
  <2> QED BY <2>1, SequenceOver DEF Init
<1>2. \A w \in Worker : Sequence(todo[w])
  BY <1>1, DeskAssumption DEF Init, Items, Sequence, Task, Worker
<1>3. Shape
  BY <1>1, <1>2, DeskAssumption DEF Init, Shape
<1>4. ItemsLeft
  BY DEF Init, ItemsLeft, Busy
<1> QED BY <1>3, <1>4 DEF Threads

LEMMA ThreadsNext == Threads /\ [Next]_deskVars => Threads'
<1> SUFFICES ASSUME Threads, [Next]_deskVars PROVE Threads'
  OBVIOUS
<1> USE DEF Threads
<1>1. ASSUME NEW w \in Worker, RegistryStep(w)
      PROVE  Threads'
  <2>1. Alone(w) /\ (GoesOn(w) \/ TakesNext(w) \/ Lists(w))
    BY <1>1, StepsAlone
  <2>2. \A v \in Worker : Sequence(todo'[v])
    <3>1. Sequence(todo'[w])
      <4>1. Sequence(todo[w]) /\ IsFiniteSet(labels)
        BY DEF Shape
      <4>2. Sequence(Listed)
        BY <4>1, ListedLabels
      <4>3. todo[w] # << >> => Sequence(Tail(todo[w]))
        BY <4>1, SequenceTail
      <4> QED BY <2>1, <4>1, <4>2, <4>3 DEF GoesOn, TakesNext, Lists
    <3> QED BY <2>1, <3>1 DEF Alone, Shape
  <2>3. clock' \in Nat /\ Sequence(reviews') /\ Sequence(caseLog')
    <3>1. clock' = clock \/ clock' = clock + 1
      BY <1>1, TablesTouched DEF ReviewLabel, ReviewRead, ReviewWrite
    <3>2. reviews' = reviews \/ \E x : reviews' = Append(reviews, x)
      BY <1>1, TablesTouched DEF ReviewLabel, ReviewRead, ReviewWrite
    <3>3. caseLog' = caseLog \/ \E x : caseLog' = Append(caseLog, x)
      BY <1>1, TablesTouched DEF CaseWrite
    <3>4. Sequence(reviews) /\ Sequence(caseLog) /\ clock \in Nat
      BY DEF Shape
    <3>5. \A x : Sequence(Append(reviews, x)) /\ Sequence(Append(caseLog, x))
      BY <3>4, SequenceAppend
    <3>6. clock' \in Nat
      BY <3>1, <3>4
    <3> QED BY <3>2, <3>3, <3>4, <3>5, <3>6, Zenon
  <2>4. IsFiniteSet(labels')
    <3>1. CASE AddLabelWrite(w)
      BY <3>1, FS_AddElement DEF AddLabelWrite, Shape
    <3>2. CASE ReviewLabel(w)
      <4>1. CASE Task(w).target \in Ids(labels)
        <5> DEFINE change == [l \in labels |-> IF l.id = Task(w).target
                                               THEN [l EXCEPT !.status = Task(w).status] ELSE l]
        <5>1. labels' = {change[l] : l \in labels}
          BY <3>2, <4>1 DEF ReviewLabel
        <5> HIDE DEF change
        <5>2. change \in Surjection(labels, labels')
          BY <5>1 DEF Surjection, change
        <5> QED BY <5>2, FS_Surjection DEF ExistsSurjection, Shape
      <4> QED BY <3>2, <4>1 DEF ReviewLabel, Shape
    <3> QED BY <1>1, <3>1, <3>2, TablesTouched DEF Shape
  <2>5. Shape'
    BY <2>1, <2>2, <2>3, <2>4 DEF Shape, Alone
  <2>6. ItemsLeft'
    <3>1. /\ step'[w] \in Busy => Task(w).op \in {"migrate", "import"} /\ todo'[w] # << >>
          /\ step'[w] = "write" => Task(w).op # "import" /\ (Task(w).op = "label" => todo'[w] # << >>)
      <4>1. CASE step'[w] = "write"
        <5>1. AddLabelRead(w) \/ ReviewRead(w) \/ InsertRead(w) \/ CaseRead(w)
          BY <1>1, <4>1, WaysIn
        <5> QED BY <4>1, <5>1 DEF AddLabelRead, ReviewRead, InsertRead, CaseRead, At, Busy
      <4>2. CASE step'[w] = "check"
        <5>1. MigrateList(w)
          BY <1>1, <4>2, WaysIn
        <5>2. Task(w).op = "migrate" /\ todo'[w] = Listed /\ labels # {}
          BY <2>1, <4>2, <5>1 DEF MigrateList, At, Respond, Goto, Shape
        <5>3. Listed # << >>
          <6>1. IsFiniteSet(labels)
            BY DEF Shape
          <6>2. Listed = << >> <=> labels = {}
            BY <6>1, ListedLabels
          <6> QED BY <5>2, <6>2
        <5> QED BY <4>2, <5>2, <5>3 DEF Busy
      <4>3. CASE step'[w] \in {"source", "entity", "assert"}
        <5>1. MigrateCheck(w) \/ ImportRow(w) \/ FindEntity(w) \/ CreateEntity(w)
          BY <1>1, <4>3, WaysIn
        <5>2. Task(w).op \in {"migrate", "import"} /\ todo[w] # << >>
          BY <5>1 DEF MigrateCheck, ImportRow, FindEntity, CreateEntity, Building, At, ItemsLeft, Busy
        <5>3. todo'[w] = todo[w]
          BY <2>1, <4>3 DEF GoesOn, TakesNext, Lists
        <5> QED BY <4>3, <5>2, <5>3 DEF Busy
      <4> QED BY <4>1, <4>2, <4>3 DEF Busy
    <3>2. \A v \in Worker : Task(v)' = Task(v)
      BY <2>1 DEF Task, Alone
    <3> QED BY <2>1, <3>1, <3>2 DEF ItemsLeft, Alone
  <2> QED BY <2>5, <2>6
<1>2. CASE Quiet
  BY <1>2 DEF Quiet, Shape, ItemsLeft, Task
<1>3. CASE Restart
  <2>1. Shape'
    <3>1. << >> \in Seq({})
      BY EmptySeq
    <3>2. Sequence(<< >>)
      BY <3>1, SequenceOver
    <3>3. /\ step' = [w \in Worker |-> step'[w]] /\ DOMAIN step' = Worker
          /\ todo' = [todo EXCEPT ![Startup] = << >>] /\ restarts' = restarts + 1
          /\ UNCHANGED <<task, view, clock, reviews, caseLog, labels>>
      BY <1>3 DEF Restart, tables
    <3>4. DOMAIN todo' = Worker /\ \A w \in Worker : Sequence(todo'[w])
      BY <3>2, <3>3 DEF Shape
    <3> QED BY <3>3, <3>4 DEF Shape
  <2>2. \A w \in Worker : step'[w] \notin Busy \cup {"write"} /\ Task(w)' = Task(w)
    BY <1>3 DEF Restart, Busy, Task
  <2> QED BY <2>1, <2>2 DEF ItemsLeft
<1> QED BY <1>1, <1>2, <1>3, StepKinds

-----------------------------------------------------------------------------
(* One row per key *)

\* A row is named by the request that inserted it, which is through with it, and by
\* nothing else; it saw only rows that were there.
RowIds ==
  \A r \in rows :
    /\ r.id \in Event /\ step[r.id] = "done" /\ r.seen \subseteq Ids(rows)
    /\ (r.key = r.id /\ task[r.id].op = "append") \/ r.key \notin Event

\* A request that is about to insert a row saw none with its key: one that is there
\* now has been inserted since.
RowLookups ==
  \A w \in Worker : Task(w).op = "insert" /\ step[w] = "write" =>
    view[w] \subseteq Ids(rows) /\ \A r \in Keyed(Task(w)) : r.id \notin view[w]

Rows == RowIds /\ RowLookups /\ OneRowPerKey

LEMMA RowInserted ==
  ASSUME Threads, Rows, NEW w \in Worker, InsertWrite(w), rows' # rows
  PROVE  RowIds' /\ RowLookups' /\ OneRowPerKey'
<1> DEFINE t == Task(w)
           new == [id |-> w, table |-> t.table, key |-> t.key, seen |-> view[w]]
<1>1. /\ t.op = "insert" /\ step[w] = "write" /\ rows' = rows \cup {new} /\ Respond(w)
      /\ Unique(t.table) => Keyed(t) = {}
      /\ UNCHANGED <<task, view>>
  BY DEF InsertWrite, At
<1>2. /\ task \in Scenarios /\ DOMAIN step = Worker
      /\ step' = [step EXCEPT ![w] = "done"]
  BY <1>1 DEF Threads, Shape, Respond, Goto
<1>3. w \in Event /\ t = task[w] /\ t.key \notin Event
  BY <1>1, <1>2, Operations, DeskAssumption
<1>4. new.id = w /\ new.table = t.table /\ new.key = t.key /\ new.seen = view[w]
  OBVIOUS
<1>5. \A r \in rows : r.id \in Event /\ r.id # w /\ w \notin r.seen
  BY <1>1 DEF Rows, RowIds, Ids
<1>6. view[w] \subseteq Ids(rows) /\ \A r \in Keyed(t) : r.id \notin view[w]
  BY <1>1 DEF Rows, RowLookups
<1> HIDE DEF new, t
<1>7. Ids(rows') = Ids(rows) \cup {w}
  BY <1>1, <1>4 DEF Ids
<1>8. RowIds'
  BY <1>1, <1>2, <1>3, <1>4, <1>5, <1>6, <1>7 DEF Rows, RowIds, Worker
<1>9. RowLookups'
  <2>1. ASSUME NEW v \in Worker, Task(v).op = "insert", step'[v] = "write"
        PROVE  view[v] \subseteq Ids(rows) /\ \A r \in Keyed(Task(v))' : r.id \notin view[v]
    <3>1. v # w /\ step[v] = "write"
      BY <1>2, <2>1
    <3>2. view[v] \subseteq Ids(rows) /\ \A r \in Keyed(Task(v)) : r.id \notin view[v]
      BY <2>1, <3>1 DEF Rows, RowLookups
    <3>3. w \notin view[v]
      BY <1>5, <3>2 DEF Ids
    <3>4. Keyed(Task(v))' \subseteq Keyed(Task(v)) \cup {new}
      BY <1>1 DEF Keyed, Task
    <3> QED BY <1>4, <3>2, <3>3, <3>4
  <2>2. \A v \in Worker : Task(v)' = Task(v)
    BY <1>1 DEF Task
  <2> QED BY <1>1, <1>7, <2>1, <2>2 DEF RowLookups
<1>10. OneRowPerKey'
  <2>1. ASSUME NEW r \in rows, r.table = t.table, r.key = t.key
        PROVE  t.table = "relationship" /\ r.id \notin view[w] /\ w \notin r.seen
    <3>1. r \in Keyed(t)
      BY <2>1 DEF Keyed
    <3> QED BY <1>1, <1>5, <1>6, <3>1 DEF Unique
  <2> QED BY <1>1, <1>4, <2>1 DEF Rows, OneRowPerKey
<1> QED BY <1>8, <1>9, <1>10

LEMMA RowAppended ==
  ASSUME Threads, Rows, NEW w \in Worker, AppendRow(w)
  PROVE  RowIds' /\ RowLookups' /\ OneRowPerKey'
<1> DEFINE new == [id |-> w, table |-> Task(w).table, key |-> w, seen |-> {}]
<1>1. /\ Task(w).op = "append" /\ step[w] = "start" /\ rows' = rows \cup {new} /\ Respond(w)
      /\ UNCHANGED <<task, view>>
  BY DEF AppendRow, At
<1>2. /\ task \in Scenarios /\ DOMAIN step = Worker
      /\ step' = [step EXCEPT ![w] = "done"]
  BY <1>1 DEF Threads, Shape, Respond, Goto
<1>3. w \in Event /\ Task(w) = task[w]
  BY <1>1, <1>2, Operations
<1>4. new.id = w /\ new.key = w /\ new.seen = {}
  OBVIOUS
<1>5. \A r \in rows : r.id \in Event /\ r.id # w /\ w \notin r.seen /\ r.key # w
  BY <1>1, <1>3 DEF Rows, RowIds, Ids
<1> HIDE DEF new
<1>6. Ids(rows') = Ids(rows) \cup {w}
  BY <1>1, <1>4 DEF Ids
<1>7. RowIds'
  BY <1>1, <1>2, <1>3, <1>4, <1>5, <1>6 DEF Rows, RowIds, Worker
<1>8. RowLookups'
  <2>1. ASSUME NEW v \in Worker, Task(v).op = "insert", step'[v] = "write"
        PROVE  view[v] \subseteq Ids(rows) /\ \A r \in Keyed(Task(v))' : r.id \notin view[v]
    <3>1. v # w /\ step[v] = "write" /\ v \in Event /\ Task(v) = task[v]
      BY <1>2, <2>1, Operations
    <3>2. Task(v).key # w
      BY <1>2, <1>3, <2>1, <3>1, DeskAssumption
    <3>3. Keyed(Task(v))' = Keyed(Task(v))
      BY <1>1, <1>4, <3>2 DEF Keyed, Task
    <3> QED BY <2>1, <3>1, <3>3 DEF Rows, RowLookups
  <2>2. \A v \in Worker : Task(v)' = Task(v)
    BY <1>1 DEF Task
  <2> QED BY <1>1, <1>6, <2>1, <2>2 DEF RowLookups
<1>9. OneRowPerKey'
  BY <1>1, <1>4, <1>5 DEF Rows, OneRowPerKey
<1> QED BY <1>7, <1>8, <1>9

LEMMA RowsNext == Threads /\ Rows /\ [Next]_deskVars => Rows'
<1> SUFFICES ASSUME Threads, Rows, [Next]_deskVars PROVE Rows'
  OBVIOUS
<1>1. ASSUME NEW w \in Worker, RegistryStep(w) PROVE Rows'
  <2>1. Alone(w) /\ step[w] # "done"
    BY <1>1, StepsAlone
  <2>2. CASE rows' = rows
    <3>1. RowIds'
      BY <2>1, <2>2 DEF Rows, RowIds, Alone, Ids, Worker
    <3>2. OneRowPerKey'
      BY <2>2 DEF Rows, OneRowPerKey
    <3>3. \A v \in Worker : Task(v)' = Task(v) /\ Keyed(Task(v))' = Keyed(Task(v))
      BY <2>1, <2>2 DEF Task, Keyed, Alone
    <3>4. ASSUME Task(w).op = "insert", step'[w] = "write"
          PROVE  view'[w] \subseteq Ids(rows) /\ Keyed(Task(w)) = {}
      <4>1. InsertRead(w)
        BY <1>1, <3>4, WaysIn DEF AddLabelRead, ReviewRead, CaseRead, At
      <4>2. view'[w] = Ids(rows)
        BY <4>1 DEF InsertRead, Threads, Shape
      <4>3. Keyed(Task(w)) # {} => step'[w] = "done"
        BY <4>1 DEF InsertRead, Respond, Goto, Threads, Shape
      <4> QED BY <3>4, <4>2, <4>3
    <3>5. RowLookups'
      BY <2>1, <2>2, <3>3, <3>4 DEF Rows, RowLookups, Alone
    <3> QED BY <3>1, <3>2, <3>5 DEF Rows
  <2>3. CASE rows' # rows
    BY <1>1, <2>3, TablesTouched, RowInserted, RowAppended DEF Rows
  <2> QED BY <2>2, <2>3
<1>2. CASE Quiet
  BY <1>2 DEF Quiet, Rows, RowIds, RowLookups, OneRowPerKey, Ids, Keyed, Task
<1>3. CASE Restart
  <2>1. /\ UNCHANGED <<task, rows>>
        /\ \A e \in Event : step[e] = "done" => step'[e] = "done"
        /\ \A w \in Worker : step'[w] # "write"
    BY <1>3, DeskAssumption DEF Restart, tables, Worker
  <2> QED BY <2>1 DEF Rows, RowIds, RowLookups, OneRowPerKey, Ids
<1> QED BY <1>1, <1>2, <1>3, StepKinds

\* Whatever requests look a key up and insert at the same time, over lock timeouts and
\* restarts, a key has one row; only relationships can be doubled, by requests that
\* both looked before either wrote (storage.py, create_entity_relationship_v2 and the
\* save_* methods).
THEOREM KeysHaveOneRow == Spec => []OneRowPerKey
<1>1. Init => Rows
  BY DEF Init, Rows, RowIds, RowLookups, OneRowPerKey
<1> QED BY <1>1, ThreadsInit, ThreadsNext, RowsNext, PTL DEF Spec, Rows

-----------------------------------------------------------------------------
(* What an update of the case leaves *)

\* After the first n updates the fields of row are explained: an update of a field
\* stands unless a later one set the field, or put a copy back that was read before.
Stands(row, n) ==
  \A i \in 1 .. n : \A f \in task[caseLog[i].by].fields :
    \/ row[f] = caseLog[i].by
    \/ \E j \in 1 .. n : j > i /\ (f \in task[caseLog[j].by].fields \/ caseLog[j].base < i)

\* The table, and the copies the requests have read and will put back.
Updates ==
  /\ \A i \in DOMAIN caseLog :
       /\ caseLog[i].by \in Event /\ task[caseLog[i].by].op = "case" /\ caseLog[i].base \in Nat
  /\ Stands(caseRow, Len(caseLog))
  /\ \A w \in Worker : Task(w).op = "case" /\ step[w] = "write" =>
       \A read \in view[w] : read.base \in 0 .. Len(caseLog) /\ Stands(read.row, read.base)

LEMMA CaseUpdated ==
  ASSUME Threads, Updates, NEW w \in Worker, CaseWrite(w)
  PROVE  Updates'
<1>1. /\ Task(w).op = "case" /\ step[w] = "write" /\ Respond(w) /\ UNCHANGED <<task, view>>
      /\ task \in Scenarios /\ Sequence(caseLog) /\ DOMAIN step = Worker
  BY DEF CaseWrite, At, Threads, Shape
<1>2. w \in Event /\ Task(w) = task[w] /\ task[w].fields \subseteq Field
  BY <1>1, Operations, DeskAssumption
<1>3. PICK read \in view[w] : /\ caseRow' = CopyWith(read.row, task[w].fields, w)
                              /\ caseLog' = Append(caseLog, [by |-> w, base |-> read.base])
  BY <1>2 DEF CaseWrite
<1>4. PICK n : n = Len(caseLog)
  OBVIOUS
<1>5. /\ n \in Nat /\ DOMAIN caseLog = 1 .. n /\ DOMAIN caseLog' = 1 .. n + 1 /\ Len(caseLog') = n + 1
      /\ \A i \in 1 .. n : caseLog'[i] = caseLog[i]
      /\ caseLog'[n + 1].by = w /\ caseLog'[n + 1].base = read.base
  BY <1>1, <1>3, <1>4, SequenceAppend
<1>6. /\ read.base \in 0 .. n /\ Stands(read.row, read.base)
  BY <1>1, <1>4 DEF Updates
<1>7. ASSUME NEW row, NEW b \in 0 .. n, Stands(row, b)
      PROVE  Stands(row, b)'
  <2>1. \A i \in 1 .. b : caseLog'[i] = caseLog[i]
    BY <1>5
  <2> QED BY <1>1, <1>7, <2>1 DEF Stands
<1>8. Stands(caseRow, Len(caseLog))'
  <2>1. ASSUME NEW i \in 1 .. n + 1, NEW f \in task[caseLog'[i].by].fields
        PROVE  \/ caseRow'[f] = caseLog'[i].by
               \/ \E j \in 1 .. n + 1 :
                    j > i /\ (f \in task[caseLog'[j].by].fields \/ caseLog'[j].base < i)
    <3>1. CASE i = n + 1
      BY <1>2, <1>3, <1>5, <2>1, <3>1 DEF CopyWith
    <3>2. CASE i \in 1 .. n /\ (f \in task[w].fields \/ read.base < i)
      <4>1. n + 1 > i /\ n + 1 \in 1 .. n + 1
        BY <1>5, <3>2
      <4> QED BY <1>5, <3>2, <4>1
    <3>3. CASE i \in 1 .. n /\ ~(f \in task[w].fields \/ read.base < i)
      <4>1. i \in 1 .. read.base /\ caseLog'[i] = caseLog[i]
        BY <1>5, <1>6, <3>3
      <4>2. \/ read.row[f] = caseLog[i].by
            \/ \E j \in 1 .. read.base :
                 j > i /\ (f \in task[caseLog[j].by].fields \/ caseLog[j].base < i)
        BY <1>6, <2>1, <4>1 DEF Stands
      <4>3. \A j \in 1 .. read.base : j \in 1 .. n + 1 /\ caseLog'[j] = caseLog[j]
        BY <1>5, <1>6
      <4>4. f \in Field
        <5>1. caseLog[i].by \in Event /\ task[caseLog[i].by].op = "case"
          BY <1>5, <3>3 DEF Updates
        <5> QED BY <1>1, <2>1, <4>1, <5>1, DeskAssumption
      <4>5. caseRow'[f] = read.row[f]
        BY <1>3, <3>3, <4>4 DEF CopyWith
      <4> QED BY <4>1, <4>2, <4>3, <4>5
    <3> QED BY <1>5, <3>1, <3>2, <3>3
  <2> QED BY <1>1, <1>5, <2>1 DEF Stands
<1>9. ASSUME NEW v \in Worker, Task(v).op = "case", step'[v] = "write", NEW r \in view[v]
      PROVE  r.base \in 0 .. n + 1 /\ Stands(r.row, r.base)'
  <2>1. step[v] = "write"
    BY <1>1, <1>9 DEF Respond, Goto
  <2>2. r.base \in 0 .. n /\ Stands(r.row, r.base)
    BY <1>4, <1>9, <2>1 DEF Updates
  <2>3. PICK b \in 0 .. n : b = r.base
    BY <2>2
  <2>4. Stands(r.row, b)'
    BY <1>7, <2>2, <2>3
  <2> QED BY <1>5, <2>2, <2>3, <2>4
<1>10. \A v \in Worker : Task(v)' = Task(v)
  BY <1>1 DEF Task
<1>11. \A i \in DOMAIN caseLog' :
         caseLog'[i].by \in Event /\ task[caseLog'[i].by].op = "case" /\ caseLog'[i].base \in Nat
  BY <1>1, <1>2, <1>5, <1>6 DEF Updates
<1> QED BY <1>1, <1>5, <1>8, <1>9, <1>10, <1>11 DEF Updates

LEMMA UpdatesNext == Threads /\ Updates /\ [Next]_deskVars => Updates'
<1> SUFFICES ASSUME Threads, Updates, [Next]_deskVars PROVE Updates'
  OBVIOUS
<1>1. ASSUME UNCHANGED <<task, caseRow, caseLog>>,
             \A w \in Worker : Task(w).op = "case" /\ step'[w] = "write" =>
               \/ step[w] = "write" /\ view'[w] = view[w]
               \/ view'[w] = {[row |-> caseRow, base |-> Len(caseLog)]}
      PROVE  Updates'
  <2>1. \A row, n : Stands(row, n)' <=> Stands(row, n)
    BY <1>1 DEF Stands
  <2>2. Len(caseLog) \in Nat
    BY SequenceMembers DEF Threads, Shape
  <2>3. ASSUME NEW w \in Worker, Task(w).op = "case", step'[w] = "write", NEW read \in view'[w]
        PROVE  read.base \in 0 .. Len(caseLog) /\ Stands(read.row, read.base)
    BY <1>1, <2>2, <2>3 DEF Updates
  <2>4. \A w \in Worker : Task(w)' = Task(w)
    BY <1>1 DEF Task
  <2> QED BY <1>1, <2>1, <2>3, <2>4 DEF Updates
<1>2. ASSUME NEW w \in Worker, RegistryStep(w) PROVE Updates'
  <2>1. Alone(w)
    BY <1>2, StepsAlone
  <2>2. CASE UNCHANGED <<caseRow, caseLog>>
    <3>1. ASSUME Task(w).op = "case", step'[w] = "write"
          PROVE  view'[w] = {[row |-> caseRow, base |-> Len(caseLog)]}
      <4>1. CaseRead(w)
        BY <1>2, <3>1, WaysIn DEF AddLabelRead, ReviewRead, InsertRead, At
      <4> QED BY <4>1 DEF CaseRead, Threads, Shape
    <3> QED BY <1>1, <2>1, <2>2, <3>1 DEF Alone
  <2>3. CASE CaseWrite(w)
    BY <2>3, CaseUpdated
  <2> QED BY <1>2, <2>2, <2>3, TablesTouched
<1>3. CASE Quiet
  BY <1>1, <1>3 DEF Quiet
<1>4. CASE Restart
  BY <1>1, <1>4 DEF Restart, tables
<1> QED BY <1>2, <1>3, <1>4, StepKinds

\* An update of the case stays in force until another update sets the same field or
\* puts back a copy of the row read before it: for any number of requests at a time
\* (storage.py, update_case).
THEOREM CaseUpdatesStand == Spec => []UpdatesStand
<1>1. Init => Updates
  <2>1. DOMAIN << >> = {} /\ Len(<< >>) = 0
    BY EmptySeq
  <2> QED BY <2>1 DEF Init, Updates, Stands
<1>2. Threads /\ Updates => UpdatesStand
  <2>1. Threads => DOMAIN caseLog = 1 .. Len(caseLog)
    BY SequenceMembers DEF Threads, Shape
  <2> QED BY <2>1 DEF Updates, Stands, UpdatesStand
<1> QED BY <1>1, <1>2, ThreadsInit, ThreadsNext, UpdatesNext, PTL DEF Spec

-----------------------------------------------------------------------------
(* Identifiers *)

\* Thread w has gone past item k of the list it is working through.
Spent(w, k) == k > Len(todo[w]) /\ (step[w] = "start" => todo[w] # << >>)

\* The identifiers w has given out: a restarted migration lists the labels anew, and
\* gives out new ones.
GivenOut(w, id) ==
  IF w = Startup
  THEN \E r, k \in Nat : id = <<w, <<r, k>>>> /\ (r < restarts \/ (r = restarts /\ Spent(w, k)))
  ELSE \E k \in Nat : id = <<w, k>> /\ Spent(w, k)

\* A label was there at first, or a thread that adds labels has added it; an assertion
\* was there at first, or a migration or an import made it.
LabelIds ==
  \A id \in Ids(labels) : id[1] \in Worker =>
    \E w \in Worker : Task(w).op = "label" /\ GivenOut(w, id)

AssertionIds ==
  \A id \in Ids(assertions) : id[1] \in Worker =>
    \E w \in Worker : Task(w).op \in {"migrate", "import"} /\ GivenOut(w, id)

OneLabelPerId == \A l, m \in labels : l.id = m.id => l = m

Identified ==
  LabelIds /\ AssertionIds /\ Ids(labels) \cap Ids(assertions) = {} /\ OneLabelPerId

LEMMA Lengths ==
  ASSUME Threads, NEW w \in Worker
  PROVE  Len(todo[w]) \in Nat /\ restarts \in Nat
BY SequenceMembers DEF Threads, Shape

\* What has been given out stays so, in a step of any thread and over a restart.
LEMMA SpentStays ==
  ASSUME Threads, NEW w \in Worker, NEW k \in Nat, Spent(w, k), NEW v \in Worker, RegistryStep(v)
  PROVE  Spent(w, k)'
<1>1. Alone(v) /\ (GoesOn(v) \/ TakesNext(v) \/ Lists(v)) /\ Len(todo[w]) \in Nat
  BY StepsAlone, Lengths
<1>2. CASE v # w
  BY <1>1, <1>2 DEF Alone, Spent
<1>3. CASE v = w /\ GoesOn(w)
  BY <1>3 DEF GoesOn, Spent
<1>4. CASE v = w /\ TakesNext(w)
  <2>1. Sequence(todo[w]) /\ todo[w] # << >> /\ todo'[w] = Tail(todo[w])
        /\ step'[w] = IF Len(todo[w]) = 1 THEN "done" ELSE "start"
    BY <1>4 DEF Threads, Shape, TakesNext
  <2>2. Len(Tail(todo[w])) = Len(todo[w]) - 1 /\ (Tail(todo[w]) = << >> <=> Len(todo[w]) = 1)
    BY <2>1, SequenceTail
  <2> QED BY <1>1, <2>1, <2>2 DEF Spent
<1>5. ~Lists(w)
  BY DEF Lists, Spent
<1> QED BY <1>1, <1>2, <1>3, <1>4, <1>5

LEMMA GivenOutStays ==
  ASSUME Threads, NEW w \in Worker, NEW id, GivenOut(w, id), [Next]_deskVars
  PROVE  GivenOut(w, id)'
<1>1. ASSUME NEW v \in Worker, RegistryStep(v) PROVE GivenOut(w, id)'
  <2>1. restarts' = restarts
    BY <1>1, StepsAlone DEF Alone
  <2>2. \A k \in Nat : Spent(w, k) => Spent(w, k)'
    BY <1>1, SpentStays
  <2> QED BY <2>1, <2>2 DEF GivenOut
<1>2. CASE Quiet
  BY <1>2 DEF Quiet, GivenOut, Spent
<1>3. CASE Restart
  <2>1. CASE w = Startup
    <3>1. restarts \in Nat /\ restarts' = restarts + 1
      BY <1>3, Lengths DEF Restart
    <3>2. PICK r \in Nat, k \in Nat : id = <<w, <<r, k>>>> /\ r <= restarts
      BY <2>1, <3>1 DEF GivenOut
    <3>3. r < restarts'
      BY <3>1, <3>2
    <3> QED BY <2>1, <3>2, <3>3 DEF GivenOut
  <2>2. CASE w # Startup
    <3>1. todo'[w] = todo[w] /\ (step'[w] = "start" => step[w] = "start")
      BY <1>3, <2>2 DEF Restart, Threads, Shape
    <3> QED BY <2>2, <3>1 DEF GivenOut, Spent
  <2> QED BY <2>1, <2>2
<1> QED BY <1>1, <1>2, <1>3, StepKinds

\* The identifier of an item is new while the thread is at it, and given out once the
\* thread has gone on.
LEMMA ItemIdNew ==
  ASSUME Threads, NEW w \in Worker, NEW v \in Worker
  PROVE  ~GivenOut(v, ItemId(w)) /\ ItemId(w)[1] = w
<1>1. Len(todo[w]) \in Nat /\ restarts \in Nat
  BY Lengths
<1>2. ~Spent(w, Len(todo[w]))
  BY <1>1 DEF Spent
<1>3. CASE w = Startup
  <2>1. ItemId(w) = <<w, <<restarts, Len(todo[w])>>>>
    BY <1>3 DEF ItemId
  <2> QED BY <1>1, <1>2, <1>3, <2>1 DEF GivenOut
<1>4. CASE w # Startup
  <2>1. ItemId(w) = <<w, Len(todo[w])>>
    BY <1>4 DEF ItemId
  <2> QED BY <1>1, <1>2, <1>4, <2>1 DEF GivenOut
<1> QED BY <1>3, <1>4

LEMMA ItemIdGiven ==
  ASSUME Threads, NEW w \in Worker, Alone(w), TakesNext(w), NEW id, id = ItemId(w)
  PROVE  GivenOut(w, id)'
<1>1. Len(todo[w]) \in Nat /\ restarts \in Nat /\ restarts' = restarts
  BY Lengths DEF Alone
<1>2. PICK n \in Nat : n = Len(todo[w])
  BY <1>1
<1>3. Spent(w, n)'
  <2>1. Sequence(todo[w]) /\ todo[w] # << >> /\ todo'[w] = Tail(todo[w])
        /\ step'[w] = IF Len(todo[w]) = 1 THEN "done" ELSE "start"
    BY DEF Threads, Shape, TakesNext
  <2>2. Len(Tail(todo[w])) = Len(todo[w]) - 1 /\ (Tail(todo[w]) = << >> <=> Len(todo[w]) = 1)
    BY <2>1, SequenceTail
  <2> QED BY <1>2, <2>1, <2>2 DEF Spent
<1>4. CASE w = Startup
  BY <1>1, <1>2, <1>3, <1>4 DEF GivenOut, ItemId
<1>5. CASE w # Startup
  BY <1>2, <1>3, <1>5 DEF GivenOut, ItemId
<1> QED BY <1>4, <1>5

\* What a thread adds, to labels or to assertions, has the identifier of its item.
LEMMA LabelAdded ==
  ASSUME Threads, NEW w \in Worker, AddLabelWrite(w)
  PROVE  /\ Task(w).op = "label" /\ step[w] = "write" /\ TakesNext(w)
         /\ UNCHANGED <<view, assertions, reviews, clock>>
         /\ \E l : /\ labels' = labels \cup {l}
                   /\ l.id = ItemId(w) /\ l.address = Head(todo[w]).address
                   /\ l.owner = Head(todo[w]).owner /\ l.seen = Ids(view[w])
                   /\ l.status = NewLabelStatus(Head(todo[w]).owner, view[w])
                   /\ "status" \in DOMAIN l
<1>1. /\ Task(w).op = "label" /\ step[w] = "write" /\ NextItem(w)
      /\ UNCHANGED <<task, view, assertions, reviews, clock, restarts>>
  BY DEF AddLabelWrite, At
<1>2. todo[w] # << >>
  BY <1>1 DEF Threads, ItemsLeft
<1>3. TakesNext(w)
  BY <1>1, <1>2, NextItemTakes
<1> DEFINE l == [id |-> ItemId(w), address |-> Head(todo[w]).address, owner |-> Head(todo[w]).owner,
                 status |-> NewLabelStatus(Head(todo[w]).owner, view[w]), seen |-> Ids(view[w])]
<1>4. labels' = labels \cup {l}
  BY DEF AddLabelWrite
<1>5. /\ l.id = ItemId(w) /\ l.address = Head(todo[w]).address /\ l.owner = Head(todo[w]).owner
      /\ l.seen = Ids(view[w]) /\ l.status = NewLabelStatus(Head(todo[w]).owner, view[w])
      /\ "status" \in DOMAIN l
  OBVIOUS
<1> HIDE DEF l
<1> QED BY <1>1, <1>3, <1>4, <1>5

LEMMA AssertionBuilt ==
  ASSUME Threads, NEW w \in Worker, BuildAssertion(w)
  PROVE  /\ Task(w).op \in {"migrate", "import"} /\ step[w] = "assert" /\ TakesNext(w)
         /\ UNCHANGED <<view, labels, reviews, clock>>
         /\ \E a : /\ assertions' = assertions \cup {a}
                   /\ a.id = ItemId(w) /\ a.seen = view[w] /\ "state" \in DOMAIN a
                   /\ Task(w).op = "migrate" =>
                        /\ a.origin = Head(todo[w]).label /\ a.base = Head(todo[w]).base
                        /\ a.state = MigratedState(Head(todo[w]).status)
                   /\ Task(w).op = "import" => a.origin = NoLabel /\ a.base = 0
<1>1. /\ Task(w).op \in {"migrate", "import"} /\ step[w] = "assert" /\ NextItem(w)
      /\ UNCHANGED <<task, view, labels, reviews, clock, restarts>>
  BY DEF BuildAssertion, Building, At
<1>2. todo[w] # << >>
  BY <1>1 DEF Threads, ItemsLeft, Busy
<1>3. TakesNext(w)
  BY <1>1, <1>2, NextItemTakes
<1>4. CASE Task(w).op = "migrate"
  <2> DEFINE a == [id |-> ItemId(w), seen |-> view[w], origin |-> Head(todo[w]).label,
                   state |-> MigratedState(Head(todo[w]).status), base |-> Head(todo[w]).base]
  <2>1. assertions' = assertions \cup {a}
    BY <1>4 DEF BuildAssertion
  <2>2. /\ a.id = ItemId(w) /\ a.seen = view[w] /\ "state" \in DOMAIN a
        /\ a.origin = Head(todo[w]).label /\ a.base = Head(todo[w]).base
        /\ a.state = MigratedState(Head(todo[w]).status)
    OBVIOUS
  <2> HIDE DEF a
  <2> QED BY <1>1, <1>3, <1>4, <2>1, <2>2
<1>5. CASE Task(w).op = "import"
  <2> DEFINE a == [id |-> ItemId(w), seen |-> view[w], origin |-> NoLabel,
                   state |-> Head(todo[w]).state, base |-> 0]
  <2>1. assertions' = assertions \cup {a}
    BY <1>5 DEF BuildAssertion
  <2>2. /\ a.id = ItemId(w) /\ a.seen = view[w] /\ a.origin = NoLabel /\ a.base = 0
        /\ "state" \in DOMAIN a
    OBVIOUS
  <2> HIDE DEF a
  <2> QED BY <1>1, <1>3, <1>5, <2>1, <2>2
<1> QED BY <1>1, <1>4, <1>5

\* A review replaces the row of what it is about, and only its status or state.
LEMMA LabelReviewed ==
  ASSUME Threads, NEW w \in Worker, ReviewLabel(w)
  PROVE  /\ Task(w).op = "review_label" /\ UNCHANGED <<todo, view, assertions>>
         /\ \/ UNCHANGED <<labels, reviews, clock>>
            \/ /\ Task(w).target \in Ids(labels)
               /\ labels' = {IF l.id = Task(w).target THEN [l EXCEPT !.status = Task(w).status] ELSE l :
                               l \in labels}
               /\ reviews' = Append(reviews, [by |-> w, target |-> Task(w).target,
                                              status |-> Task(w).status, at |-> clock + 1])
               /\ clock' = clock + 1
BY DEF ReviewLabel, At, LabelStamp

LEMMA AssertionReviewed ==
  ASSUME Threads, NEW w \in Worker, ReviewWrite(w)
  PROVE  /\ Task(w).op = "review" /\ step[w] = "write" /\ step'[w] = "done"
         /\ UNCHANGED <<todo, view, labels, clock>>
         /\ assertions' = Reviewed(Task(w))
         /\ reviews' = Append(reviews, [by |-> w, target |-> Task(w).target, status |-> Task(w).status,
                                        at |-> CHOOSE at \in view[w] : TRUE])
BY DEF ReviewWrite, At, Respond, Goto, Threads, Shape

LEMMA ReplacedIds ==
  ASSUME NEW S, NEW T, NEW f, DOMAIN f = S, T = {f[x] : x \in S}, \A x \in S : f[x].id = x.id
  PROVE  Ids(T) = Ids(S)
BY DEF Ids

\* How a step changes which labels and assertions there are.
LEMMA IdsStep ==
  ASSUME Threads, NEW w \in Worker, RegistryStep(w)
  PROVE  \/ UNCHANGED <<Ids(labels), Ids(assertions)>>
         \/ /\ TakesNext(w) /\ Task(w).op = "label"
            /\ Ids(labels)' = Ids(labels) \cup {ItemId(w)} /\ UNCHANGED Ids(assertions)
         \/ /\ TakesNext(w) /\ Task(w).op \in {"migrate", "import"}
            /\ Ids(assertions)' = Ids(assertions) \cup {ItemId(w)} /\ UNCHANGED Ids(labels)
<1>1. CASE AddLabelWrite(w)
  <2>1. TakesNext(w) /\ Task(w).op = "label" /\ assertions' = assertions
    BY <1>1, LabelAdded
  <2>2. PICK l : labels' = labels \cup {l} /\ l.id = ItemId(w)
    BY <1>1, LabelAdded
  <2>3. Ids(labels') = Ids(labels) \cup {ItemId(w)}
    BY <2>2 DEF Ids
  <2> QED BY <2>1, <2>3 DEF Ids
<1>2. CASE BuildAssertion(w)
  <2>1. TakesNext(w) /\ Task(w).op \in {"migrate", "import"} /\ labels' = labels
    BY <1>2, AssertionBuilt
  <2>2. PICK a : assertions' = assertions \cup {a} /\ a.id = ItemId(w)
    BY <1>2, AssertionBuilt
  <2>3. Ids(assertions') = Ids(assertions) \cup {ItemId(w)}
    BY <2>2 DEF Ids
  <2> QED BY <2>1, <2>3 DEF Ids
<1>3. CASE ReviewLabel(w) /\ labels' # labels
  <2> DEFINE change == [l \in labels |-> IF l.id = Task(w).target
                                         THEN [l EXCEPT !.status = Task(w).status] ELSE l]
  <2>1. labels' = {change[l] : l \in labels} /\ assertions' = assertions
    BY <1>3, LabelReviewed
  <2>2. \A l \in labels : change[l].id = l.id
    OBVIOUS
  <2>3. DOMAIN change = labels
    OBVIOUS
  <2> HIDE DEF change
  <2>4. Ids(labels') = Ids(labels)
    BY <2>1, <2>2, <2>3, ReplacedIds
  <2> QED BY <2>1, <2>4 DEF Ids
<1>4. CASE ReviewWrite(w)
  <2> DEFINE change == [a \in assertions |-> IF a.id = Task(w).target
                                             THEN [a EXCEPT !.state = Task(w).status] ELSE a]
  <2>1. assertions' = {change[a] : a \in assertions} /\ labels' = labels
    BY <1>4, AssertionReviewed DEF Reviewed
  <2>2. \A a \in assertions : change[a].id = a.id
    OBVIOUS
  <2>3. DOMAIN change = assertions
    OBVIOUS
  <2> HIDE DEF change
  <2>4. Ids(assertions') = Ids(assertions)
    BY <2>1, <2>2, <2>3, ReplacedIds
  <2> QED BY <2>1, <2>4 DEF Ids
<1>5. CASE UNCHANGED <<labels, assertions>>
  BY <1>5 DEF Ids
<1>6. AddLabelWrite(w) \/ ReviewLabel(w) => UNCHANGED assertions
  BY LabelAdded, LabelReviewed
<1>7. BuildAssertion(w) \/ ReviewWrite(w) => UNCHANGED labels
  BY AssertionBuilt, AssertionReviewed
<1> QED BY <1>1, <1>2, <1>3, <1>4, <1>5, <1>6, <1>7, TablesTouched

\* An item gets an identifier that names nothing yet.
LEMMA ItemIdFresh ==
  ASSUME Threads, LabelIds, AssertionIds, NEW w \in Worker
  PROVE  ItemId(w) \notin Ids(labels) \cup Ids(assertions)
<1>1. ItemId(w)[1] \in Worker /\ \A v \in Worker : ~GivenOut(v, ItemId(w))
  BY ItemIdNew
<1> QED BY <1>1 DEF LabelIds, AssertionIds

LEMMA IdentifiedNext == Threads /\ Identified /\ [Next]_deskVars => Identified'
<1> SUFFICES ASSUME Threads, Identified, [Next]_deskVars PROVE Identified'
  OBVIOUS
<1>1. \A w \in Worker : \A id : GivenOut(w, id) => GivenOut(w, id)'
  BY GivenOutStays
<1>2. ASSUME NEW w \in Worker, RegistryStep(w) PROVE Identified'
  <2>1. Alone(w)
    BY <1>2, StepsAlone
  <2>2. \A v \in Worker : Task(v)' = Task(v)
    BY <2>1 DEF Alone, Task
  <2>3. ItemId(w) \notin Ids(labels) \cup Ids(assertions)
    BY ItemIdFresh DEF Identified
  <2>4. TakesNext(w) => \A id : id = ItemId(w) => GivenOut(w, id)'
    BY <2>1, ItemIdGiven
  <2>5. LabelIds' /\ AssertionIds' /\ (Ids(labels) \cap Ids(assertions) = {})'
    BY <1>1, <1>2, <2>2, <2>3, <2>4, IdsStep DEF Identified, LabelIds, AssertionIds
  <2>6. OneLabelPerId'
    <3>1. CASE AddLabelWrite(w)
      <4>1. PICK l : labels' = labels \cup {l} /\ l.id = ItemId(w)
        BY <3>1, LabelAdded
      <4>2. \A m \in labels : m.id # l.id
        BY <2>3, <4>1 DEF Ids
      <4> QED BY <4>1, <4>2 DEF Identified, OneLabelPerId
    <3>2. CASE ReviewLabel(w)
      <4>1. CASE labels' = labels
        BY <4>1 DEF Identified, OneLabelPerId
      <4>2. CASE labels' # labels
        <5> DEFINE change(l) == IF l.id = Task(w).target
                                THEN [l EXCEPT !.status = Task(w).status] ELSE l
        <5>1. labels' = {change(l) : l \in labels}
          BY <3>2, <4>2, LabelReviewed
        <5>2. \A l \in labels : change(l).id = l.id
          OBVIOUS
        <5> HIDE DEF change
        <5> QED BY <5>1, <5>2 DEF Identified, OneLabelPerId
      <4> QED BY <4>1, <4>2
    <3> QED BY <1>2, <3>1, <3>2, TablesTouched DEF Identified, OneLabelPerId
  <2> QED BY <2>5, <2>6 DEF Identified
<1>3. CASE Quiet \/ Restart
  <2>1. UNCHANGED <<task, labels, assertions>>
    BY <1>3 DEF Quiet, Restart, tables
  <2>2. \A v \in Worker : Task(v)' = Task(v)
    BY <2>1 DEF Task
  <2> QED BY <1>1, <2>1, <2>2 DEF Identified, LabelIds, AssertionIds, OneLabelPerId, Ids
<1> QED BY <1>2, <1>3, StepKinds

LEMMA IdentifiedInit == Init => Identified
BY DeskAssumption DEF Init, Identified, LabelIds, AssertionIds, OneLabelPerId, Ids

-----------------------------------------------------------------------------
(* Labels that agree *)

\* Reviews are only ever added.
LEMMA ReviewsGrow ==
  ASSUME Threads, [Next]_deskVars
  PROVE  /\ Len(reviews) \in Nat /\ Len(reviews') \in Nat /\ Len(reviews) <= Len(reviews')
         /\ DOMAIN reviews = 1 .. Len(reviews) /\ DOMAIN reviews' = 1 .. Len(reviews')
         /\ \A i \in DOMAIN reviews : i \in DOMAIN reviews' /\ reviews'[i] = reviews[i]
<1>1. reviews' = reviews \/ \E x : reviews' = Append(reviews, x)
  <2>1. ASSUME NEW w \in Worker, RegistryStep(w)
        PROVE  reviews' = reviews \/ \E x : reviews' = Append(reviews, x)
    BY <2>1, TablesTouched DEF ReviewLabel, ReviewRead, ReviewWrite
  <2> QED BY <2>1, StepKinds DEF Quiet, Restart, tables
<1>2. Sequence(reviews)
  BY DEF Threads, Shape
<1>3. Len(reviews) \in Nat /\ DOMAIN reviews = 1 .. Len(reviews)
  BY <1>2, SequenceMembers
<1>4. CASE reviews' = reviews
  BY <1>3, <1>4
<1>5. ASSUME NEW x, reviews' = Append(reviews, x)
      PROVE  /\ Len(reviews') = Len(reviews) + 1 /\ DOMAIN reviews' = 1 .. Len(reviews) + 1
             /\ \A i \in DOMAIN reviews : reviews'[i] = reviews[i]
  BY <1>2, <1>5, SequenceAppend
<1> QED BY <1>1, <1>3, <1>4, <1>5

\* Of the labels a new label's author saw, those that are approved now were approved
\* then, or a reviewer has approved them since.
ApprovedByReview(id) == \E i \in DOMAIN reviews : reviews[i].target = id /\ reviews[i].status = "APPROVED"

Snapshots ==
  \A w \in Worker : Task(w).op = "label" /\ step[w] = "write" =>
    \A s \in view[w] :
      /\ s.id \in Ids(labels)
      /\ \A m \in labels : s.id = m.id =>
           s.owner = m.owner /\ (m.status = "APPROVED" => s.status = "APPROVED" \/ ApprovedByReview(m.id))

LabelsSeen == \A l \in labels : l.seen \subseteq Ids(labels)

LabelBooks == LabelsSeen /\ Snapshots /\ LabelsAgree

LEMMA ApprovalStays ==
  ASSUME Threads, [Next]_deskVars, NEW id, ApprovedByReview(id)
  PROVE  ApprovedByReview(id)'
BY ReviewsGrow DEF ApprovedByReview

LEMMA LabelBooksAdd ==
  ASSUME Threads, Identified, LabelBooks, NEW w \in Worker, AddLabelWrite(w), [Next]_deskVars, Alone(w)
  PROVE  LabelBooks'
<1>1. /\ Task(w).op = "label" /\ step[w] = "write" /\ step'[w] # "write"
      /\ UNCHANGED <<view, reviews>>
  BY LabelAdded DEF TakesNext
<1>2. PICK l : /\ labels' = labels \cup {l}
               /\ l.id = ItemId(w) /\ l.owner = Head(todo[w]).owner /\ l.seen = Ids(view[w])
               /\ l.status = NewLabelStatus(l.owner, view[w])
  BY LabelAdded
<1>3. \A m \in labels : m.id # l.id
  BY <1>2, ItemIdFresh DEF Identified, Ids
<1>4. Ids(labels') = Ids(labels) \cup {l.id}
  BY <1>2 DEF Ids
<1>5. \A s \in view[w] :
        /\ s.id \in Ids(labels)
        /\ \A m \in labels : s.id = m.id =>
             s.owner = m.owner /\ (m.status = "APPROVED" => s.status = "APPROVED" \/ ApprovedByReview(m.id))
  BY <1>1 DEF LabelBooks, Snapshots
<1>6. LabelsSeen'
  BY <1>2, <1>4, <1>5 DEF LabelBooks, LabelsSeen, Ids
<1>7. Snapshots'
  <2>1. ASSUME NEW v \in Worker, Task(v).op = "label", step'[v] = "write", NEW s \in view[v]
        PROVE  /\ s.id \in Ids(labels) /\ s.id # l.id
               /\ \A m \in labels : s.id = m.id =>
                    s.owner = m.owner /\ (m.status = "APPROVED" => s.status = "APPROVED" \/ ApprovedByReview(m.id))
    <3>1. v # w /\ step[v] = "write"
      BY <1>1, <2>1 DEF Alone
    <3>2. s.id \in Ids(labels)
      BY <2>1, <3>1 DEF LabelBooks, Snapshots
    <3>3. s.id # l.id
      BY <1>3, <3>2 DEF Ids
    <3> QED BY <2>1, <3>1, <3>2, <3>3 DEF LabelBooks, Snapshots
  <2>2. \A v \in Worker : Task(v)' = Task(v)
    BY DEF Alone, Task
  <2>3. \A id : ApprovedByReview(id)' <=> ApprovedByReview(id)
    BY <1>1 DEF ApprovedByReview
  <2>4. ASSUME NEW v \in Worker, Task(v).op = "label", step'[v] = "write", NEW s \in view'[v]
        PROVE  /\ s.id \in Ids(labels')
               /\ \A m \in labels' : s.id = m.id =>
                    s.owner = m.owner /\ (m.status = "APPROVED" => s.status = "APPROVED" \/ ApprovedByReview(m.id)')
    <3>1. s \in view[v]
      BY <1>1, <2>4
    <3> QED BY <1>2, <1>4, <2>1, <2>3, <2>4, <3>1
  <2>5. Ids(labels)' = Ids(labels')
    BY DEF Ids
  <2> QED BY <2>2, <2>4, <2>5 DEF Snapshots
<1>8. LabelsAgree'
  <2>1. ASSUME NEW m \in labels, m.owner # l.owner, m.status = "APPROVED", l.status = "APPROVED"
        PROVE  \/ l.id \notin m.seen /\ m.id \notin l.seen
               \/ ApprovedByReview(m.id)
    <3>1. l.id \notin m.seen
      BY <1>3 DEF LabelBooks, LabelsSeen, Ids
    <3>2. \A s \in view[w] : ~(s.status = "APPROVED" /\ s.owner # l.owner)
      BY <1>2, <2>1 DEF NewLabelStatus
    <3>3. CASE m.id \in l.seen
      <4>1. PICK s \in view[w] : s.id = m.id
        BY <1>2, <3>3 DEF Ids
      <4> QED BY <1>5, <2>1, <3>2, <4>1
    <3> QED BY <3>1, <3>3
  <2> QED BY <1>1, <1>2, <2>1 DEF LabelBooks, LabelsAgree, ApprovedByReview
<1> QED BY <1>6, <1>7, <1>8 DEF LabelBooks

LEMMA LabelBooksReview ==
  ASSUME Threads, LabelBooks, NEW w \in Worker, ReviewLabel(w), labels' # labels, [Next]_deskVars,
         RegistryStep(w), Alone(w)
  PROVE  LabelBooks'
<1> DEFINE change(l) == IF l.id = Task(w).target THEN [l EXCEPT !.status = Task(w).status] ELSE l
<1>1. /\ Task(w).op = "review_label" /\ UNCHANGED view
      /\ labels' = {change(l) : l \in labels}
      /\ reviews' = Append(reviews, [by |-> w, target |-> Task(w).target,
                                     status |-> Task(w).status, at |-> clock + 1])
  BY LabelReviewed
<1>2. \A l \in labels :
        /\ change(l).id = l.id /\ change(l).owner = l.owner /\ change(l).address = l.address
        /\ change(l).seen = l.seen
        /\ change(l).status = l.status \/ (l.id = Task(w).target /\ change(l).status = Task(w).status)
  OBVIOUS
<1> HIDE DEF change
<1>3. ASSUME NEW l \in labels, change(l).status = "APPROVED"
      PROVE  l.status = "APPROVED" \/ ApprovedByReview(l.id)'
  <2>1. CASE l.id = Task(w).target /\ Task(w).status = "APPROVED"
    <3>1. Sequence(reviews)
      BY DEF Threads, Shape
    <3>2. PICK n : n = Len(reviews) + 1
      OBVIOUS
    <3>3. /\ n \in DOMAIN reviews'
          /\ reviews'[n] = [by |-> w, target |-> Task(w).target, status |-> Task(w).status,
                            at |-> clock + 1]
      BY <1>1, <3>1, <3>2, SequenceAppend
    <3> QED BY <2>1, <3>3 DEF ApprovedByReview
  <2> QED BY <1>2, <1>3, <2>1
<1>4. Ids(labels') = Ids(labels)
  BY <1>1, <1>2 DEF Ids
<1>5. LabelsSeen'
  <2>1. ASSUME NEW l \in labels' PROVE l.seen \subseteq Ids(labels')
    <3>1. PICK k \in labels : l = change(k)
      BY <1>1, <2>1
    <3>2. l.seen = k.seen /\ k.seen \subseteq Ids(labels)
      BY <1>2, <3>1 DEF LabelBooks, LabelsSeen
    <3> QED BY <1>4, <3>2
  <2>2. Ids(labels)' = Ids(labels')
    BY DEF Ids
  <2> QED BY <2>1, <2>2 DEF LabelsSeen
<1>6. Snapshots'
  <2>1. ASSUME NEW v \in Worker, Task(v).op = "label", step'[v] = "write", NEW s \in view[v]
        PROVE  /\ s.id \in Ids(labels)
               /\ \A m \in labels' : s.id = m.id =>
                    s.owner = m.owner /\ (m.status = "APPROVED" => s.status = "APPROVED" \/ ApprovedByReview(m.id)')
    <3>1. v # w /\ step[v] = "write"
      BY <1>1, <2>1, StepsAlone DEF Alone
    <3>2. /\ s.id \in Ids(labels)
          /\ \A m \in labels : s.id = m.id =>
               s.owner = m.owner /\ (m.status = "APPROVED" => s.status = "APPROVED" \/ ApprovedByReview(m.id))
      BY <2>1, <3>1 DEF LabelBooks, Snapshots
    <3>3. \A id : ApprovedByReview(id) => ApprovedByReview(id)'
      BY ApprovalStays
    <3> QED BY <1>1, <1>2, <1>3, <3>2, <3>3
  <2>2. \A v \in Worker : Task(v)' = Task(v)
    BY DEF Alone, Task
  <2> QED BY <1>1, <1>4, <2>1, <2>2 DEF Snapshots
<1>7. LabelsAgree'
  <2>1. ASSUME NEW l \in labels, NEW m \in labels, l.address = m.address, l.owner # m.owner,
               change(l).status = "APPROVED", change(m).status = "APPROVED"
        PROVE  \/ l.id \notin m.seen /\ m.id \notin l.seen
               \/ ApprovedByReview(l.id)' \/ ApprovedByReview(m.id)'
    <3>1. CASE l.status = "APPROVED" /\ m.status = "APPROVED"
      <4>1. \/ l.id \notin m.seen /\ m.id \notin l.seen
            \/ ApprovedByReview(l.id) \/ ApprovedByReview(m.id)
        BY <2>1, <3>1 DEF LabelBooks, LabelsAgree, ApprovedByReview
      <4> QED BY <4>1, ApprovalStays
    <3> QED BY <1>3, <2>1, <3>1
  <2>2. ASSUME NEW l \in labels', NEW m \in labels', l.address = m.address, l.owner # m.owner,
               l.status = "APPROVED", m.status = "APPROVED"
        PROVE  \/ l.id \notin m.seen /\ m.id \notin l.seen
               \/ ApprovedByReview(l.id)' \/ ApprovedByReview(m.id)'
    <3>1. PICK k \in labels, n \in labels : l = change(k) /\ m = change(n)
      BY <1>1
    <3> QED BY <1>2, <2>1, <2>2, <3>1
  <2> QED BY <2>2 DEF LabelsAgree, ApprovedByReview
<1> QED BY <1>5, <1>6, <1>7 DEF LabelBooks

LEMMA LabelBooksNext == Threads /\ Identified /\ LabelBooks /\ [Next]_deskVars => LabelBooks'
<1> SUFFICES ASSUME Threads, Identified, LabelBooks, [Next]_deskVars PROVE LabelBooks'
  OBVIOUS
<1>1. ASSUME labels' = labels, UNCHANGED task,
             \A w \in Worker : Task(w).op = "label" /\ step'[w] = "write" =>
               (step[w] = "write" /\ view'[w] = view[w]) \/ view'[w] \subseteq labels
      PROVE  LabelBooks'
  <2>1. \A id : ApprovedByReview(id) => ApprovedByReview(id)'
    BY ApprovalStays
  <2>2. LabelsSeen' /\ LabelsAgree'
    BY <1>1, <2>1, SMTT(20) DEF LabelBooks, LabelsSeen, LabelsAgree, Ids, ApprovedByReview
  <2>3. \A v \in Worker : Task(v)' = Task(v)
    BY <1>1 DEF Task
  <2>4. ASSUME NEW v \in Worker, Task(v).op = "label", step'[v] = "write", NEW s \in view'[v]
        PROVE  /\ s.id \in Ids(labels)
               /\ \A m \in labels : s.id = m.id =>
                    s.owner = m.owner /\ (m.status = "APPROVED" => s.status = "APPROVED" \/ ApprovedByReview(m.id))
    <3>1. CASE step[v] = "write" /\ view'[v] = view[v]
      BY <2>4, <3>1 DEF LabelBooks, Snapshots
    <3>2. CASE view'[v] \subseteq labels
      BY <2>4, <3>2 DEF Identified, OneLabelPerId, Ids
    <3> QED BY <1>1, <2>4, <3>1, <3>2
  <2>5. Snapshots'
    BY <1>1, <2>1, <2>3, <2>4 DEF Snapshots, Ids
  <2> QED BY <2>2, <2>5 DEF LabelBooks
<1>2. ASSUME NEW w \in Worker, RegistryStep(w) PROVE LabelBooks'
  <2>1. Alone(w)
    BY <1>2, StepsAlone
  <2>2. CASE labels' = labels
    <3>1. ASSUME Task(w).op = "label", step'[w] = "write"
          PROVE  view'[w] \subseteq labels
      <4>1. AddLabelRead(w)
        BY <1>2, <3>1, WaysIn DEF ReviewRead, InsertRead, CaseRead, At
      <4> QED BY <4>1 DEF AddLabelRead, Threads, Shape
    <3> QED BY <1>1, <2>1, <2>2, <3>1 DEF Alone
  <2> QED BY <1>2, <2>1, <2>2, TablesTouched, LabelBooksAdd, LabelBooksReview
<1>3. CASE Quiet
  BY <1>1, <1>3 DEF Quiet
<1>4. CASE Restart
  BY <1>1, <1>4 DEF Restart, tables
<1> QED BY <1>2, <1>3, <1>4, StepKinds

\* Whatever labels are added and reviewed at the same time: two approved labels of one
\* address that name different owners were added without a look at each other, or a
\* reviewer approved one of them (storage.py, add_label and review_label).
THEOREM ApprovedLabelsAgree == Spec => []LabelsAgree
<1>1. Init => LabelBooks
  BY DeskAssumption DEF Init, LabelBooks, LabelsSeen, Snapshots, LabelsAgree
<1>2. LabelBooks => LabelsAgree
  BY DEF LabelBooks
<1> QED BY <1>1, <1>2, ThreadsInit, ThreadsNext, IdentifiedInit, IdentifiedNext, LabelBooksNext, PTL DEF Spec

-----------------------------------------------------------------------------
(* The review history *)

\* What is reviewed is there.
Targets ==
  /\ \A i \in DOMAIN reviews : reviews[i].target \in Ids(labels) \cup Ids(assertions)
  /\ \A w \in Worker : Task(w).op = "review" /\ step[w] = "write" => Task(w).target \in Ids(assertions)

\* The stamps of label reviews are taken under the lock: the next one is later.
Stamps ==
  \A i \in DOMAIN reviews : reviews[i].target \in Ids(labels) =>
    reviews[i].at \in Nat /\ reviews[i].at <= clock

\* The columns a review sets.
Columns == (\A l \in labels : "status" \in DOMAIN l) /\ (\A a \in assertions : "state" \in DOMAIN a)

LabelsExplained ==
  \A l \in labels : \A i \in DOMAIN reviews :
    (/\ reviews[i].target = l.id
     /\ \A j \in DOMAIN reviews : reviews[j].target = l.id => reviews[j].at <= reviews[i].at)
    => l.status = reviews[i].status

AssertionsExplained ==
  \A a \in assertions : \A i \in DOMAIN reviews :
    (reviews[i].target = a.id /\ \A j \in DOMAIN reviews : j > i => reviews[j].target # a.id)
    => a.state = reviews[i].status

History == Targets /\ Stamps /\ Columns /\ LabelsExplained /\ AssertionsExplained

\* A review of a label, appended: it has the latest stamp of the label's reviews.
LEMMA HistoryLabel ==
  ASSUME Threads, Identified, History, NEW w \in Worker, ReviewLabel(w),
         ~UNCHANGED <<labels, reviews, clock>>
  PROVE  Stamps' /\ Columns' /\ LabelsExplained' /\ AssertionsExplained'
<1> DEFINE t == Task(w).target
           s == Task(w).status
           change(l) == IF l.id = t THEN [l EXCEPT !.status = s] ELSE l
<1>1. /\ t \in Ids(labels) /\ UNCHANGED assertions
      /\ labels' = {change(l) : l \in labels}
      /\ reviews' = Append(reviews, [by |-> w, target |-> t, status |-> s, at |-> clock + 1])
      /\ clock' = clock + 1
  BY LabelReviewed
<1>2. \A l \in labels : "status" \in DOMAIN l
  BY DEF History, Columns
<1>3. \A l \in labels : /\ change(l).id = l.id /\ "status" \in DOMAIN change(l)
                        /\ l.id = t => change(l).status = s
                        /\ l.id # t => change(l) = l
  BY <1>2
<1> HIDE DEF change, t, s
<1>4. PICK n : n = Len(reviews)
  OBVIOUS
<1>5. /\ n \in Nat /\ DOMAIN reviews = 1 .. n /\ DOMAIN reviews' = 1 .. n + 1
      /\ \A i \in 1 .. n : reviews'[i] = reviews[i]
      /\ reviews'[n + 1].target = t /\ reviews'[n + 1].status = s /\ reviews'[n + 1].at = clock + 1
  <2>1. Sequence(reviews)
    BY DEF Threads, Shape
  <2> QED BY <1>1, <1>4, <2>1, SequenceAppend
<1>6. clock \in Nat /\ Ids(labels') = Ids(labels)
  BY <1>1, <1>3 DEF Threads, Shape, Ids
<1>7. \A i \in 1 .. n : reviews[i].target \in Ids(labels) => reviews[i].at \in Nat /\ reviews[i].at <= clock
  BY <1>5 DEF History, Stamps
<1>8. Stamps'
  BY <1>1, <1>5, <1>6, <1>7 DEF Stamps
<1>9. Columns'
  BY <1>1, <1>3 DEF History, Columns
<1>10. LabelsExplained'
  <2>1. ASSUME NEW l \in labels, NEW i \in 1 .. n + 1, reviews'[i].target = l.id,
               \A j \in 1 .. n + 1 : reviews'[j].target = l.id => reviews'[j].at <= reviews'[i].at
        PROVE  change(l).status = reviews'[i].status
    <3>1. l.id \in Ids(labels)
      BY DEF Ids
    <3>2. CASE l.id = t
      <4>1. n + 1 \in 1 .. n + 1
        BY <1>5
      <4>2. clock + 1 <= reviews'[i].at
        BY <1>5, <2>1, <3>2, <4>1
      <4>3. i = n + 1
        BY <1>5, <1>6, <1>7, <2>1, <3>1, <4>2
      <4> QED BY <1>3, <1>5, <3>2, <4>3
    <3>3. CASE l.id # t
      <4>1. i \in 1 .. n /\ reviews'[i] = reviews[i]
        BY <1>5, <2>1, <3>3
      <4>2. \A j \in 1 .. n : reviews[j].target = l.id => reviews[j].at <= reviews[i].at
        <5>1. \A j \in 1 .. n : j \in 1 .. n + 1 /\ reviews'[j] = reviews[j]
          BY <1>5
        <5> QED BY <2>1, <4>1, <5>1
      <4>3. l.status = reviews[i].status
        BY <1>5, <2>1, <4>1, <4>2 DEF History, LabelsExplained
      <4> QED BY <1>3, <3>3, <4>1, <4>3
    <3> QED BY <3>2, <3>3
  <2>2. ASSUME NEW l \in labels', NEW i \in 1 .. n + 1, reviews'[i].target = l.id,
               \A j \in 1 .. n + 1 : reviews'[j].target = l.id => reviews'[j].at <= reviews'[i].at
        PROVE  l.status = reviews'[i].status
    <3>1. PICK k \in labels : l = change(k)
      BY <1>1
    <3> QED BY <1>3, <2>1, <2>2, <3>1
  <2> QED BY <1>5, <2>2 DEF LabelsExplained
<1>11. AssertionsExplained'
  <2>1. ASSUME NEW a \in assertions, NEW i \in 1 .. n + 1, reviews'[i].target = a.id,
               \A j \in 1 .. n + 1 : j > i => reviews'[j].target # a.id
        PROVE  a.state = reviews'[i].status
    <3>1. a.id # t
      BY <1>1 DEF Identified, Ids
    <3>2. i \in 1 .. n /\ reviews'[i] = reviews[i]
      BY <1>5, <2>1, <3>1
    <3>3. \A j \in 1 .. n : j > i => reviews[j].target # a.id
      BY <1>5, <2>1
    <3> QED BY <1>5, <2>1, <3>2, <3>3 DEF History, AssertionsExplained
  <2> QED BY <1>1, <1>5, <2>1 DEF AssertionsExplained
<1> QED BY <1>8, <1>9, <1>10, <1>11

\* A review of an assertion, appended: it is the last one.
LEMMA HistoryAssertion ==
  ASSUME Threads, Identified, History, NEW w \in Worker, ReviewWrite(w)
  PROVE  Stamps' /\ Columns' /\ LabelsExplained' /\ AssertionsExplained'
<1> DEFINE t == Task(w).target
           s == Task(w).status
           change(a) == IF a.id = t THEN [a EXCEPT !.state = s] ELSE a
<1>1. /\ Task(w).op = "review" /\ step[w] = "write" /\ UNCHANGED <<labels, clock>>
      /\ assertions' = {change(a) : a \in assertions}
      /\ reviews' = Append(reviews, [by |-> w, target |-> t, status |-> s,
                                     at |-> CHOOSE at \in view[w] : TRUE])
  BY AssertionReviewed DEF Reviewed
<1>2. t \in Ids(assertions) /\ t \notin Ids(labels)
  BY <1>1 DEF History, Targets, Identified
<1>3. \A a \in assertions : "state" \in DOMAIN a
  BY DEF History, Columns
<1>4. \A a \in assertions : /\ change(a).id = a.id /\ "state" \in DOMAIN change(a)
                            /\ a.id = t => change(a).state = s
                            /\ a.id # t => change(a) = a
  BY <1>3
<1> HIDE DEF change, t, s
<1>5. PICK n : n = Len(reviews)
  OBVIOUS
<1>6. /\ n \in Nat /\ DOMAIN reviews = 1 .. n /\ DOMAIN reviews' = 1 .. n + 1
      /\ \A i \in 1 .. n : reviews'[i] = reviews[i]
      /\ reviews'[n + 1].target = t /\ reviews'[n + 1].status = s
  <2>1. Sequence(reviews)
    BY DEF Threads, Shape
  <2> QED BY <1>1, <1>5, <2>1, SequenceAppend
<1>7. Stamps' /\ LabelsExplained'
  <2>1. ASSUME NEW i \in 1 .. n + 1, reviews'[i].target \in Ids(labels)
        PROVE  i \in 1 .. n /\ reviews'[i] = reviews[i]
    BY <1>2, <1>6, <2>1
  <2>2. \A i \in 1 .. n : i \in 1 .. n + 1
    BY <1>6
  <2>3. Ids(labels)' = Ids(labels) /\ \A l \in labels : l.id \in Ids(labels)
    BY <1>1 DEF Ids
  <2>4. Stamps'
    BY <1>1, <1>6, <2>1, <2>3 DEF History, Stamps
  <2>5. ASSUME NEW l \in labels', NEW i \in 1 .. n + 1, reviews'[i].target = l.id,
               \A j \in 1 .. n + 1 : reviews'[j].target = l.id => reviews'[j].at <= reviews'[i].at
        PROVE  l.status = reviews'[i].status
    <3>0. l \in labels
      BY <1>1, <2>5
    <3>1. i \in 1 .. n /\ reviews'[i] = reviews[i]
      BY <2>1, <2>3, <2>5, <3>0
    <3>2. \A j \in 1 .. n : reviews[j].target = l.id => reviews[j].at <= reviews[i].at
      BY <1>6, <2>2, <2>5, <3>1
    <3> QED BY <1>6, <2>5, <3>0, <3>1, <3>2 DEF History, LabelsExplained
  <2>6. LabelsExplained'
    BY <1>6, <2>5 DEF LabelsExplained
  <2> QED BY <2>4, <2>6
<1>8. Columns'
  BY <1>1, <1>4 DEF History, Columns
<1>9. AssertionsExplained'
  <2>1. ASSUME NEW a \in assertions, NEW i \in 1 .. n + 1, reviews'[i].target = a.id,
               \A j \in 1 .. n + 1 : j > i => reviews'[j].target # a.id
        PROVE  change(a).state = reviews'[i].status
    <3>1. CASE a.id = t
      <4>1. n + 1 \in 1 .. n + 1
        BY <1>6
      <4>2. ~(n + 1 > i)
        BY <1>6, <2>1, <3>1, <4>1
      <4>3. i = n + 1
        BY <1>6, <4>2
      <4> QED BY <1>4, <1>6, <3>1, <4>3
    <3>2. CASE a.id # t
      <4>1. i \in 1 .. n /\ reviews'[i] = reviews[i]
        BY <1>6, <2>1, <3>2
      <4>2. \A j \in 1 .. n : j > i => reviews[j].target # a.id
        BY <1>6, <2>1
      <4>3. a.state = reviews[i].status
        BY <1>6, <2>1, <4>1, <4>2 DEF History, AssertionsExplained
      <4> QED BY <1>4, <3>2, <4>1, <4>3
    <3> QED BY <3>1, <3>2
  <2>2. ASSUME NEW a \in assertions', NEW i \in 1 .. n + 1, reviews'[i].target = a.id,
               \A j \in 1 .. n + 1 : j > i => reviews'[j].target # a.id
        PROVE  a.state = reviews'[i].status
    <3>1. PICK k \in assertions : a = change(k)
      BY <1>1
    <3> QED BY <1>4, <2>1, <2>2, <3>1
  <2> QED BY <1>6, <2>2 DEF AssertionsExplained
<1> QED BY <1>7, <1>8, <1>9

\* What is added has not been reviewed: its identifier is new.
LEMMA HistoryAdd ==
  ASSUME Threads, Identified, History, NEW w \in Worker, UNCHANGED <<reviews, clock>>,
         \/ assertions' = assertions /\ \E l : labels' = labels \cup {l} /\ l.id = ItemId(w) /\ "status" \in DOMAIN l
         \/ labels' = labels /\ \E a : assertions' = assertions \cup {a} /\ a.id = ItemId(w) /\ "state" \in DOMAIN a
  PROVE  Stamps' /\ Columns' /\ LabelsExplained' /\ AssertionsExplained'
<1>1. \A i \in DOMAIN reviews : reviews[i].target # ItemId(w)
  BY ItemIdFresh DEF History, Targets, Identified
<1>2. Ids(labels') \subseteq Ids(labels) \cup {ItemId(w)}
  BY DEF Ids
<1>3. Stamps'
  BY <1>1, <1>2 DEF History, Stamps, Ids
<1>4. Columns'
  BY DEF History, Columns
<1>5. LabelsExplained'
  BY <1>1 DEF History, LabelsExplained
<1>6. AssertionsExplained'
  BY <1>1 DEF History, AssertionsExplained
<1> QED BY <1>3, <1>4, <1>5, <1>6

LEMMA TargetsNext ==
  ASSUME Threads, Identified, Targets, NEW w \in Worker, RegistryStep(w), [Next]_deskVars
  PROVE  Targets'
<1>1. Alone(w) /\ Ids(labels) \subseteq Ids(labels') /\ Ids(assertions) \subseteq Ids(assertions')
  <2>1. Ids(labels)' = Ids(labels') /\ Ids(assertions)' = Ids(assertions')
    BY DEF Ids
  <2> QED BY <2>1, StepsAlone, IdsStep
<1>2. \A v \in Worker : Task(v)' = Task(v)
  BY <1>1 DEF Alone, Task
<1>3. \A i \in DOMAIN reviews' : reviews'[i].target \in Ids(labels) \cup Ids(assertions)
  <2>1. CASE reviews' = reviews
    BY <2>1 DEF Targets
  <2>2. ASSUME NEW x, reviews' = Append(reviews, x), x.target \in Ids(labels) \cup Ids(assertions)
        PROVE  \A i \in DOMAIN reviews' : reviews'[i].target \in Ids(labels) \cup Ids(assertions)
    <3>1. Sequence(reviews)
      BY DEF Threads, Shape
    <3>2. /\ Len(reviews) \in Nat /\ DOMAIN reviews = 1 .. Len(reviews)
          /\ DOMAIN reviews' = 1 .. Len(reviews) + 1 /\ reviews'[Len(reviews) + 1] = x
          /\ \A i \in DOMAIN reviews : reviews'[i] = reviews[i]
      BY <2>2, <3>1, SequenceAppend
    <3> QED BY <2>2, <3>2 DEF Targets
  <2>3. CASE ReviewLabel(w)
    BY <2>1, <2>2, <2>3, LabelReviewed
  <2>4. CASE ReviewWrite(w)
    <3>1. Task(w).target \in Ids(assertions)
      BY <2>4, AssertionReviewed DEF Targets
    <3> QED BY <2>2, <2>4, <3>1, AssertionReviewed
  <2>5. CASE ReviewRead(w)
    BY <2>1, <2>5 DEF ReviewRead
  <2> QED BY <2>1, <2>3, <2>4, <2>5, TablesTouched
<1>4. ASSUME NEW v \in Worker, Task(v).op = "review", step'[v] = "write"
      PROVE  Task(v).target \in Ids(assertions)
  <2>1. CASE v = w
    <3>1. ReviewRead(w)
      BY <1>4, <2>1, WaysIn DEF AddLabelRead, InsertRead, CaseRead, At
    <3>2. Refuse(w) => step'[w] # "write"
      BY DEF Refuse, Goto, Threads, Shape
    <3> QED BY <1>4, <2>1, <3>1, <3>2 DEF ReviewRead
  <2>2. CASE v # w
    BY <1>1, <1>4, <2>2 DEF Alone, Targets
  <2> QED BY <2>1, <2>2
<1>5. Ids(labels)' = Ids(labels') /\ Ids(assertions)' = Ids(assertions')
  BY DEF Ids
<1> QED BY <1>1, <1>2, <1>3, <1>4, <1>5 DEF Targets

LEMMA HistoryNext == Threads /\ Identified /\ History /\ [Next]_deskVars => History'
<1> SUFFICES ASSUME Threads, Identified, History, [Next]_deskVars PROVE History'
  OBVIOUS
<1>1. ASSUME NEW w \in Worker, RegistryStep(w) PROVE History'
  <2>1. Alone(w) /\ Targets'
    BY <1>1, StepsAlone, TargetsNext DEF History
  <2>2. Stamps' /\ Columns' /\ LabelsExplained' /\ AssertionsExplained'
    <3>1. CASE UNCHANGED <<labels, assertions, reviews>> /\ (clock' = clock \/ clock' = clock + 1)
      <4>1. clock \in Nat
        BY DEF Threads, Shape
      <4> QED
        BY <3>1, <4>1 DEF History, Stamps, Columns, LabelsExplained, AssertionsExplained, Ids
    <3>2. CASE AddLabelWrite(w)
      BY <3>2, LabelAdded, HistoryAdd
    <3>3. CASE BuildAssertion(w)
      BY <3>3, AssertionBuilt, HistoryAdd
    <3>4. CASE ReviewLabel(w)
      <4>1. CASE labels' = labels /\ UNCHANGED <<assertions, reviews, clock>>
        BY <3>1, <4>1
      <4>2. CASE ~UNCHANGED <<labels, reviews, clock>>
        BY <3>4, <4>2, HistoryLabel
      <4> QED BY <3>4, <4>1, <4>2, LabelReviewed
    <3>5. CASE ReviewWrite(w)
      BY <3>5, HistoryAssertion
    <3>6. CASE ReviewRead(w)
      BY <3>1, <3>6 DEF ReviewRead
    <3> QED BY <1>1, <3>1, <3>2, <3>3, <3>4, <3>5, <3>6, TablesTouched
  <2> QED BY <2>1, <2>2 DEF History
<1>2. CASE Quiet
  BY <1>2 DEF Quiet, History, Targets, Stamps, Columns, LabelsExplained, AssertionsExplained, Ids, Task
<1>3. CASE Restart
  <2>1. /\ UNCHANGED <<task, labels, assertions, reviews, clock>>
        /\ \A w \in Worker : step'[w] # "write" /\ Task(w)' = Task(w)
    BY <1>3 DEF Restart, tables, Task
  <2> QED BY <2>1 DEF History, Targets, Stamps, Columns, LabelsExplained, AssertionsExplained, Ids
<1> QED BY <1>1, <1>2, <1>3, StepKinds

\* Whatever is reviewed at the same time: a label has the status of its latest review
\* by time stamp, an assertion the state of the review committed last (storage.py,
\* review_label and review_entity_address_assertion_v2).
THEOREM HistoryTells == Spec => []HistoryExplains
<1>1. Init => History
  <2>1. DOMAIN << >> = {}
    BY EmptySeq
  <2> QED BY <2>1, DeskAssumption
    DEF Init, History, Targets, Stamps, Columns, LabelsExplained, AssertionsExplained
<1>2. History => HistoryExplains
  BY DEF History, LabelsExplained, AssertionsExplained, HistoryExplains
<1> QED BY <1>1, <1>2, ThreadsInit, ThreadsNext, IdentifiedInit, IdentifiedNext, HistoryNext, PTL DEF Spec

-----------------------------------------------------------------------------
(* The migration of the labels *)

\* A label still has the status it was listed with, or was reviewed since.
Current(label, status, base) ==
  \A l \in labels : l.id = label =>
    l.status = status \/ \E i \in DOMAIN reviews : i > base /\ reviews[i].target = label

\* What a migration has listed, and not yet been through.
Listing ==
  \A w \in Worker : Task(w).op = "migrate" =>
    \A i \in DOMAIN todo[w] :
      /\ todo[w][i].label \in Ids(labels) /\ todo[w][i].base \in 0 .. Len(reviews)
      /\ Current(todo[w][i].label, todo[w][i].status, todo[w][i].base)

\* An assertion made from a label: the label is there, and so is what its migration saw.
Origins ==
  \A a \in assertions :
    /\ a.base \in 0 .. Len(reviews)
    /\ a.origin # NoLabel => a.origin \in Ids(labels) /\ a.seen \subseteq Ids(assertions)

\* A migration that is at a label saw no assertion made from it.
Lookups ==
  \A w \in Worker : Task(w).op = "migrate" /\ step[w] \in {"source", "entity", "assert"} =>
    /\ view[w] \subseteq Ids(assertions)
    /\ \A a \in assertions : a.origin = todo[w][1].label => a.id \notin view[w]

Migration == Listing /\ Origins /\ Lookups /\ MigrationFaithful

\* The status of a label changes with a review of it.
LEMMA StatusStays ==
  ASSUME Threads, Identified, [Next]_deskVars, NEW m \in labels', m.id \in Ids(labels)
  PROVE  \E l \in labels : l.id = m.id /\
           (l.status = m.status \/ \E i \in DOMAIN reviews' : i > Len(reviews) /\ reviews'[i].target = m.id)
<1>1. CASE m \in labels
  BY <1>1
<1>2. ASSUME NEW w \in Worker, RegistryStep(w), m \notin labels
      PROVE  \E l \in labels : l.id = m.id /\
               \E i \in DOMAIN reviews' : i > Len(reviews) /\ reviews'[i].target = m.id
  <2>1. CASE AddLabelWrite(w)
    BY <1>2, <2>1, LabelAdded, ItemIdFresh DEF Identified
  <2>2. CASE ReviewLabel(w)
    <3> DEFINE change(l) == IF l.id = Task(w).target THEN [l EXCEPT !.status = Task(w).status] ELSE l
    <3>1. /\ labels' = {change(l) : l \in labels}
          /\ reviews' = Append(reviews, [by |-> w, target |-> Task(w).target,
                                         status |-> Task(w).status, at |-> clock + 1])
      BY <1>2, <2>2, LabelReviewed
    <3>2. \A l \in labels : change(l).id = l.id /\ (l.id # Task(w).target => change(l) = l)
      OBVIOUS
    <3> HIDE DEF change
    <3>3. PICK l \in labels : m = change(l)
      BY <3>1
    <3>4. l.id = m.id /\ m.id = Task(w).target
      BY <1>2, <3>2, <3>3
    <3>5. PICK n : n = Len(reviews) + 1
      OBVIOUS
    <3>6. Sequence(reviews)
      BY DEF Threads, Shape
    <3>7. /\ n \in DOMAIN reviews' /\ n > Len(reviews)
          /\ reviews'[n] = [by |-> w, target |-> Task(w).target, status |-> Task(w).status,
                            at |-> clock + 1]
      BY <3>1, <3>5, <3>6, SequenceAppend
    <3> QED BY <3>4, <3>7
  <2> QED BY <1>2, <2>1, <2>2, TablesTouched
<1>3. Quiet \/ Restart => labels' = labels
  BY DEF Quiet, Restart, tables
<1> QED BY <1>1, <1>2, <1>3, StepKinds

\* The state of an assertion changes with a review of it, and nothing else does.
Kept(b) ==
  \E a \in assertions :
    /\ a.id = b.id /\ a.origin = b.origin /\ a.base = b.base /\ a.seen = b.seen
    /\ a.state = b.state \/ \E i \in DOMAIN reviews' : reviews'[i].target = b.id

LEMMA AssertionsStay ==
  ASSUME Threads, [Next]_deskVars, NEW b \in assertions', \A w \in Worker : ~BuildAssertion(w)
  PROVE  Kept(b)
<1>1. CASE b \in assertions
  BY <1>1 DEF Kept
<1>2. ASSUME NEW w \in Worker, RegistryStep(w), b \notin assertions
      PROVE  Kept(b)
  <2>1. ReviewWrite(w)
    BY <1>2, TablesTouched
  <2> DEFINE change(a) == IF a.id = Task(w).target THEN [a EXCEPT !.state = Task(w).status] ELSE a
  <2>2. /\ assertions' = {change(a) : a \in assertions}
        /\ reviews' = Append(reviews, [by |-> w, target |-> Task(w).target, status |-> Task(w).status,
                                       at |-> CHOOSE at \in view[w] : TRUE])
    BY <2>1, AssertionReviewed DEF Reviewed
  <2>3. \A a \in assertions : /\ change(a).id = a.id /\ change(a).origin = a.origin
                              /\ change(a).base = a.base /\ change(a).seen = a.seen
                              /\ a.id # Task(w).target => change(a) = a
    OBVIOUS
  <2> HIDE DEF change
  <2>4. PICK a \in assertions : b = change(a)
    BY <2>2
  <2>5. b.id = Task(w).target
    BY <1>2, <2>3, <2>4
  <2>6. PICK n : n = Len(reviews) + 1
    OBVIOUS
  <2>7. Sequence(reviews)
    BY DEF Threads, Shape
  <2>8. /\ n \in DOMAIN reviews'
        /\ reviews'[n] = [by |-> w, target |-> Task(w).target, status |-> Task(w).status,
                          at |-> CHOOSE at \in view[w] : TRUE]
    BY <2>2, <2>6, <2>7, SequenceAppend
  <2>9. reviews'[n].target = b.id
    BY <2>5, <2>8
  <2> QED BY <2>3, <2>4, <2>8, <2>9 DEF Kept
<1>3. Quiet \/ Restart => assertions' = assertions
  BY DEF Quiet, Restart, tables
<1> QED BY <1>1, <1>2, <1>3, StepKinds

\* What is there stays there.
LEMMA IdsStay ==
  ASSUME Threads, [Next]_deskVars
  PROVE  Ids(labels) \subseteq Ids(labels') /\ Ids(assertions) \subseteq Ids(assertions')
<1>1. Ids(labels)' = Ids(labels') /\ Ids(assertions)' = Ids(assertions')
  BY DEF Ids
<1>2. Quiet \/ Restart => UNCHANGED <<labels, assertions>>
  BY DEF Quiet, Restart, tables
<1> QED BY <1>1, <1>2, IdsStep, StepKinds

LEMMA CurrentStays ==
  ASSUME Threads, Identified, [Next]_deskVars, NEW label \in Ids(labels), NEW status,
         NEW base \in 0 .. Len(reviews), Current(label, status, base)
  PROVE  Current(label, status, base)'
<1>1. ASSUME NEW m \in labels', m.id = label
      PROVE  m.status = status \/ \E i \in DOMAIN reviews' : i > base /\ reviews'[i].target = label
  <2>1. PICK l \in labels : l.id = label /\
          (l.status = m.status \/ \E i \in DOMAIN reviews' : i > Len(reviews) /\ reviews'[i].target = label)
    BY <1>1, StatusStays
  <2>2. ASSUME NEW i \in DOMAIN reviews', i > Len(reviews)
        PROVE  i > base
    BY <2>2, ReviewsGrow
  <2> QED BY <2>1, <2>2, ReviewsGrow DEF Current
<1> QED BY <1>1 DEF Current

\* An entry of a listing, as it is after the step.
Entry(item) ==
  item.label \in Ids(labels) /\ item.base \in 0 .. Len(reviews) /\ Current(item.label, item.status, item.base)

LEMMA EntryStays ==
  ASSUME Threads, Identified, [Next]_deskVars, NEW item, Entry(item)
  PROVE  Entry(item)'
<1>1. Current(item.label, item.status, item.base)'
  BY CurrentStays DEF Entry
<1>2. item.base \in 0 .. Len(reviews')
  BY ReviewsGrow DEF Entry
<1>3. item.label \in Ids(labels)'
  BY IdsStay DEF Entry, Ids
<1> QED BY <1>1, <1>2, <1>3 DEF Entry

LEMMA ListingNext ==
  ASSUME Threads, Identified, Listing, [Next]_deskVars
  PROVE  Listing'
<1>1. \A w \in Worker : Task(w).op = "migrate" => \A i \in DOMAIN todo[w] : Entry(todo[w][i])
  BY DEF Listing, Entry
<1>2. \A w \in Worker : Task(w)' = Task(w)
  <2>1. task' = task
    BY StepKinds, StepsAlone DEF Alone, Quiet, Restart
  <2> QED BY <2>1 DEF Task
<1>3. ASSUME NEW v \in Worker, Task(v).op = "migrate", NEW i \in DOMAIN todo'[v]
      PROVE  Entry(todo'[v][i])
  <2>1. CASE todo'[v] = todo[v]
    BY <1>1, <1>3, <2>1
  <2>2. CASE TakesNext(v)
    <3>1. Sequence(todo[v]) /\ todo[v] # << >> /\ todo'[v] = Tail(todo[v])
      BY <2>2 DEF TakesNext, Threads, Shape
    <3>2. i + 1 \in DOMAIN todo[v] /\ todo'[v][i] = todo[v][i + 1]
      BY <1>3, <3>1, SequenceTail
    <3> QED BY <1>1, <1>3, <3>2
  <2>3. CASE Lists(v)
    <3>1. IsFiniteSet(labels) /\ todo'[v] = Listed /\ Len(reviews) \in Nat
      BY <2>3, ReviewsGrow DEF Lists, Threads, Shape
    <3>2. PICK l \in labels :
            Listed[i] = [label |-> l.id, name |-> l.owner, status |-> l.status, base |-> Len(reviews)]
      BY <1>3, <3>1, ListedLabels
    <3>3. PICK item : item = todo'[v][i]
      OBVIOUS
    <3>4. item.label = l.id /\ item.status = l.status /\ item.base = Len(reviews)
      BY <3>1, <3>2, <3>3
    <3>5. item.base \in 0 .. Len(reviews) /\ item.label \in Ids(labels)
      BY <3>1, <3>4 DEF Ids
    <3> QED BY <3>3, <3>4, <3>5 DEF Entry, Current, Identified, OneLabelPerId
  <2>4. CASE todo'[v] = << >>
    <3>1. DOMAIN << >> = {}
      BY EmptySeq
    <3> QED BY <1>3, <2>4, <3>1
  <2>5. ASSUME NEW w \in Worker, RegistryStep(w)
        PROVE  todo'[v] = todo[v] \/ TakesNext(v) \/ Lists(v)
    BY <2>5, StepsAlone DEF Alone, GoesOn
  <2>6. Restart => todo'[v] = todo[v] \/ todo'[v] = << >>
    BY DEF Restart, Threads, Shape
  <2> QED BY <2>1, <2>2, <2>3, <2>4, <2>5, <2>6, StepKinds DEF Quiet
<1>4. ASSUME NEW v \in Worker, Task(v).op = "migrate", NEW i \in DOMAIN todo'[v]
      PROVE  \A item : item = todo'[v][i] => Entry(item)'
  BY <1>3, <1>4, EntryStays
<1> QED BY <1>2, <1>4 DEF Listing, Entry

LEMMA LookupsNext ==
  ASSUME Threads, Identified, Lookups, [Next]_deskVars
  PROVE  Lookups'
<1>1. ASSUME NEW v \in Worker, Task(v).op = "migrate", step'[v] \in {"source", "entity", "assert"}
      PROVE  /\ view'[v] \subseteq Ids(assertions)
             /\ \A a \in assertions : a.origin = todo'[v][1].label => a.id \notin view'[v]
  <2>1. PICK w \in Worker : RegistryStep(w) \/ Quiet
    <3>1. ~Restart
      BY <1>1 DEF Restart
    <3> QED BY <3>1, <1>1, StepKinds
  <2>2. CASE step[v] \in {"source", "entity", "assert"} /\ view'[v] = view[v] /\ todo'[v] = todo[v]
    BY <1>1, <2>2 DEF Lookups
  <2>3. CASE Quiet \/ v # w
    BY <1>1, <2>1, <2>2, <2>3, StepsAlone DEF Alone, Quiet
  <2>4. CASE RegistryStep(w) /\ v = w
    <3>1. todo'[w] = todo[w]
      BY <1>1, <2>4, StepsAlone DEF GoesOn, TakesNext, Lists
    <3>2. CASE FindEntity(w) \/ CreateEntity(w)
      BY <2>2, <2>4, <3>1, <3>2 DEF FindEntity, CreateEntity, Building, At
    <3>3. CASE MigrateCheck(w)
      <4>1. todo[w] # << >> /\ Sequence(todo[w]) /\ view'[w] = Ids(assertions)
        BY <3>3 DEF MigrateCheck, At, Threads, ItemsLeft, Shape, Busy
      <4>2. NextItem(w) => step'[w] \in {"start", "done"}
        BY DEF NextItem, Respond, Goto, Threads, Shape
      <4>3. Migrated(Head(todo[w]).label) = {}
        BY <1>1, <2>4, <3>3, <4>2 DEF MigrateCheck
      <4>4. Head(todo[w]) = todo[w][1]
        BY <4>1, SequenceTail
      <4> QED BY <2>4, <3>1, <4>1, <4>3, <4>4 DEF Migrated
    <3>4. ~ImportRow(w)
      BY <1>1, <2>4 DEF ImportRow, At
    <3> QED BY <1>1, <2>4, <3>2, <3>3, <3>4, WaysIn
  <2> QED BY <2>1, <2>3, <2>4
<1>2. ASSUME NEW a \in assertions'
      PROVE  \/ \E b \in assertions : b.id = a.id /\ b.origin = a.origin
             \/ a.id \notin Ids(assertions)
  <2>1. ASSUME NEW w \in Worker, BuildAssertion(w)
        PROVE  a \in assertions \/ a.id \notin Ids(assertions)
    BY <2>1, AssertionBuilt, ItemIdFresh DEF Identified
  <2> QED BY <2>1, AssertionsStay DEF Kept
<1>3. \A w \in Worker : Task(w)' = Task(w)
  <2>1. task' = task
    BY StepKinds, StepsAlone DEF Alone, Quiet, Restart
  <2> QED BY <2>1 DEF Task
<1>4. Ids(assertions) \subseteq Ids(assertions)'
  BY IdsStay DEF Ids
<1>5. ASSUME NEW v \in Worker, Task(v).op = "migrate", step'[v] \in {"source", "entity", "assert"},
             NEW a \in assertions', a.origin = todo'[v][1].label
      PROVE  a.id \notin view'[v]
  BY <1>1, <1>2, <1>5
<1> QED BY <1>1, <1>3, <1>4, <1>5 DEF Lookups

\* A new assertion is the only one of its label, as far as its migration could see.
LEMMA FaithfulBuild ==
  ASSUME Threads, Identified, Migration, NEW w \in Worker, BuildAssertion(w), [Next]_deskVars
  PROVE  Origins' /\ MigrationFaithful'
<1>1. /\ Task(w).op \in {"migrate", "import"} /\ step[w] = "assert"
      /\ UNCHANGED <<labels, reviews>>
      /\ todo[w] # << >> /\ Sequence(todo[w])
  BY AssertionBuilt DEF TakesNext, Threads, Shape
<1>2. PICK item : item = todo[w][1]
  OBVIOUS
<1>3. 1 \in DOMAIN todo[w] /\ Head(todo[w]) = item
  BY <1>1, <1>2, SequenceTail
<1>4. PICK n : /\ assertions' = assertions \cup {n}
               /\ n.id = ItemId(w) /\ n.seen = view[w]
               /\ Task(w).op = "migrate" =>
                    n.origin = item.label /\ n.base = item.base /\ n.state = MigratedState(item.status)
               /\ Task(w).op = "import" => n.origin = NoLabel /\ n.base = 0
  BY <1>3, AssertionBuilt
<1>5. n.id \notin Ids(assertions)
  BY <1>4, ItemIdFresh DEF Identified
<1>6. Len(reviews) \in Nat
  BY ReviewsGrow
<1>7. n.origin # NoLabel =>
        /\ Entry(item) /\ view[w] \subseteq Ids(assertions)
        /\ n.origin = item.label /\ n.base = item.base /\ n.state = MigratedState(item.status)
        /\ \A a \in assertions : a.origin = item.label => a.id \notin view[w]
  BY <1>1, <1>2, <1>3, <1>4 DEF Migration, Listing, Lookups, Entry
<1>8. n.base \in 0 .. Len(reviews)
  <2>1. Task(w).op = "migrate" => Entry(item)
    BY <1>2, <1>3 DEF Migration, Listing, Entry
  <2> QED BY <1>1, <1>4, <1>6, <2>1 DEF Entry
<1>9. Ids(assertions') = Ids(assertions) \cup {n.id}
  BY <1>4 DEF Ids
<1>10. Origins'
  BY <1>1, <1>4, <1>7, <1>8, <1>9 DEF Migration, Origins, Entry, Ids
<1>11. ASSUME NEW a \in assertions', a.origin # NoLabel
       PROVE  /\ \A b \in assertions' : a.origin = b.origin /\ a.id # b.id
                                          => a.id \notin b.seen /\ b.id \notin a.seen
              /\ \A l \in labels : l.id = a.origin =>
                   \/ (a.state = "REVIEWED") = (l.status = "APPROVED")
                   \/ \E i \in DOMAIN reviews : \/ reviews[i].target = a.id
                                                \/ i > a.base /\ reviews[i].target = l.id
  <2>1. \A a1 \in assertions : a1.origin # NoLabel => a1.seen \subseteq Ids(assertions)
    BY DEF Migration, Origins
  <2>2. ASSUME NEW a1 \in assertions, n.origin # NoLabel, a1.origin = n.origin
        PROVE  n.id \notin a1.seen /\ a1.id \notin n.seen
    BY <1>4, <1>5, <1>7, <2>1, <2>2
  <2>3. \A b \in assertions' : a.origin = b.origin /\ a.id # b.id
                                 => a.id \notin b.seen /\ b.id \notin a.seen
    BY <1>4, <1>11, <2>2 DEF Migration, MigrationFaithful
  <2>4. CASE a \in assertions
    BY <1>11, <2>3, <2>4 DEF Migration, MigrationFaithful
  <2>5. CASE a = n
    <3>1. ASSUME NEW l \in labels, l.id = a.origin
          PROVE  \/ (a.state = "REVIEWED") = (l.status = "APPROVED")
                 \/ \E i \in DOMAIN reviews : i > a.base /\ reviews[i].target = l.id
      BY <1>7, <1>11, <2>5, <3>1 DEF Entry, Current, MigratedState
    <3> QED BY <2>3, <3>1
  <2> QED BY <1>4, <2>3, <2>4, <2>5
<1> QED BY <1>1, <1>10, <1>11 DEF MigrationFaithful

LEMMA FaithfulKeep ==
  ASSUME Threads, Identified, Migration, [Next]_deskVars, \A w \in Worker : ~BuildAssertion(w)
  PROVE  Origins' /\ MigrationFaithful'
<1>1. \A a \in assertions' : Kept(a)
  BY AssertionsStay
<1>2. /\ Ids(labels) \subseteq Ids(labels') /\ Ids(assertions) \subseteq Ids(assertions')
      /\ Ids(labels)' = Ids(labels') /\ Ids(assertions)' = Ids(assertions')
  BY IdsStay DEF Ids
<1>3. /\ Len(reviews) \in Nat /\ Len(reviews') \in Nat /\ Len(reviews) <= Len(reviews')
      /\ DOMAIN reviews = 1 .. Len(reviews) /\ DOMAIN reviews' = 1 .. Len(reviews')
      /\ \A i \in DOMAIN reviews : i \in DOMAIN reviews' /\ reviews'[i] = reviews[i]
  BY ReviewsGrow
<1>4. Origins'
  <2>1. ASSUME NEW a \in assertions'
        PROVE  /\ a.base \in 0 .. Len(reviews')
               /\ a.origin # NoLabel => a.origin \in Ids(labels') /\ a.seen \subseteq Ids(assertions')
    <3>1. PICK b \in assertions : b.origin = a.origin /\ b.base = a.base /\ b.seen = a.seen
      BY <1>1 DEF Kept
    <3>2. /\ b.base \in 0 .. Len(reviews)
          /\ b.origin # NoLabel => b.origin \in Ids(labels) /\ b.seen \subseteq Ids(assertions)
      BY DEF Migration, Origins
    <3>3. a.base \in 0 .. Len(reviews')
      BY <1>3, <3>1, <3>2
    <3> QED BY <1>2, <3>1, <3>2, <3>3
  <2> QED BY <1>2, <2>1 DEF Origins
<1>5. ASSUME NEW a \in assertions', a.origin # NoLabel, NEW b \in assertions', a.origin = b.origin, a.id # b.id
      PROVE  a.id \notin b.seen /\ b.id \notin a.seen
  <2>1. PICK a0 \in assertions : a0.id = a.id /\ a0.origin = a.origin /\ a0.seen = a.seen
    BY <1>1 DEF Kept
  <2>2. PICK b0 \in assertions : b0.id = b.id /\ b0.origin = b.origin /\ b0.seen = b.seen
    BY <1>1 DEF Kept
  <2>3. a0.id \notin b0.seen /\ b0.id \notin a0.seen
    BY <1>5, <2>1, <2>2 DEF Migration, MigrationFaithful
  <2> QED BY <2>1, <2>2, <2>3
<1>6. ASSUME NEW a \in assertions', a.origin # NoLabel, NEW m \in labels', m.id = a.origin
      PROVE  \/ (a.state = "REVIEWED") = (m.status = "APPROVED")
             \/ \E i \in DOMAIN reviews' : \/ reviews'[i].target = a.id
                                           \/ i > a.base /\ reviews'[i].target = m.id
  <2>1. PICK b \in assertions :
          /\ b.id = a.id /\ b.origin = a.origin /\ b.base = a.base
          /\ b.state = a.state \/ \E i \in DOMAIN reviews' : reviews'[i].target = a.id
    BY <1>1 DEF Kept
  <2>2. m.id \in Ids(labels) /\ b.base \in 0 .. Len(reviews)
    BY <1>6, <2>1 DEF Migration, Origins
  <2>3. PICK l \in labels : l.id = m.id /\
          (l.status = m.status \/ \E i \in DOMAIN reviews' : i > Len(reviews) /\ reviews'[i].target = m.id)
    BY <2>2, StatusStays
  <2>4. \A i \in DOMAIN reviews' : i > Len(reviews) => i > a.base
    BY <1>3, <2>1, <2>2
  <2>5. \/ (b.state = "REVIEWED") = (l.status = "APPROVED")
        \/ \E i \in DOMAIN reviews : \/ reviews[i].target = b.id
                                     \/ i > b.base /\ reviews[i].target = l.id
    BY <1>6, <2>1, <2>3 DEF Migration, MigrationFaithful
  <2>6. CASE b.state = a.state /\ l.status = m.status
    <3>1. (\E i \in DOMAIN reviews : \/ reviews[i].target = b.id
                                     \/ i > b.base /\ reviews[i].target = l.id)
          => \E i \in DOMAIN reviews' : \/ reviews'[i].target = a.id
                                        \/ i > a.base /\ reviews'[i].target = m.id
      BY <1>3, <2>1, <2>3
    <3> QED BY <2>5, <2>6, <3>1
  <2>7. CASE ~(b.state = a.state /\ l.status = m.status)
    BY <2>1, <2>3, <2>4, <2>7
  <2> QED BY <2>6, <2>7
<1> QED BY <1>4, <1>5, <1>6 DEF MigrationFaithful

LEMMA MigrationNext == Threads /\ Identified /\ Migration /\ [Next]_deskVars => Migration'
<1> SUFFICES ASSUME Threads, Identified, Migration, [Next]_deskVars PROVE Migration'
  OBVIOUS
<1>1. Listing' /\ Lookups'
  BY ListingNext, LookupsNext DEF Migration
<1>2. Origins' /\ MigrationFaithful'
  BY FaithfulBuild, FaithfulKeep
<1> QED BY <1>1, <1>2 DEF Migration

\* Over crashes and restarts of a migration, beside other migrations, imports and
\* reviews: migrations that see each other's assertions make one for each label, and it
\* agrees with the label until one of them is reviewed (storage.py,
\* migrate_legacy_labels_to_assertions).
THEOREM MigrationKeepsFaith == Spec => []MigrationFaithful
<1>1. Init => Migration
  <2> SUFFICES ASSUME Init PROVE Migration
    OBVIOUS
  <2>1. DOMAIN << >> = {} /\ Len(<< >>) = 0
    BY EmptySeq
  <2>2. /\ task \in Scenarios /\ labels = SeedLabels /\ assertions = SeedAssertions /\ Len(reviews) = 0
        /\ \A w \in Worker : step[w] = "start"
        /\ \A w \in Worker : Task(w).op = "migrate" => todo[w] = << >>
    BY <2>1 DEF Init, Items
  <2>3. Listing /\ Lookups
    BY <2>1, <2>2 DEF Listing, Lookups
  <2>4. Origins
    BY <2>2, DeskAssumption DEF Origins, Ids
  <2>5. MigrationFaithful
    <3>1. ASSUME NEW a \in SeedAssertions, a.origin # NoLabel, NEW l \in SeedLabels, l.id = a.origin
          PROVE  (a.state = "REVIEWED") = (l.status = "APPROVED")
      BY <3>1, DeskAssumption
    <3>2. \A a \in SeedAssertions : a.seen = {}
      BY DeskAssumption
    <3> QED BY <2>2, <3>1, <3>2 DEF MigrationFaithful
  <2> QED BY <2>3, <2>4, <2>5 DEF Migration
<1>2. Migration => MigrationFaithful
  BY DEF Migration
<1> QED BY <1>1, <1>2, ThreadsInit, ThreadsNext, IdentifiedInit, IdentifiedNext, MigrationNext, PTL DEF Spec

-----------------------------------------------------------------------------
(* What an audit event tells *)

\* The operation of request e took effect, on every item it names.
Took(e) ==
  CASE task[e].op = "label" -> \A k \in DOMAIN task[e].items : <<e, k>> \in Ids(labels)
    [] task[e].op \in {"review", "review_label"} -> \E i \in DOMAIN reviews : reviews[i].by = e
    [] task[e].op = "insert" -> Keyed(task[e]) # {}
    [] task[e].op = "append" -> e \in Ids(rows)
    [] task[e].op = "case" -> \E i \in DOMAIN caseLog : caseLog[i].by = e
    [] OTHER -> todo[e] = << >>

Applied == \A e \in Event : step[e] = "done" => Took(e)

\* A request calls audit() when it is through, and never before.
Answered == DOMAIN phase = Event /\ \A e \in Event : phase[e] # "none" => step[e] = "done"

\* The labels of a list are added from the last to the first.
LabelledSoFar ==
  \A e \in Event : task[e].op = "label" =>
    /\ Len(todo[e]) <= Len(task[e].items)
    /\ \A k \in DOMAIN task[e].items : k > Len(todo[e]) => <<e, k>> \in Ids(labels)

Effects == LabelledSoFar /\ Applied /\ Answered

Listers == {"label", "import", "migrate"}

\* How a request comes to its end.
LEMMA Ends ==
  ASSUME Threads, NEW w \in Worker, RegistryStep(w), step'[w] = "done"
  PROVE  \/ Task(w).op \in Listers /\ todo'[w] = << >>
         \/ ReviewLabel(w) /\ Task(w).target \in Ids(labels)
         \/ ReviewWrite(w) \/ InsertWrite(w) \/ AppendRow(w) \/ CaseWrite(w)
         \/ InsertRead(w) /\ Keyed(Task(w)) # {}
<1> DEFINE Result == \/ Task(w).op \in Listers /\ todo'[w] = << >>
                     \/ ReviewLabel(w) /\ Task(w).target \in Ids(labels)
                     \/ ReviewWrite(w) \/ InsertWrite(w) \/ AppendRow(w) \/ CaseWrite(w)
                     \/ InsertRead(w) /\ Keyed(Task(w)) # {}
<1> SUFFICES Result
  OBVIOUS
<1>1. \A s : Goto(w, s) => s = "done"
  BY DEF Goto, Threads, Shape
<1>2. ASSUME NextItem(w), todo[w] # << >>, Task(w).op \in Listers
      PROVE  Result
  <2>1. Sequence(todo[w]) /\ Len(todo[w]) = 1 /\ todo'[w] = Tail(todo[w])
    BY <1>1, <1>2 DEF NextItem, Threads, Shape
  <2>2. Tail(todo[w]) = << >>
    BY <1>2, <2>1, SequenceTail
  <2> QED BY <1>2, <2>1, <2>2
<1> HIDE DEF Result
<1>3. CASE NoItems(w)
  BY <1>3 DEF NoItems, At, Result, Listers
<1>4. CASE AddLabelWrite(w)
  <2>1. Task(w).op = "label" /\ NextItem(w) /\ todo[w] # << >>
    BY <1>4 DEF AddLabelWrite, At, Threads, ItemsLeft
  <2> QED BY <1>2, <2>1 DEF Listers
<1>5. CASE MigrateList(w)
  <2>1. /\ Task(w).op = "migrate" /\ todo'[w] = Listed /\ labels = {} /\ IsFiniteSet(labels)
    BY <1>1, <1>5 DEF MigrateList, At, Threads, Shape
  <2>2. Listed = << >>
    BY <2>1, ListedLabels
  <2> QED BY <2>1, <2>2 DEF Result, Listers
<1>6. CASE MigrateCheck(w)
  <2>1. Task(w).op = "migrate" /\ NextItem(w) /\ todo[w] # << >>
    BY <1>1, <1>6 DEF MigrateCheck, At, Threads, ItemsLeft, Busy
  <2> QED BY <1>2, <2>1 DEF Listers
<1>7. CASE BuildAssertion(w)
  <2>1. Task(w).op \in {"migrate", "import"} /\ NextItem(w) /\ todo[w] # << >>
    BY <1>7 DEF BuildAssertion, Building, At, Threads, ItemsLeft, Busy
  <2> QED BY <1>2, <2>1 DEF Listers
<1>8. CASE WriteTimesOut(w)
  <2>1. Task(w).op = "import" /\ NextItem(w) /\ todo[w] # << >>
    BY <1>1, <1>8 DEF WriteTimesOut, Fails, Threads, ItemsLeft, Busy
  <2> QED BY <1>2, <2>1 DEF Listers
<1>9. CASE AddLabelRead(w) \/ ImportRow(w) \/ FindEntity(w) \/ CreateEntity(w) \/ ReviewRead(w) \/ CaseRead(w) \/ Missing(w)
  BY <1>1, <1>9 DEF AddLabelRead, ImportRow, FindEntity, CreateEntity, ReviewRead, CaseRead, Missing, Refuse
<1>10. CASE ReviewLabel(w) \/ InsertRead(w)
  BY <1>1, <1>10 DEF ReviewLabel, InsertRead, Refuse, Result
<1>11. CASE ReviewWrite(w) \/ InsertWrite(w) \/ AppendRow(w) \/ CaseWrite(w)
  BY <1>11 DEF Result
<1> QED BY <1>3, <1>4, <1>5, <1>6, <1>7, <1>8, <1>9, <1>10, <1>11 DEF RegistryStep

LEMMA BooksGrow ==
  ASSUME Threads, [Next]_deskVars
  PROVE  /\ rows \subseteq rows'
         /\ \A i \in DOMAIN caseLog : i \in DOMAIN caseLog' /\ caseLog'[i] = caseLog[i]
<1>1. ASSUME NEW w \in Worker, RegistryStep(w)
      PROVE  /\ rows \subseteq rows'
             /\ caseLog' = caseLog \/ \E x : caseLog' = Append(caseLog, x)
  BY <1>1, TablesTouched DEF InsertWrite, AppendRow, CaseWrite
<1>2. Quiet \/ Restart => UNCHANGED <<rows, caseLog>>
  BY DEF Quiet, Restart, tables
<1>3. Sequence(caseLog)
  BY DEF Threads, Shape
<1>4. \A x : \A i \in DOMAIN caseLog :
        i \in DOMAIN Append(caseLog, x) /\ Append(caseLog, x)[i] = caseLog[i]
  <2>1. ASSUME NEW x, NEW i \in DOMAIN caseLog
        PROVE  i \in DOMAIN Append(caseLog, x) /\ Append(caseLog, x)[i] = caseLog[i]
    <3>1. /\ Len(caseLog) \in Nat /\ DOMAIN caseLog = 1 .. Len(caseLog)
          /\ DOMAIN Append(caseLog, x) = 1 .. Len(caseLog) + 1
          /\ Append(caseLog, x)[i] = caseLog[i]
      BY <1>3, SequenceAppend
    <3> QED BY <3>1
  <2> QED BY <2>1
<1> QED BY <1>1, <1>2, <1>4, StepKinds

\* What took effect stays in effect.
LEMMA TookStays ==
  ASSUME Threads, [Next]_deskVars, NEW e \in Event, step[e] = "done", Took(e)
  PROVE  Took(e)' /\ step'[e] = "done"
<1>1. e \in Worker /\ e # Startup
  BY DeskAssumption DEF Worker
<1>2. task' = task /\ step'[e] = "done" /\ todo'[e] = todo[e]
  <2>1. ASSUME NEW w \in Worker, RegistryStep(w) PROVE Alone(w) /\ w # e
    BY <2>1, StepsAlone
  <2>2. Restart => task' = task /\ step'[e] = "done" /\ todo'[e] = todo[e]
    BY <1>1 DEF Restart, Threads, Shape
  <2> QED BY <1>1, <2>1, <2>2, StepKinds DEF Alone, Quiet
<1>3. /\ \A i \in DOMAIN reviews : i \in DOMAIN reviews' /\ reviews'[i] = reviews[i]
      /\ \A i \in DOMAIN caseLog : i \in DOMAIN caseLog' /\ caseLog'[i] = caseLog[i]
      /\ Ids(labels) \subseteq Ids(labels)' /\ Ids(rows) \subseteq Ids(rows)'
      /\ Keyed(task[e]) \subseteq Keyed(task[e])'
  <2>1. rows \subseteq rows'
    BY BooksGrow
  <2>2. Ids(labels)' = Ids(labels')
    BY DEF Ids
  <2>3. Ids(rows) \subseteq Ids(rows)' /\ Keyed(task[e]) \subseteq Keyed(task[e])'
    BY <1>2, <2>1 DEF Ids, Keyed
  <2> QED BY <2>2, <2>3, ReviewsGrow, IdsStay, BooksGrow
<1>4. CASE task[e].op = "label"
  BY <1>2, <1>3, <1>4 DEF Took
<1>5. CASE task[e].op \in {"review", "review_label"}
  BY <1>2, <1>3, <1>5 DEF Took
<1>6. CASE task[e].op = "insert"
  BY <1>2, <1>3, <1>6 DEF Took
<1>7. CASE task[e].op = "append"
  BY <1>2, <1>3, <1>7 DEF Took
<1>8. CASE task[e].op = "case"
  BY <1>2, <1>3, <1>8 DEF Took
<1>9. CASE task[e].op \notin {"label", "review", "review_label", "insert", "append", "case"}
  BY <1>2, <1>9 DEF Took
<1> QED BY <1>2, <1>4, <1>5, <1>6, <1>7, <1>8, <1>9

LEMMA LabelledNext ==
  ASSUME Threads, LabelledSoFar, [Next]_deskVars
  PROVE  LabelledSoFar'
<1>1. ASSUME NEW e \in Event, task[e].op = "label"
      PROVE  /\ task' = task /\ Len(todo'[e]) <= Len(task[e].items)
             /\ \A k \in DOMAIN task[e].items : k > Len(todo'[e]) => <<e, k>> \in Ids(labels')
  <2>1. e \in Worker /\ e # Startup /\ Task(e) = task[e]
    BY DeskAssumption DEF Worker, Task
  <2>2. /\ Len(todo[e]) <= Len(task[e].items)
        /\ \A k \in DOMAIN task[e].items : k > Len(todo[e]) => <<e, k>> \in Ids(labels)
    BY <1>1 DEF LabelledSoFar
  <2>3. CASE task' = task /\ todo'[e] = todo[e]
    BY <2>2, <2>3, IdsStay
  <2>4. CASE AddLabelWrite(e)
    <3>1. /\ todo[e] # << >> /\ todo'[e] = Tail(todo[e]) /\ Sequence(todo[e]) /\ task' = task
      BY <2>1, <2>4, LabelAdded DEF TakesNext, AddLabelWrite, Threads, Shape
    <3>2. Len(todo[e]) \in Nat /\ Len(todo'[e]) = Len(todo[e]) - 1
      BY <3>1, SequenceTail
    <3>3. ItemId(e) = <<e, Len(todo[e])>>
      BY <2>1 DEF ItemId
    <3>4. Ids(labels) \subseteq Ids(labels') /\ <<e, Len(todo[e])>> \in Ids(labels')
      BY <2>1, <2>4, <3>3, LabelAdded DEF Ids
    <3>5. \A k \in DOMAIN task[e].items : k \in Nat
      <4>1. task[e].items \in Seq(Range(task[e].items))
        BY <1>1, DeskAssumption DEF Threads, Shape
      <4> QED BY <4>1, LenProperties
    <3>6. Len(task[e].items) \in Nat
      <4>1. task[e].items \in Seq(Range(task[e].items))
        BY <1>1, DeskAssumption DEF Threads, Shape
      <4> QED BY <4>1, LenProperties
    <3>7. ASSUME NEW k \in DOMAIN task[e].items, k > Len(todo'[e])
          PROVE  <<e, k>> \in Ids(labels')
      <4>1. k > Len(todo[e]) \/ k = Len(todo[e])
        BY <3>2, <3>5, <3>7
      <4> QED BY <2>2, <3>4, <4>1
    <3>8. Len(todo'[e]) <= Len(task[e].items)
      BY <2>2, <3>2, <3>6
    <3> QED BY <3>1, <3>7, <3>8
  <2>5. ASSUME NEW w \in Worker, RegistryStep(w)
        PROVE  task' = task /\ (todo'[e] = todo[e] \/ AddLabelWrite(e))
    <3>1. Alone(w) /\ (GoesOn(w) \/ TakesNext(w) \/ Lists(w))
      BY <2>5, StepsAlone
    <3>2. CASE w = e /\ TakesNext(e)
      <4>1. step'[e] \in {"start", "done"}
        BY <3>2 DEF TakesNext
      <4>2. CASE NoItems(e) \/ AddLabelRead(e) \/ ImportRow(e) \/ FindEntity(e) \/ CreateEntity(e)
        BY <3>1, <3>2, <4>2 DEF NoItems, AddLabelRead, ImportRow, FindEntity, CreateEntity, Alone
      <4>3. ~(MigrateList(e) \/ MigrateCheck(e) \/ BuildAssertion(e))
        BY <1>1, <2>1 DEF MigrateList, MigrateCheck, BuildAssertion, Building, At
      <4>4. ~(ReviewLabel(e) \/ ReviewRead(e) \/ ReviewWrite(e) \/ InsertRead(e) \/ InsertWrite(e)
              \/ AppendRow(e) \/ CaseRead(e) \/ CaseWrite(e) \/ Missing(e))
        BY <1>1, <2>1 DEF ReviewLabel, ReviewRead, ReviewWrite, InsertRead, InsertWrite, AppendRow,
                          CaseRead, CaseWrite, Missing, At
      <4>5. CASE WriteTimesOut(e)
        BY <1>1, <2>1, <3>1, <3>2, <4>5 DEF WriteTimesOut, Alone
      <4> QED BY <2>5, <3>1, <3>2, <4>2, <4>3, <4>4, <4>5 DEF RegistryStep, Alone
    <3>3. w = e => ~Lists(w)
      BY <1>1, <2>1 DEF Lists
    <3> QED BY <2>1, <3>1, <3>2, <3>3 DEF Alone, GoesOn
  <2>6. Restart => task' = task /\ todo'[e] = todo[e]
    BY <2>1 DEF Restart, Threads, Shape
  <2> QED BY <2>3, <2>4, <2>5, <2>6, StepKinds DEF Quiet
<1>2. task' = task
  BY StepKinds, StepsAlone DEF Alone, Quiet, Restart
<1>3. Ids(labels)' = Ids(labels')
  BY DEF Ids
<1> QED BY <1>1, <1>2, <1>3 DEF LabelledSoFar

\* A request that has just come to its end took effect.
LEMMA TookNow ==
  ASSUME Threads, LabelledSoFar', NEW e \in Event, RegistryStep(e), step'[e] = "done"
  PROVE  Took(e)'
<1>1. e \in Worker /\ e # Startup /\ Task(e) = task[e]
  BY DeskAssumption DEF Worker, Task
<1>2. task' = task /\ task[e].op \in Operation
  BY <1>1, StepsAlone, Operations DEF Alone, Threads, Shape
<1>3. CASE task[e].op \in Listers /\ todo'[e] = << >>
  <2>1. CASE task[e].op = "label"
    <3>1. \A k \in DOMAIN task[e].items : k \in Nat /\ k > 0
      <4>1. task[e].items \in Seq(Range(task[e].items))
        BY <2>1, DeskAssumption DEF Threads, Shape
      <4>2. Len(task[e].items) \in Nat /\ DOMAIN task[e].items = 1 .. Len(task[e].items)
        BY <4>1, LenProperties
      <4> QED BY <4>2
    <3>2. Len(todo'[e]) = 0
      BY <1>3, EmptySeq
    <3>3. \A k \in DOMAIN task'[e].items : k > Len(todo'[e]) => <<e, k>> \in Ids(labels)'
      BY <1>2, <2>1 DEF LabelledSoFar
    <3> QED BY <1>2, <2>1, <3>1, <3>2, <3>3 DEF Took
  <2>2. CASE task[e].op \in {"import", "migrate"}
    BY <1>2, <1>3, <2>2 DEF Took
  <2> QED BY <1>3, <2>1, <2>2 DEF Listers
<1>4. ASSUME NEW x, reviews' = Append(reviews, x), x.by = e, task[e].op \in {"review", "review_label"}
      PROVE  Took(e)'
  <2>1. PICK n : n = Len(reviews) + 1
    OBVIOUS
  <2>2. Sequence(reviews)
    BY DEF Threads, Shape
  <2>3. /\ Len(reviews) \in Nat /\ DOMAIN reviews' = 1 .. Len(reviews) + 1 /\ reviews'[n] = x
    BY <1>4, <2>1, <2>2, SequenceAppend
  <2>4. n \in DOMAIN reviews'
    BY <2>1, <2>3
  <2> QED BY <1>2, <1>4, <2>3, <2>4 DEF Took
<1>5. CASE ReviewLabel(e) /\ Task(e).target \in Ids(labels)
  <2>1. /\ task[e].op = "review_label"
        /\ reviews' = Append(reviews, [by |-> e, target |-> Task(e).target, status |-> Task(e).status,
                                       at |-> LabelStamp])
    BY <1>1, <1>5 DEF ReviewLabel, At
  <2> QED BY <1>4, <2>1
<1>6. CASE ReviewWrite(e)
  <2>1. /\ task[e].op = "review"
        /\ reviews' = Append(reviews, [by |-> e, target |-> Task(e).target, status |-> Task(e).status,
                                       at |-> CHOOSE at \in view[e] : TRUE])
    BY <1>1, <1>6, AssertionReviewed
  <2> QED BY <1>4, <2>1
<1>7. CASE InsertWrite(e)
  <2>1. Fails(e) => step'[e] = "failed"
    BY <1>1 DEF Fails, Goto, Threads, Shape
  <2> DEFINE new == [id |-> e, table |-> task[e].table, key |-> task[e].key, seen |-> view[e]]
  <2>2. task[e].op = "insert" /\ rows' = rows \cup {new}
    BY <1>1, <1>7, <2>1 DEF InsertWrite, At
  <2>3. new.table = task[e].table /\ new.key = task[e].key
    OBVIOUS
  <2> HIDE DEF new
  <2>4. new \in Keyed(task[e])'
    BY <1>2, <2>2, <2>3 DEF Keyed
  <2> QED BY <1>2, <2>2, <2>4 DEF Took
<1>8. CASE InsertRead(e) /\ Keyed(Task(e)) # {}
  BY <1>1, <1>2, <1>8 DEF InsertRead, At, tables, Took, Keyed
<1>9. CASE AppendRow(e)
  <2> DEFINE new == [id |-> e, table |-> task[e].table, key |-> e, seen |-> {}]
  <2>1. task[e].op = "append" /\ new \in rows'
    BY <1>1, <1>9 DEF AppendRow, At
  <2>2. new.id = e
    OBVIOUS
  <2> HIDE DEF new
  <2>3. e \in Ids(rows)'
    BY <2>1, <2>2 DEF Ids
  <2> QED BY <1>2, <2>1, <2>3 DEF Took
<1>10. CASE CaseWrite(e)
  <2>1. PICK read \in view[e] : caseLog' = Append(caseLog, [by |-> e, base |-> read.base])
    BY <1>10 DEF CaseWrite
  <2>2. PICK n : n = Len(caseLog) + 1
    OBVIOUS
  <2>3. Sequence(caseLog)
    BY DEF Threads, Shape
  <2>4. /\ Len(caseLog) \in Nat /\ DOMAIN caseLog' = 1 .. Len(caseLog) + 1
        /\ caseLog'[n] = [by |-> e, base |-> read.base]
    BY <2>1, <2>2, <2>3, SequenceAppend
  <2>5. n \in DOMAIN caseLog' /\ caseLog'[n].by = e /\ task[e].op = "case"
    BY <1>1, <1>10, <2>2, <2>4 DEF CaseWrite, At
  <2> QED BY <1>2, <2>5 DEF Took
<1> QED BY <1>1, <1>3, <1>5, <1>6, <1>7, <1>8, <1>9, <1>10, Ends

\* The audit calls of a step are those of the requests it answers.
LEMMA AnsweredNext ==
  ASSUME Threads, Answered, [Next]_deskVars
  PROVE  Answered'
<1>1. \A e \in Event : e \in Worker /\ e # Startup
  BY DeskAssumption DEF Worker
<1>2. ASSUME NEW w \in Worker, Respond(w), step' = [step EXCEPT ![w] = "done"]
      PROVE  Answered'
  <2>1. CASE w = Startup
    BY <1>1, <1>2, <2>1 DEF Respond, Answered, trailVars
  <2>2. CASE w # Startup
    <3>1. w \in Event /\ phase' = [phase EXCEPT ![w] = "waiting"] /\ DOMAIN step = Worker
      BY <1>2, <2>2 DEF Respond, CallAudit, Worker, Threads, Shape
    <3> QED BY <1>1, <1>2, <3>1 DEF Answered
  <2> QED BY <2>1, <2>2
<1>3. ASSUME NEW w \in Worker, RegistryStep(w)
      PROVE  Answered'
  <2>1. Alone(w) /\ step[w] # "done"
    BY <1>3, StepsAlone
  <2>2. CASE UNCHANGED trailVars
    <3>1. phase' = phase
      BY <2>2 DEF trailVars
    <3> QED BY <1>1, <2>1, <3>1 DEF Answered, Alone
  <2>3. CASE Respond(w)
    BY <1>2, <2>3 DEF Respond, Goto
  <2> QED BY <1>3, <2>2, <2>3, RegistryTrail
<1>4. CASE AuditStep
  <2>1. UNCHANGED <<step, task>>
    BY <1>4 DEF AuditStep, local
  <2>2. PICK f \in Event : TrailStep(f)
    BY <1>4 DEF AuditStep
  <2>3. phase[f] # "none" /\ DOMAIN phase = Event /\ \E p : phase' = [phase EXCEPT ![f] = p]
    BY <2>2 DEF TrailStep, InsertEvent, ReadTail, InsertLink, AuditTimesOut, Answered
  <2> QED BY <2>1, <2>3 DEF Answered
<1>5. CASE Restart
  BY <1>1, <1>5 DEF Restart, TrailCrash, Answered
<1>6. CASE UNCHANGED deskVars
  BY <1>6 DEF deskVars, trailVars, local, Answered
<1> QED BY <1>3, <1>4, <1>5, <1>6 DEF Next

LEMMA EffectsNext == Threads /\ Effects /\ [Next]_deskVars => Effects'
<1> SUFFICES ASSUME Threads, Effects, [Next]_deskVars PROVE Effects'
  OBVIOUS
<1>1. LabelledSoFar' /\ Answered'
  BY LabelledNext, AnsweredNext DEF Effects
<1>2. ASSUME NEW e \in Event, step'[e] = "done"
      PROVE  Took(e)'
  <2>1. CASE step[e] = "done"
    BY <2>1, TookStays DEF Effects, Applied
  <2>2. CASE step[e] # "done"
    <3>1. e \in Worker /\ e # Startup
      BY DeskAssumption DEF Worker
    <3>2. ~Restart /\ ~Quiet
      BY <1>2, <2>2, <3>1 DEF Restart, Quiet
    <3>3. RegistryStep(e)
      BY <1>2, <2>2, <3>1, <3>2, StepKinds, StepsAlone DEF Alone
    <3> QED BY <1>1, <1>2, <3>3, TookNow
  <2> QED BY <2>1, <2>2
<1> QED BY <1>1, <1>2 DEF Effects, Applied

\* An audit event is there only for an operation that took effect, on every item it
\* names, and that still stands in the tables; a request that was refused, that failed
\* or that a restart cut off left none (app.py: every endpoint calls audit() after its
\* operation committed).
THEOREM AuditTells == Spec => []AuditedIsApplied
<1>1. Init => Effects
  <2> SUFFICES ASSUME Init PROVE Effects
    OBVIOUS
  <2>1. \A e \in Event : e \in Worker /\ Task(e) = task[e] /\ step[e] = "start" /\ phase[e] = "none"
    BY DeskAssumption DEF Init, TrailInit, Worker, Task
  <2>2. DOMAIN phase = Event
    BY DEF Init, TrailInit
  <2>3. ASSUME NEW e \in Event, task[e].op = "label"
        PROVE  /\ todo[e] = task[e].items /\ Len(todo[e]) \in Nat /\ DOMAIN todo[e] = 1 .. Len(todo[e])
    <3>1. todo[e] = task[e].items
      BY <2>1, <2>3 DEF Init, Items
    <3>2. task[e].items \in Seq(Range(task[e].items))
      BY <2>3, DeskAssumption DEF Init
    <3> QED BY <3>1, <3>2, LenProperties
  <2>4. LabelledSoFar
    <3>1. ASSUME NEW e \in Event, task[e].op = "label"
          PROVE  /\ Len(todo[e]) <= Len(task[e].items)
                 /\ \A k \in DOMAIN task[e].items : ~(k > Len(todo[e]))
      BY <2>3, <3>1
    <3> QED BY <3>1 DEF LabelledSoFar
  <2> QED BY <2>1, <2>2, <2>4 DEF Effects, Applied, Answered
<1>2. Spec => []TrailTypeOK
  <2>1. IInv => TrailTypeOK
    BY DEF IInv
  <2> QED BY <2>1, DeskIsTrail, IInit, INext, PTL DEF TrailSpec
<1>3. Effects /\ ChainIntact /\ TrailTypeOK => AuditedIsApplied
  <2> SUFFICES ASSUME Effects, ChainIntact, TrailTypeOK PROVE AuditedIsApplied
    OBVIOUS
  <2>1. ASSUME NEW e \in events PROVE e \in Event /\ step[e] = "done" /\ Took(e)
    <3>1. e \in Event
      BY DEF TrailTypeOK
    <3>2. phase[e] = "done"
      BY <3>1 DEF ChainIntact
    <3> QED BY <3>1, <3>2 DEF Effects, Answered, Applied
  <2> QED BY <2>1 DEF AuditedIsApplied, Took
<1> QED
  BY <1>1, <1>2, <1>3, ThreadsInit, ThreadsNext, EffectsNext, DeskChainIntact, PTL DEF Spec
=============================================================================
