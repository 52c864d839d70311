-------------------------- MODULE TraceJobsProofs --------------------------
(***************************************************************************)
(* The trace jobs are sound for any number of jobs, retries and cancels:   *)
(* whichever stale row a late writer puts back.  Two arguments meet: what  *)
(* any row says, stored or fetched, is backed by a saved result, whoever   *)
(* writes it; and as long as no cancel request wrote the row of a job, its *)
(* only writer is the one coroutine that works on it.                      *)
(***************************************************************************)
EXTENDS TraceJobs, FiniteSetTheorems, TLAPS

CancelStages == {"idle", "ended", "cancelling", "cancelling queued"}
RunnerStages == Stage \ {"cancelling", "cancelling queued"}

\* Threads and coroutines have stages of their own, and only a stage that ends with a
\* change of the row holds a fetched one.
Staged ==
  /\ \A c \in Cancel : stage[c] \in CancelStages
  /\ \A r \in Runner : stage[r] \in RunnerStages
  /\ \A j \in Job : stage[j] # "requeueing"
  /\ \A x \in Actor : row[x] # NoRow => stage[x] \in Updating

\* An actor that has begun works on a job that has a row; a submission on its own.
Targeted ==
  /\ \A x \in Actor : stage[x] # "idle" => target[x] \in Job /\ jobs[target[x]] # NoRow
  /\ \A j \in Job : target[j] = j /\ (stage[j] = "idle" => jobs[j] = NoRow)

\* What a row of job j says of its result is true.
Sound(rw, j) == rw.status = "COMPLETED" => rw.result \in ResultsOf(CaseOf[j])

RowsSound ==
  /\ \A j \in Job : jobs[j] # NoRow => Sound(jobs[j], j)
  /\ \A x \in Actor : row[x] # NoRow => Sound(row[x], target[x])
  /\ \A r \in Runner : stage[r] = "completing" => made[r] \in ResultsOf(CaseOf[target[r]])

\* A retry that requeues holds the loop, and found its job at rest.
Requeueing ==
  \A q \in Runner : stage[q] = "requeueing" =>
    /\ loop = q
    /\ target[q] \notin touched => jobs[target[q]].status \notin Active

\* While no cancel request wrote the row of a job, a coroutine that works on it is its
\* only one, and the row, stored or fetched, is active.
Exclusive ==
  \A r \in Runner : Live(r) /\ target[r] \notin touched =>
    /\ jobs[target[r]].status \in Active
    /\ row[r] # NoRow => row[r].status \in Active
    /\ \A s \in Runner : Live(s) /\ target[s] = target[r] => s = r

\* A job that reads active is worked on, unless who worked on it died.
Served ==
  \A j \in Job \ touched : restarts = 0 /\ Reads(j, Active) =>
    \E r \in Runner : target[r] = j /\ (Live(r) \/ stage[r] = "died")

JInv ==
  /\ TypeOK /\ IsFiniteSet(results) /\ VersionedResults
  /\ Staged /\ Targeted /\ RowsSound /\ Requeueing /\ Exclusive /\ Served

-----------------------------------------------------------------------------
(* Versions *)

LEMMA ResultsFinite ==
  ASSUME IsFiniteSet(results), NEW c
  PROVE  /\ IsFiniteSet(ResultsOf(c)) /\ Cardinality(ResultsOf(c)) \in Nat
         /\ Cardinality(results) \in Nat
         /\ Cardinality(ResultsOf(c)) <= Cardinality(results)
<1>1. ResultsOf(c) \in SUBSET results
  BY DEF ResultsOf
<1> QED BY <1>1, FS_Subset, FS_CardinalityType

\* COALESCE(MAX(version), 0) + 1 counts on from the results there are.
LEMMA NextVersionCounts ==
  ASSUME IsFiniteSet(results), results \subseteq Result, VersionedResults, NEW c \in Case
  PROVE  NextVersion(c) = Cardinality(ResultsOf(c)) + 1
<1> DEFINE n == Cardinality(ResultsOf(c))
           m == Cardinality(results)
           versions == {x.version : x \in ResultsOf(c)}
           Next1(v) == /\ \A w \in versions : w < v
                       /\ v = 1 \/ v - 1 \in versions
<1>1. n \in Nat /\ m \in Nat /\ n <= m
  BY ResultsFinite
<1>2. versions = 1 .. n
  BY DEF VersionedResults
<1>3. NextVersion(c) = CHOOSE v \in 1 .. (m + 1) : Next1(v)
  <2>1. ASSUME NEW v \in 1 .. (m + 1)
        PROVE  Next1(v) <=> /\ \A x \in ResultsOf(c) : x.version < v
                            /\ v = 1 \/ \E x \in ResultsOf(c) : x.version = v - 1
    OBVIOUS
  <2> HIDE DEF Next1, versions, n
  <2> QED BY <2>1 DEF NextVersion
<1> HIDE DEF n, m, versions
<1>4. n + 1 \in 1 .. (m + 1) /\ Next1(n + 1)
  BY <1>1, <1>2
<1>5. ASSUME NEW v \in 1 .. (m + 1), Next1(v)
      PROVE  v = n + 1
  <2>1. v <= n + 1
    BY <1>1, <1>2, <1>5
  <2>2. n >= 1 => n < v
    BY <1>1, <1>2, <1>5
  <2> QED BY <1>1, <2>1, <2>2
<1> HIDE DEF Next1
<1> QED BY <1>3, <1>4, <1>5 DEF n

\* A result of new evidence with the next version keeps the versions in order.
LEMMA VersionAdded ==
  ASSUME IsFiniteSet(results), results \subseteq Result, VersionedResults,
         NEW c \in Case, NEW print \in Fingerprint, Existing(c, print) = {},
         NEW new, new = [case |-> c, version |-> NextVersion(c), print |-> print],
         results' = results \cup {new}
  PROVE  /\ new \in Result /\ new \in ResultsOf(c)'
         /\ IsFiniteSet(results') /\ results' \subseteq Result /\ VersionedResults'
<1> DEFINE R == ResultsOf(c)
           n == Cardinality(R)
           versions(S) == {x.version : x \in S}
           prints(S) == {x.print : x \in S}
<1>1. n \in Nat /\ IsFiniteSet(R)
  BY ResultsFinite
<1>2. new = [case |-> c, version |-> n + 1, print |-> print]
  BY NextVersionCounts
<1>3. new.case = c /\ new.version = n + 1 /\ new.print = print
  BY <1>2
<1>4. new \in Result
  BY <1>1, <1>2 DEF Result
<1>5. ResultsOf(c)' = R \cup {new}
  BY <1>3 DEF ResultsOf
<1>6. \A k \in Case : k # c => ResultsOf(k)' = ResultsOf(k)
  BY <1>3 DEF ResultsOf
<1>7. print \notin prints(R)
  BY DEF Existing
<1>8. IsFiniteSet(results')
  BY FS_AddElement
<1>9. new \notin R
  BY <1>3, <1>7
<1>10. Cardinality(R \cup {new}) = n + 1
  BY <1>1, <1>9, FS_AddElement
<1>11. versions(R) = 1 .. n /\ Cardinality(prints(R)) = n
  BY DEF VersionedResults
<1>12. versions(R \cup {new}) = 1 .. (n + 1)
  <2>1. versions(R \cup {new}) = versions(R) \cup {n + 1}
    BY <1>3
  <2>2. (1 .. n) \cup {n + 1} = 1 .. (n + 1)
    <3> HIDE DEF n
    <3> QED BY <1>1
  <2> QED BY <1>11, <2>1, <2>2
<1>13. Cardinality(prints(R \cup {new})) = n + 1
  <2>1. prints(R \cup {new}) = prints(R) \cup {print}
    BY <1>3
  <2>2. IsFiniteSet(prints(R))
    <3> DEFINE f == [x \in R |-> x.print]
    <3>1. f \in Surjection(R, prints(R))
      BY DEF Surjection
    <3> QED BY <1>1, <3>1, FS_Surjection
  <2> HIDE DEF prints
  <2> QED BY <1>7, <1>11, <2>1, <2>2, FS_AddElement
<1>14. VersionedResults'
  <2> SUFFICES ASSUME NEW k \in Case
               PROVE  /\ {x.version : x \in ResultsOf(k)'} = 1 .. Cardinality(ResultsOf(k)')
                      /\ Cardinality({x.print : x \in ResultsOf(k)'}) = Cardinality(ResultsOf(k)')
    BY DEF VersionedResults
  <2>1. CASE k = c
    BY <1>5, <1>10, <1>12, <1>13, <2>1
  <2>2. CASE k # c
    BY <1>6, <2>2 DEF VersionedResults
  <2> QED BY <2>1, <2>2
<1> QED BY <1>4, <1>5, <1>8, <1>14

-----------------------------------------------------------------------------
(* Steps *)

LEMMA JInit == Init => JInv
<1> SUFFICES ASSUME Init
             PROVE  JInv
  OBVIOUS
<1>1. TypeOK
  BY JobsAssumption DEF Init, TypeOK, Actor, Runner, Stage
<1>2. IsFiniteSet(results) /\ VersionedResults
  <2>1. \A c : ResultsOf(c) = {}
    BY DEF Init, ResultsOf
  <2>2. Cardinality({}) = 0 /\ IsFiniteSet({})
    BY FS_EmptySet
  <2>3. {x.version : x \in {}} = 1 .. 0 /\ {x.print : x \in {}} = {}
    OBVIOUS
  <2> QED BY <2>1, <2>2, <2>3 DEF Init, VersionedResults
<1>3. Staged /\ Targeted /\ Requeueing /\ Exclusive
  BY JobsAssumption
  DEF Init, Staged, Targeted, Requeueing, Exclusive, CancelStages, RunnerStages, Stage, Live,
      Actor, Runner
<1>4. RowsSound /\ Served
  BY DEF Init, RowsSound, Served, Reads, Actor, Runner
<1> QED BY <1>1, <1>2, <1>3, <1>4 DEF JInv

\* Results are only added, so that a row that was backed stays backed.
LEMMA TablesKept ==
  ASSUME UNCHANGED results
  PROVE  /\ \A c : ResultsOf(c)' = ResultsOf(c)
         /\ IsFiniteSet(results)' = IsFiniteSet(results)
         /\ VersionedResults' = VersionedResults
         /\ \A rw, j : Sound(rw, j)' = Sound(rw, j)
BY DEF ResultsOf, VersionedResults, Sound

\* A coroutine goes on without writing a row: to any stage that it may reach so.
Advance(r, s) ==
  /\ stage[r] \in Stage \ {"idle", "ended", "died", "requeueing"}
  /\ s \in RunnerStages \ {"idle", "completing", "requeueing"}
  /\ s = "ended" => jobs[target[r]].status = "CANCELLED"
  /\ stage' = [stage EXCEPT ![r] = s]
  /\ row' = [row EXCEPT ![r] = NoRow]
  /\ loop \in {Idle, r} /\ loop' \in {Idle, r}
  /\ waits' \in [Runner -> 0 .. MaxWaits]
  /\ UNCHANGED <<jobs, results, target, made, restarts, accepted, touched>>

LEMMA Advances ==
  ASSUME JInv, NEW r \in Runner,
         \/ Start(r) \/ Collected(r) \/ Located(r) \/ Poll(r) \/ Resume(r)
         \/ Raise(r) \/ Die(r) \/ Handle(r)
  PROVE  \E s \in Stage : Advance(r, s)
<1>0. row[r] = NoRow => row = [row EXCEPT ![r] = NoRow]
  BY DEF JInv, TypeOK, Actor
<1>a. stage[r] \notin Updating => row[r] = NoRow
  BY DEF JInv, Staged, Actor
<1> USE DEF Advance, Goto, Turn, RunnerStages, Stage, Updating, Waiting, Reporting, tables, run, history
<1>1. waits \in [Runner -> 0 .. MaxWaits]
  BY DEF JInv, TypeOK
<1>2. CASE Start(r)
  <2>1. CASE jobs[target[r]].status = "CANCELLED"
    BY <1>0, <1>a, <1>1, <1>2, <2>1 DEF Start
  <2>2. CASE jobs[target[r]].status # "CANCELLED"
    BY <1>0, <1>a, <1>1, <1>2, <2>2 DEF Start
  <2> QED BY <2>1, <2>2
<1>3. CASE Collected(r) \/ Located(r)
  BY <1>0, <1>a, <1>1, <1>3 DEF Collected, Located
<1>4. CASE Poll(r)
  <2>1. waits' \in [Runner -> 0 .. MaxWaits]
    BY <1>1, <1>4, JobsAssumption DEF Poll
  <2> QED BY <1>0, <1>a, <1>4, <2>1 DEF Poll
<1>5. CASE Resume(r)
  BY <1>0, <1>a, <1>1, <1>5 DEF Resume
<1>6. CASE Raise(r) \/ Die(r)
  BY <1>1, <1>6 DEF Raise, Die, Guarded
<1>7. CASE Handle(r)
  BY <1>0, <1>a, <1>1, <1>7 DEF Handle
<1> QED BY <1>2, <1>3, <1>4, <1>5, <1>6, <1>7

LEMMA AdvanceKeeps ==
  ASSUME JInv, NEW r \in Runner, NEW s \in Stage, Advance(r, s)
  PROVE  JInv'
<1> USE DEF Advance
<1>1. /\ TypeOK /\ IsFiniteSet(results) /\ VersionedResults
      /\ Staged /\ Targeted /\ RowsSound /\ Requeueing /\ Exclusive /\ Served
  BY DEF JInv
<1>2. r \in Actor /\ r \notin Cancel /\ Cancel \subseteq Actor /\ Runner \subseteq Actor
  BY JobsAssumption DEF Actor, Runner
<1>3. stage \in [Actor -> Stage] /\ stage' \in [Actor -> Stage] /\ stage'[r] = s
      /\ \A x \in Actor \ {r} : stage'[x] = stage[x]
  BY <1>1, <1>2 DEF TypeOK
<1>4. /\ row' \in [Actor -> Row \cup {NoRow}] /\ row'[r] = NoRow
      /\ \A x \in Actor \ {r} : row'[x] = row[x]
  BY <1>1, <1>2 DEF TypeOK
<1>5. TypeOK'
  BY <1>1, <1>3, <1>4 DEF TypeOK
<1>6. IsFiniteSet(results)' /\ VersionedResults'
  BY <1>1, TablesKept
<1>7. Staged'
  BY <1>1, <1>2, <1>3, <1>4 DEF Staged, Runner
<1>8. Targeted'
  BY <1>1, <1>2, <1>3 DEF Targeted, Actor, Runner
<1>9. RowsSound'
  BY <1>1, <1>2, <1>3, <1>4, TablesKept DEF RowsSound
<1>10. Requeueing'
  BY <1>1, <1>2, <1>3, JobsAssumption DEF Requeueing
<1>11. Live(r) /\ \A x \in Runner : Live(x)' => Live(x)
  BY <1>2, <1>3 DEF Live, Updating
<1>12. Exclusive'
  BY <1>1, <1>2, <1>4, <1>11 DEF Exclusive
<1>13. Served'
  <2>1. \A x \in Runner : Live(x) \/ stage[x] = "died" =>
          Live(x)' \/ stage'[x] = "died" \/ (x = r /\ s = "ended")
    BY <1>2, <1>3 DEF Live
  <2> QED BY <1>1, <2>1 DEF Served, Reads, Active
<1> QED BY <1>5, <1>6, <1>7, <1>8, <1>9, <1>10, <1>12, <1>13 DEF JInv

\* The row that is fetched is as sound as the stored one.
LEMMA FetchKeeps ==
  ASSUME JInv, NEW x \in Actor, Fetch(x)
  PROVE  JInv'
<1> USE DEF tables, run, history
<1>1. /\ TypeOK /\ IsFiniteSet(results) /\ VersionedResults
      /\ Staged /\ Targeted /\ RowsSound /\ Requeueing /\ Exclusive /\ Served
  BY DEF JInv
<1>2. /\ stage[x] \in Updating /\ row' = [row EXCEPT ![x] = jobs[target[x]]]
      /\ UNCHANGED <<jobs, results, stage, target, made, waits, loop, restarts, accepted, touched>>
  BY DEF Fetch
<1>3. target[x] \in Job /\ jobs[target[x]] # NoRow /\ Runner \subseteq Actor
  BY <1>1, <1>2 DEF Targeted, Updating, Reporting, Actor
<1>4. TypeOK'
  BY <1>1, <1>2, <1>3 DEF TypeOK
<1>5. /\ IsFiniteSet(results)' /\ VersionedResults'
      /\ Targeted' /\ Requeueing' /\ Served' /\ \A y \in Runner : Live(y)' = Live(y)
  BY <1>1, <1>2, TablesKept DEF Targeted, Requeueing, Served, Reads, Live
<1>6. Staged' /\ RowsSound' /\ Exclusive'
  BY <1>1, <1>2, <1>3, <1>5, TablesKept DEF TypeOK, Staged, RowsSound, Exclusive
<1> QED BY <1>4, <1>5, <1>6 DEF JInv

LEMMA SubmitKeeps ==
  ASSUME JInv, NEW j \in Job, Submit(j)
  PROVE  JInv'
<1> USE DEF tables, run, history
<1>1. /\ TypeOK /\ IsFiniteSet(results) /\ VersionedResults
      /\ Staged /\ Targeted /\ RowsSound /\ Requeueing /\ Exclusive /\ Served
  BY DEF JInv
<1> DEFINE new == [status |-> "QUEUED", result |-> NoResult, flag |-> FALSE]
<1>2. /\ stage[j] = "idle" /\ loop = Idle
      /\ jobs' = [jobs EXCEPT ![j] = new] /\ stage' = [stage EXCEPT ![j] = "created"]
      /\ UNCHANGED <<results, target, row, made, waits, loop, restarts, accepted, touched>>
  BY DEF Submit
<1>3. /\ new \in Row /\ new # NoRow /\ new.status \in Active /\ new.status # "COMPLETED"
  <2>1. new \in Row
    BY DEF Row, Active
  <2> QED BY <2>1, JobsAssumption DEF Active
<1> HIDE DEF new
<1>4. /\ j \in Runner /\ j \in Actor /\ j \notin Cancel /\ Runner \subseteq Actor
      /\ Cancel \subseteq Actor /\ Job \subseteq Actor
  BY JobsAssumption DEF Actor, Runner
<1>5. /\ target[j] = j /\ jobs[j] = NoRow /\ row[j] = NoRow
      /\ \A x \in Actor : stage[x] # "idle" => target[x] # j
  <2>1. row[j] = NoRow
    BY <1>1, <1>2, <1>4 DEF Staged, Updating, Reporting
  <2>2. jobs[j] = NoRow
    BY <1>1, <1>2 DEF Targeted
  <2> QED BY <1>1, <2>1, <2>2 DEF Targeted
<1>6. /\ stage' \in [Actor -> Stage] /\ stage'[j] = "created"
      /\ \A x \in Actor \ {j} : stage'[x] = stage[x]
  BY <1>1, <1>2, <1>4 DEF TypeOK, Stage, Waiting
<1>7. /\ jobs' \in [Job -> Row \cup {NoRow}] /\ jobs'[j] = new
      /\ \A k \in Job \ {j} : jobs'[k] = jobs[k]
  BY <1>1, <1>2, <1>3 DEF TypeOK
<1>8. TypeOK'
  BY <1>1, <1>2, <1>6, <1>7 DEF TypeOK
<1>9. IsFiniteSet(results)' /\ VersionedResults'
  BY <1>1, <1>2, TablesKept
<1>10. Staged' /\ Targeted'
  <2>1. Staged'
    BY <1>1, <1>2, <1>4, <1>5, <1>6 DEF Staged, RunnerStages, Stage, Waiting
  <2>2. Targeted'
    BY <1>1, <1>2, <1>3, <1>4, <1>5, <1>6, <1>7 DEF Targeted
  <2> QED BY <2>1, <2>2
<1>11. RowsSound'
  BY <1>1, <1>2, <1>3, <1>4, <1>6, <1>7, TablesKept DEF RowsSound, Sound
<1>12. Requeueing'
  BY <1>1, <1>2, <1>4, <1>5, <1>6, <1>7, JobsAssumption DEF Requeueing
<1>13. Live(j)' /\ ~Live(j) /\ \A x \in Runner \ {j} : Live(x)' = Live(x)
  BY <1>2, <1>4, <1>6 DEF Live
<1>14. \A x \in Runner : Live(x) => target[x] \in Job \ {j}
  BY <1>1, <1>4, <1>5 DEF Live, Targeted
<1>15. Exclusive'
  BY <1>1, <1>2, <1>3, <1>4, <1>5, <1>7, <1>13, <1>14 DEF Exclusive
<1>16. Served'
  BY <1>1, <1>2, <1>4, <1>5, <1>7, <1>13 DEF Served, Reads
<1> QED BY <1>8, <1>9, <1>10, <1>11, <1>12, <1>15, <1>16 DEF JInv

\* A retry is let in only where no coroutine is left, unless a cancel wrote the row.
LEMMA BeginRetryKeeps ==
  ASSUME JInv, NEW q \in Retry, NEW j \in Job, BeginRetry(q, j)
  PROVE  JInv'
<1> USE DEF tables, run, history
<1>1. /\ TypeOK /\ IsFiniteSet(results) /\ VersionedResults
      /\ Staged /\ Targeted /\ RowsSound /\ Requeueing /\ Exclusive /\ Served
  BY DEF JInv
<1>2. /\ stage[q] = "idle" /\ loop = Idle /\ jobs[j] # NoRow /\ jobs[j].status \notin Active
      /\ target' = [target EXCEPT ![q] = j] /\ stage' = [stage EXCEPT ![q] = "requeueing"]
      /\ loop' = q
      /\ UNCHANGED <<jobs, results, row, made, waits, restarts, accepted, touched>>
  BY DEF BeginRetry
<1>3. /\ q \in Runner /\ q \in Actor /\ q \notin Cancel /\ q \notin Job /\ q # Idle
      /\ Runner \subseteq Actor /\ Cancel \subseteq Actor /\ Job \subseteq Actor
  BY JobsAssumption DEF Actor, Runner
<1>4. row[q] = NoRow
  BY <1>1, <1>2, <1>3 DEF Staged, Updating, Reporting
<1>5. /\ stage' \in [Actor -> Stage] /\ stage'[q] = "requeueing"
      /\ \A x \in Actor \ {q} : stage'[x] = stage[x]
      /\ target' \in [Actor -> Job \cup {NoJob}] /\ target'[q] = j
      /\ \A x \in Actor \ {q} : target'[x] = target[x]
  BY <1>1, <1>2, <1>3 DEF TypeOK, Stage, Updating
<1>6. TypeOK'
  BY <1>1, <1>2, <1>3, <1>5 DEF TypeOK
<1>7. IsFiniteSet(results)' /\ VersionedResults'
  BY <1>1, <1>2, TablesKept
<1>8. Staged' /\ Targeted'
  <2>1. Staged'
    BY <1>1, <1>2, <1>3, <1>4, <1>5 DEF Staged, RunnerStages, Stage, Updating
  <2>2. Targeted'
    BY <1>1, <1>2, <1>3, <1>5 DEF Targeted
  <2> QED BY <2>1, <2>2
<1>9. RowsSound'
  BY <1>1, <1>2, <1>3, <1>4, <1>5, TablesKept DEF RowsSound
<1>10. Requeueing'
  BY <1>1, <1>2, <1>3, <1>5, JobsAssumption DEF Requeueing
<1>11. ~Live(q)' /\ ~Live(q) /\ \A x \in Runner \ {q} : Live(x)' = Live(x)
  BY <1>2, <1>3, <1>5 DEF Live
<1>12. Exclusive' /\ Served'
  BY <1>1, <1>2, <1>3, <1>5, <1>11 DEF Exclusive, Served, Reads
<1> QED BY <1>6, <1>7, <1>8, <1>9, <1>10, <1>12 DEF JInv

LEMMA BeginCancelKeeps ==
  ASSUME JInv, NEW c \in Cancel, NEW j \in Job, BeginCancel(c, j)
  PROVE  JInv'
<1> USE DEF tables, run, history
<1>1. /\ TypeOK /\ IsFiniteSet(results) /\ VersionedResults
      /\ Staged /\ Targeted /\ RowsSound /\ Requeueing /\ Exclusive /\ Served
  BY DEF JInv
<1> DEFINE s == IF jobs[j].status = "QUEUED" THEN "cancelling queued" ELSE "cancelling"
<1>2. /\ stage[c] = "idle" /\ jobs[j] # NoRow
      /\ target' = [target EXCEPT ![c] = j] /\ stage' = [stage EXCEPT ![c] = s]
      /\ UNCHANGED <<jobs, results, row, made, waits, loop, restarts, accepted, touched>>
  BY DEF BeginCancel
<1>3. s \in CancelStages \ {"idle"} /\ s \in Stage /\ s \in Updating
  BY DEF CancelStages, Stage, Updating
<1> HIDE DEF s
<1>4. /\ c \notin Runner /\ c \in Actor /\ c \notin Job
      /\ Runner \subseteq Actor /\ Cancel \subseteq Actor /\ Job \subseteq Actor
  BY JobsAssumption DEF Actor, Runner
<1>5. row[c] = NoRow
  BY <1>1, <1>2, <1>4 DEF Staged, Updating, Reporting
<1>6. /\ stage' \in [Actor -> Stage] /\ stage'[c] = s
      /\ \A x \in Actor \ {c} : stage'[x] = stage[x]
      /\ target' \in [Actor -> Job \cup {NoJob}] /\ target'[c] = j
      /\ \A x \in Actor \ {c} : target'[x] = target[x]
  BY <1>1, <1>2, <1>3, <1>4 DEF TypeOK
<1>7. TypeOK'
  BY <1>1, <1>2, <1>6 DEF TypeOK
<1>8. IsFiniteSet(results)' /\ VersionedResults'
  BY <1>1, <1>2, TablesKept
<1>9. Staged' /\ Targeted'
  BY <1>1, <1>2, <1>3, <1>4, <1>5, <1>6 DEF Staged, Targeted
<1>10. RowsSound'
  BY <1>1, <1>2, <1>4, <1>5, <1>6, TablesKept DEF RowsSound
<1>11. \A x \in Runner : Live(x)' = Live(x) /\ stage'[x] = stage[x] /\ target'[x] = target[x]
  BY <1>4, <1>6 DEF Live
<1>12. Requeueing' /\ Exclusive' /\ Served'
  BY <1>1, <1>2, <1>11 DEF Requeueing, Exclusive, Served, Reads
<1> QED BY <1>7, <1>8, <1>9, <1>10, <1>12 DEF JInv

\* Every row that is written is as sound as the one fetched, however stale that was.
LEMMA ChangedRow ==
  ASSUME JInv, NEW x \in Actor, row[x] # NoRow
  PROVE  /\ target[x] \in Job /\ Changed(x) \in Row /\ Sound(Changed(x), target[x])
         /\ stage[x] \in Reporting /\ row[x].status \in Active => Changed(x).status \in Active
         /\ stage[x] = "starting" => Changed(x).status \in Active
         /\ stage[x] \in {"completing", "aborting", "failing"} => Changed(x).status \notin Active
<1> DEFINE old == row[x]
<1>1. TypeOK /\ Staged /\ Targeted /\ RowsSound
  BY DEF JInv
<1>2. stage[x] \in Updating /\ old \in Row /\ Sound(old, target[x])
  BY <1>1 DEF TypeOK, Staged, RowsSound
<1>3. target[x] \in Job
  BY <1>1, <1>2 DEF Targeted, Updating, Reporting
<1>4. CASE stage[x] = "completing"
  <2>1. x \in Runner
    BY <1>1, <1>4 DEF Staged, CancelStages, Actor
  <2>2. made[x] \in ResultsOf(CaseOf[target[x]]) /\ made[x] \in Result
    BY <1>1, <1>4, <2>1 DEF RowsSound, ResultsOf, TypeOK
  <2>3. Changed(x) = [old EXCEPT !.status = "COMPLETED", !.result = made[x]]
    BY <1>4 DEF Changed, Reporting
  <2> QED BY <1>2, <1>3, <1>4, <2>2, <2>3 DEF Row, Active, Final, Sound, Reporting
<1>5. CASE stage[x] \in Reporting
  <2>1. Changed(x) = old
    BY <1>5 DEF Changed, Reporting
  <2> QED BY <1>2, <1>3, <1>5, <2>1 DEF Reporting
<1>6. CASE stage[x] = "requeueing"
  <2>1. Changed(x) = [status |-> "QUEUED", result |-> NoResult, flag |-> FALSE]
    BY <1>6 DEF Changed, Reporting
  <2>2. Changed(x) \in Row
    BY <2>1 DEF Row, Active
  <2> QED BY <1>2, <1>3, <1>6, <2>1, <2>2 DEF Sound, Reporting
<1>7. CASE stage[x] = "cancelling"
  <2>1. Changed(x) = [old EXCEPT !.flag = TRUE]
    BY <1>7 DEF Changed, Reporting
  <2>2. Changed(x) \in Row /\ Changed(x).status = old.status /\ Changed(x).result = old.result
    BY <1>2, <2>1 DEF Row
  <2> QED BY <1>2, <1>3, <1>7, <2>2 DEF Sound, Reporting
<1>8. CASE stage[x] = "cancelling queued"
  <2>1. Changed(x) = [old EXCEPT !.flag = TRUE, !.status = "CANCELLED"]
    BY <1>8 DEF Changed, Reporting
  <2>2. Changed(x) \in Row /\ Changed(x).status = "CANCELLED"
    BY <1>2, <2>1 DEF Row, Final
  <2> QED BY <1>2, <1>3, <1>8, <2>2 DEF Sound, Reporting
<1>9. CASE stage[x] \in {"starting", "aborting", "failing"}
  <2>1. Changed(x) = [old EXCEPT !.status =
          IF stage[x] = "starting" THEN "RUNNING"
          ELSE IF stage[x] = "aborting" THEN "CANCELLED" ELSE "FAILED"]
    BY <1>9 DEF Changed, Reporting
  <2> QED BY <1>2, <1>3, <1>9, <2>1 DEF Row, Active, Final, Sound, Reporting
<1> QED BY <1>2, <1>4, <1>5, <1>6, <1>7, <1>8, <1>9 DEF Updating

\* What any write of a row keeps, whoever writes it.
LEMMA StoreKeeps ==
  ASSUME JInv, NEW x \in Actor, Store(x), NEW s \in Stage \ {"idle", "completing", "requeueing"},
         stage' = [stage EXCEPT ![x] = s],
         x \in Cancel => s \in CancelStages, x \in Runner => s \in RunnerStages,
         loop' \in Runner \cup {Idle}, accepted' \subseteq Job, touched' \subseteq Job
  PROVE  /\ TypeOK' /\ IsFiniteSet(results)' /\ VersionedResults'
         /\ Staged' /\ Targeted' /\ RowsSound'
         /\ stage'[x] = s /\ \A y \in Actor \ {x} : stage'[y] = stage[y]
         /\ row'[x] = NoRow /\ \A y \in Actor \ {x} : row'[y] = row[y]
         /\ target' = target /\ restarts' = restarts
         /\ jobs'[target[x]] = Changed(x)
         /\ \A j \in Job \ {target[x]} : jobs'[j] = jobs[j]
<1>1. /\ TypeOK /\ IsFiniteSet(results) /\ VersionedResults /\ Staged /\ Targeted /\ RowsSound
  BY DEF JInv
<1>2. /\ row[x] # NoRow
      /\ jobs' = [jobs EXCEPT ![target[x]] = Changed(x)] /\ row' = [row EXCEPT ![x] = NoRow]
      /\ UNCHANGED <<results, target, made, waits, restarts>>
  BY DEF Store, run
<1>3. /\ target[x] \in Job /\ Changed(x) \in Row /\ Sound(Changed(x), target[x])
      /\ Changed(x) # NoRow
  BY <1>2, ChangedRow, JobsAssumption
<1> HIDE DEF Changed
<1>4. /\ Runner \subseteq Actor /\ Cancel \subseteq Actor /\ Job \subseteq Actor
      /\ Actor = Runner \cup Cancel /\ Job \subseteq Runner
  BY DEF Actor, Runner
<1>5. /\ stage' \in [Actor -> Stage] /\ stage'[x] = s
      /\ \A y \in Actor \ {x} : stage'[y] = stage[y]
  BY <1>1 DEF TypeOK
<1>6. /\ jobs' \in [Job -> Row \cup {NoRow}] /\ jobs'[target[x]] = Changed(x)
      /\ \A j \in Job \ {target[x]} : jobs'[j] = jobs[j]
  BY <1>1, <1>2, <1>3 DEF TypeOK
<1>7. /\ row' \in [Actor -> Row \cup {NoRow}] /\ row'[x] = NoRow
      /\ \A y \in Actor \ {x} : row'[y] = row[y]
  BY <1>1, <1>2 DEF TypeOK
<1>8. TypeOK'
  BY <1>1, <1>2, <1>5, <1>6, <1>7 DEF TypeOK
<1>9. IsFiniteSet(results)' /\ VersionedResults'
  BY <1>1, <1>2, TablesKept
<1>10. Staged'
  BY <1>1, <1>4, <1>5, <1>7 DEF Staged
<1>11. stage[x] # "idle"
  BY <1>1, <1>2 DEF Staged, Updating, Reporting
<1>12. \A j \in Job : jobs[j] # NoRow => jobs'[j] # NoRow
  BY <1>3, <1>6
<1>13. Targeted'
  <2>1. \A y \in Actor : stage'[y] # "idle" => target'[y] \in Job /\ jobs'[target'[y]] # NoRow
    BY <1>1, <1>2, <1>5, <1>11, <1>12 DEF Targeted
  <2>2. \A j \in Job : target'[j] = j /\ (stage'[j] = "idle" => jobs'[j] = NoRow)
    <3>1. \A j \in Job : stage'[j] = "idle" => jobs[j] = NoRow /\ target[j] = j
      BY <1>1, <1>4, <1>5 DEF Targeted
    <3>2. jobs[target[x]] # NoRow
      BY <1>1, <1>11 DEF Targeted
    <3> QED BY <1>1, <1>2, <1>6, <3>1, <3>2 DEF Targeted
  <2> QED BY <2>1, <2>2 DEF Targeted
<1>14. RowsSound'
  BY <1>1, <1>2, <1>3, <1>4, <1>5, <1>6, <1>7, TablesKept DEF RowsSound
<1> QED BY <1>2, <1>5, <1>6, <1>7, <1>8, <1>9, <1>10, <1>13, <1>14

\* A coroutine that ends leaves its job at rest; one that goes on leaves it active.
LEMMA UpdateRowKeeps ==
  ASSUME JInv, NEW r \in Runner, UpdateRow(r)
  PROVE  JInv'
<1> DEFINE s == AfterUpdate(stage[r])
<1>1. TypeOK /\ Staged /\ Targeted /\ Requeueing /\ Exclusive /\ Served
  BY DEF JInv
<1>2. /\ stage[r] \in Updating \ {"requeueing"} /\ loop \in {Idle, r} /\ Store(r)
      /\ stage' = [stage EXCEPT ![r] = s] /\ loop' \in {Idle, r}
      /\ accepted' = accepted /\ touched' = touched
  BY DEF UpdateRow, Turn, Goto, history
<1>3. /\ r \in Actor /\ r \notin Cancel /\ Runner \subseteq Actor
      /\ stage[r] \in Reporting \cup {"starting", "completing", "aborting", "failing"}
  BY <1>1, <1>2, JobsAssumption DEF Actor, Runner, Staged, RunnerStages, Updating
<1>4. /\ s \in Stage \ {"idle", "completing", "requeueing"} /\ s \in RunnerStages /\ s # "died"
      /\ s = "ended" <=> stage[r] \in {"completing", "aborting", "failing"}
  BY <1>3 DEF AfterUpdate, Stage, RunnerStages, Updating, Reporting, Waiting
<1> HIDE DEF s
<1>5. /\ TypeOK' /\ IsFiniteSet(results)' /\ VersionedResults'
      /\ Staged' /\ Targeted' /\ RowsSound'
      /\ stage'[r] = s /\ \A y \in Actor \ {r} : stage'[y] = stage[y]
      /\ row'[r] = NoRow /\ \A y \in Actor \ {r} : row'[y] = row[y]
      /\ target' = target /\ restarts' = restarts
      /\ jobs'[target[r]] = Changed(r)
      /\ \A j \in Job \ {target[r]} : jobs'[j] = jobs[j]
  BY <1>1, <1>2, <1>3, <1>4, StoreKeeps DEF TypeOK
<1>6. /\ row[r] # NoRow /\ target[r] \in Job
      /\ row[r].status \in Active /\ s # "ended" => Changed(r).status \in Active
      /\ s = "ended" => Changed(r).status \notin Active
  BY <1>2, <1>3, <1>4, ChangedRow DEF Store
<1> HIDE DEF Changed, Active
<1>7. /\ Live(r) /\ Live(r)' = (s # "ended")
      /\ \A x \in Runner \ {r} : Live(x)' = Live(x)
  BY <1>3, <1>4, <1>5 DEF Live, Updating, Reporting
<1>8. \A x \in Runner : Live(x) => target[x] \in Job
  BY <1>1, <1>3 DEF Live, Targeted
<1>9. Requeueing'
  BY <1>1, <1>2, <1>3, <1>4, <1>5, JobsAssumption DEF Requeueing
<1>10. Exclusive'
  BY <1>1, <1>2, <1>3, <1>5, <1>6, <1>7, <1>8 DEF Exclusive
<1>11. Served'
  <2> SUFFICES ASSUME NEW j \in Job \ touched, restarts = 0, Reads(j, Active)'
               PROVE  \E x \in Runner : target[x] = j /\ (Live(x)' \/ stage'[x] = "died")
    BY <1>2, <1>5 DEF Served
  <2>1. CASE j = target[r]
    BY <1>5, <1>6, <1>7, <2>1 DEF Reads
  <2>2. CASE j # target[r]
    <3>1. Reads(j, Active)
      BY <1>5, <2>2 DEF Reads
    <3>2. restarts = 0 /\ j \in Job \ touched
      BY <1>2, <1>5
    <3>3. PICK x \in Runner : target[x] = j /\ (Live(x) \/ stage[x] = "died")
      BY <1>1, <3>1, <3>2 DEF Served
    <3>4. x \in Runner \ {r} /\ stage'[x] = stage[x]
      BY <1>3, <1>5, <2>2, <3>3
    <3> QED BY <1>7, <3>3, <3>4
  <2> QED BY <2>1, <2>2
<1> QED BY <1>5, <1>9, <1>10, <1>11 DEF JInv

LEMMA RequeueKeeps ==
  ASSUME JInv, NEW q \in Retry, Requeue(q)
  PROVE  JInv'
<1>1. TypeOK /\ Staged /\ Targeted /\ Requeueing /\ Exclusive /\ Served
  BY DEF JInv
<1>2. /\ stage[q] = "requeueing" /\ loop = q /\ Store(q)
      /\ stage' = [stage EXCEPT ![q] = "created"] /\ loop' = Idle
      /\ accepted' = accepted \ {target[q]} /\ touched' = touched
  BY DEF Requeue, Goto, Waiting
<1>3. /\ q \in Runner /\ q \in Actor /\ q \notin Cancel /\ Runner \subseteq Actor
  BY JobsAssumption DEF Actor, Runner
<1>4. "created" \in Stage \ {"idle", "completing", "requeueing"} /\ "created" \in RunnerStages
  BY DEF Stage, RunnerStages, Waiting
<1>5. /\ TypeOK' /\ IsFiniteSet(results)' /\ VersionedResults'
      /\ Staged' /\ Targeted' /\ RowsSound'
      /\ stage'[q] = "created" /\ \A y \in Actor \ {q} : stage'[y] = stage[y]
      /\ row'[q] = NoRow /\ \A y \in Actor \ {q} : row'[y] = row[y]
      /\ target' = target /\ restarts' = restarts
      /\ jobs'[target[q]] = Changed(q)
      /\ \A j \in Job \ {target[q]} : jobs'[j] = jobs[j]
  BY <1>1, <1>2, <1>3, <1>4, StoreKeeps DEF TypeOK
<1>6. Changed(q).status \in Active /\ target[q] \in Job
  <2>1. Changed(q) = [status |-> "QUEUED", result |-> NoResult, flag |-> FALSE]
    BY <1>2 DEF Changed, Reporting
  <2> QED BY <1>1, <1>2, <1>3, <2>1 DEF Active, Targeted
<1> HIDE DEF Changed
<1>7. ~Live(q) /\ Live(q)' /\ \A x \in Runner \ {q} : Live(x)' = Live(x)
  BY <1>2, <1>3, <1>5 DEF Live
<1>8. \A x \in Runner : Live(x) => target[x] \in Job /\ (target[x] = target[q] => target[q] \in touched)
  BY <1>1, <1>2, <1>3 DEF Live, Targeted, Requeueing, Exclusive
<1>9. Requeueing'
  BY <1>1, <1>2, <1>3, <1>5 DEF Requeueing
<1>10. Exclusive'
  BY <1>1, <1>2, <1>3, <1>5, <1>6, <1>7, <1>8 DEF Exclusive
<1>11. Served'
  BY <1>1, <1>2, <1>3, <1>5, <1>6, <1>7 DEF Served, Reads
<1> QED BY <1>5, <1>9, <1>10, <1>11 DEF JInv

\* A cancel request writes back whatever it fetched: from then on its job is touched.
LEMMA WriteCancelKeeps ==
  ASSUME JInv, NEW c \in Cancel, WriteCancel(c)
  PROVE  JInv'
<1>1. TypeOK /\ Staged /\ Targeted /\ Requeueing /\ Exclusive /\ Served
  BY DEF JInv
<1>2. /\ Store(c) /\ stage' = [stage EXCEPT ![c] = "ended"] /\ loop' = loop
      /\ accepted' = accepted \cup {target[c]} /\ touched' = touched \cup {target[c]}
  BY DEF WriteCancel
<1>3. /\ c \notin Runner /\ c \in Actor /\ Runner \subseteq Actor
  BY JobsAssumption DEF Actor, Runner
<1>4. "ended" \in Stage \ {"idle", "completing", "requeueing"} /\ "ended" \in CancelStages
  BY DEF Stage, CancelStages
<1>5. target[c] \in Job
  BY <1>2, <1>3, ChangedRow DEF Store
<1>6. /\ TypeOK' /\ IsFiniteSet(results)' /\ VersionedResults'
      /\ Staged' /\ Targeted' /\ RowsSound'
      /\ stage'[c] = "ended" /\ \A y \in Actor \ {c} : stage'[y] = stage[y]
      /\ row'[c] = NoRow /\ \A y \in Actor \ {c} : row'[y] = row[y]
      /\ target' = target /\ restarts' = restarts
      /\ jobs'[target[c]] = Changed(c)
      /\ \A j \in Job \ {target[c]} : jobs'[j] = jobs[j]
  BY <1>1, <1>2, <1>3, <1>4, <1>5, StoreKeeps DEF TypeOK
<1> HIDE DEF Changed
<1>7. \A x \in Runner : Live(x)' = Live(x) /\ stage'[x] = stage[x] /\ row'[x] = row[x]
  BY <1>3, <1>6 DEF Live
<1>8. \A x \in Runner : stage[x] # "idle" => target[x] \in Job
  BY <1>1, <1>3 DEF Targeted
<1>9. Requeueing'
  BY <1>1, <1>2, <1>6, <1>7, <1>8 DEF Requeueing
<1>10. Exclusive'
  BY <1>1, <1>2, <1>6, <1>7, <1>8 DEF Exclusive, Live
<1>11. Served'
  BY <1>1, <1>2, <1>6, <1>7 DEF Served, Reads
<1> QED BY <1>6, <1>9, <1>10, <1>11 DEF JInv

\* A request that is refused leaves its job as it was.
LEMMA RefusedKeeps ==
  ASSUME JInv, NEW x \in Retry \cup Cancel, Refused(x)
  PROVE  JInv'
<1> USE DEF tables, run, history
<1>1. /\ TypeOK /\ IsFiniteSet(results) /\ VersionedResults
      /\ Staged /\ Targeted /\ RowsSound /\ Requeueing /\ Exclusive /\ Served
  BY DEF JInv
<1>2. /\ stage[x] \in {"requeueing", "cancelling", "cancelling queued"}
      /\ stage' = [stage EXCEPT ![x] = "ended"] /\ row' = [row EXCEPT ![x] = NoRow]
      /\ loop' = IF x \in Retry THEN Idle ELSE loop
      /\ UNCHANGED <<jobs, results, target, made, waits, restarts, accepted, touched>>
  BY DEF Refused
<1>3. /\ x \in Actor /\ x \notin Job /\ (x \in Retry => x \in Runner) /\ (x \in Cancel => x \notin Runner)
      /\ Runner \subseteq Actor /\ Cancel \subseteq Actor /\ Job \subseteq Actor
  BY JobsAssumption DEF Actor, Runner
<1>4. /\ stage' \in [Actor -> Stage] /\ stage'[x] = "ended"
      /\ \A y \in Actor \ {x} : stage'[y] = stage[y]
      /\ row' \in [Actor -> Row \cup {NoRow}] /\ row'[x] = NoRow
      /\ \A y \in Actor \ {x} : row'[y] = row[y]
  BY <1>1, <1>2, <1>3 DEF TypeOK, Stage
<1>5. TypeOK'
  BY <1>1, <1>2, <1>4 DEF TypeOK
<1>6. IsFiniteSet(results)' /\ VersionedResults'
  BY <1>1, <1>2, TablesKept
<1>7. Staged'
  BY <1>1, <1>3, <1>4 DEF Staged, CancelStages, RunnerStages, Stage
<1>8. Targeted'
  BY <1>1, <1>2, <1>3, <1>4 DEF Targeted
<1>9. RowsSound'
  <2>1. \A rw, j : Sound(rw, j)' = Sound(rw, j)
    BY <1>2, TablesKept
  <2>2. \A k \in Job : jobs'[k] # NoRow => Sound(jobs[k], k)'
    BY <1>1, <1>2, <2>1 DEF RowsSound
  <2>3. \A y \in Actor : row'[y] # NoRow => Sound(row[y], target[y])' /\ row'[y] = row[y]
    BY <1>1, <1>2, <1>4, <2>1 DEF RowsSound
  <2>4. \A y \in Runner : stage'[y] = "completing" => made[y] \in ResultsOf(CaseOf[target[y]])'
    <3>1. \A y \in Runner : stage'[y] = "completing" => stage[y] = "completing"
      BY <1>3, <1>4
    <3>2. \A c : ResultsOf(c)' = ResultsOf(c)
      BY <1>2, TablesKept
    <3>3. \A y \in Runner : stage[y] = "completing" => made[y] \in ResultsOf(CaseOf[target[y]])
      BY <1>1 DEF RowsSound
    <3> HIDE DEF ResultsOf
    <3> QED BY <1>2, <3>1, <3>2, <3>3
  <2> QED BY <1>2, <2>2, <2>3, <2>4 DEF RowsSound
<1>10. \A y \in Runner : (Live(y)' <=> Live(y)) /\ (stage[y] = "died" => stage'[y] = "died")
  <2>1. x \in Runner => stage[x] = "requeueing"
    BY <1>1, <1>2 DEF Staged, RunnerStages
  <2> QED BY <1>3, <1>4, <2>1 DEF Live
<1>11. Requeueing'
  <2> SUFFICES ASSUME NEW q \in Runner, stage'[q] = "requeueing"
               PROVE  loop' = q /\ (target[q] \notin touched => jobs[target[q]].status \notin Active)
    BY <1>2 DEF Requeueing
  <2>1. q # x /\ stage[q] = "requeueing"
    BY <1>3, <1>4
  <2>2. loop = q /\ (target[q] \notin touched => jobs[target[q]].status \notin Active)
    BY <1>1, <2>1 DEF Requeueing
  <2>3. x \notin Retry
    <3>1. x \in Retry => stage[x] = "requeueing"
      BY <1>1, <1>2, <1>3 DEF Staged, RunnerStages
    <3> QED BY <1>1, <1>3, <2>1, <2>2, <3>1 DEF Requeueing
  <2> QED BY <1>2, <2>2, <2>3
<1>12. Exclusive'
  <2>1. \A y \in Runner : row'[y] # NoRow => row'[y] = row[y]
    BY <1>3, <1>4
  <2> QED BY <1>1, <1>2, <1>10, <2>1 DEF Exclusive
<1>13. Served'
  BY <1>1, <1>2, <1>10 DEF Served, Reads
<1> QED BY <1>5, <1>6, <1>7, <1>8, <1>9, <1>11, <1>12, <1>13 DEF JInv

LEMMA SaveResultKeeps ==
  ASSUME JInv, NEW r \in Runner, NEW print \in Fingerprint, SaveResult(r, print)
  PROVE  JInv'
<1>1. /\ TypeOK /\ IsFiniteSet(results) /\ VersionedResults
      /\ Staged /\ Targeted /\ RowsSound /\ Requeueing /\ Exclusive /\ Served
  BY DEF JInv
<1>2. target[r] \in Job /\ CaseOf[target[r]] \in Case
  <2>1. stage[r] # "idle" /\ r \in Actor
    BY DEF SaveResult, Actor
  <2> QED BY <1>1, <2>1, JobsAssumption DEF Targeted
<1>3. PICK c \in Case : c = CaseOf[target[r]]
  BY <1>2
<1> DEFINE new == [case |-> c, version |-> NextVersion(c), print |-> print]
<1>4. /\ stage[r] = "saving" /\ loop \in {Idle, r}
      /\ IF Existing(c, print) = {}
         THEN results' = results \cup {new} /\ made' = [made EXCEPT ![r] = new]
         ELSE /\ made' \in {[made EXCEPT ![r] = old] : old \in Existing(c, print)}
              /\ UNCHANGED results
      /\ stage' = [stage EXCEPT ![r] = "completing"] /\ loop' = r
      /\ UNCHANGED <<jobs, target, row, waits, restarts, accepted, touched>>
  BY <1>3 DEF SaveResult, Turn, Goto, Waiting, history
<1>5. /\ r \in Actor /\ r \notin Cancel /\ Runner \subseteq Actor /\ Cancel \subseteq Actor
      /\ Job \subseteq Actor
  BY JobsAssumption DEF Actor, Runner
<1>6. row[r] = NoRow
  BY <1>1, <1>4, <1>5 DEF Staged, Updating, Reporting
<1>7. \E m \in Result : /\ made' = [made EXCEPT ![r] = m] /\ m \in ResultsOf(c)'
                       /\ results \subseteq results' /\ results' \subseteq Result
                       /\ IsFiniteSet(results') /\ VersionedResults'
  <2>1. CASE Existing(c, print) = {}
    <3>1. new \in Result /\ new \in ResultsOf(c)' /\ results' \subseteq Result
          /\ IsFiniteSet(results') /\ VersionedResults'
      <4>1. results' = results \cup {new} /\ results \subseteq Result
        BY <1>1, <1>4, <2>1 DEF TypeOK
      <4> QED BY <1>1, <2>1, <4>1, VersionAdded
    <3> QED BY <1>4, <2>1, <3>1
  <2>2. CASE Existing(c, print) # {}
    <3>1. PICK old \in Existing(c, print) : made' = [made EXCEPT ![r] = old]
      BY <1>4, <2>2
    <3>2. results' = results
      BY <1>4, <2>2
    <3>3. old \in ResultsOf(c) /\ old \in Result
      BY <1>1 DEF Existing, ResultsOf, TypeOK
    <3> QED BY <1>1, <3>1, <3>2, <3>3, TablesKept DEF TypeOK
  <2> QED BY <2>1, <2>2
<1>8. PICK m \in Result : /\ made' = [made EXCEPT ![r] = m] /\ m \in ResultsOf(c)'
                        /\ results \subseteq results' /\ results' \subseteq Result
                        /\ IsFiniteSet(results') /\ VersionedResults'
  BY <1>7
<1>9. \A k : ResultsOf(k) \subseteq ResultsOf(k)'
  BY <1>8 DEF ResultsOf
<1>10. /\ stage' \in [Actor -> Stage] /\ stage'[r] = "completing"
      /\ \A x \in Actor \ {r} : stage'[x] = stage[x]
  BY <1>1, <1>4, <1>5 DEF TypeOK, Stage, Updating
<1> HIDE DEF new
<1>11. TypeOK'
  BY <1>1, <1>4, <1>8, <1>10 DEF TypeOK
<1>12. Staged' /\ Targeted'
  <2>1. Staged'
    BY <1>1, <1>4, <1>5, <1>6, <1>10 DEF Staged, RunnerStages, Stage, Updating
  <2>2. Targeted'
    BY <1>1, <1>4, <1>5, <1>10 DEF Targeted
  <2> QED BY <2>1, <2>2
<1>13. RowsSound'
  <2>1. \A rw, j : Sound(rw, j) => Sound(rw, j)'
    BY <1>9 DEF Sound
  <2>2. made'[r] = m /\ \A x \in Runner \ {r} : made'[x] = made[x]
    BY <1>1, <1>8 DEF TypeOK
  <2>3. \A j \in Job : jobs'[j] # NoRow => Sound(jobs[j], j)'
    BY <1>1, <1>4, <2>1 DEF RowsSound
  <2>4. \A x \in Actor : row'[x] # NoRow => Sound(row[x], target[x])'
    BY <1>1, <1>4, <2>1 DEF RowsSound
  <2>5. ASSUME NEW x \in Runner, stage'[x] = "completing"
        PROVE  made'[x] \in ResultsOf(CaseOf[target[x]])'
    BY <1>1, <1>4, <1>5, <1>8, <1>9, <1>10, <1>3, <2>2, <2>5 DEF RowsSound
  <2> QED BY <2>3, <2>4, <2>5 DEF RowsSound
<1>14. Live(r) /\ \A x \in Runner : Live(x)' = Live(x)
  BY <1>4, <1>5, <1>10 DEF Live
<1>15. Requeueing'
  BY <1>1, <1>4, <1>5, <1>10, JobsAssumption DEF Requeueing
<1>16. Exclusive' /\ Served'
  BY <1>1, <1>4, <1>14 DEF Exclusive, Served, Reads
<1> QED BY <1>8, <1>11, <1>12, <1>13, <1>15, <1>16 DEF JInv

LEMMA RestartKeeps ==
  ASSUME JInv, Restart
  PROVE  JInv'
<1>1. /\ TypeOK /\ IsFiniteSet(results) /\ VersionedResults
      /\ Staged /\ Targeted /\ RowsSound
  BY DEF JInv
<1>2. /\ restarts < MaxRestarts /\ restarts' = restarts + 1
      /\ stage' = [x \in Actor |-> IF stage[x] = "idle" THEN "idle" ELSE "ended"]
      /\ row' = [x \in Actor |-> NoRow] /\ loop' = Idle
      /\ UNCHANGED <<jobs, results, target, made, waits, accepted, touched>>
  BY DEF Restart, tables, run, history
<1>3. Runner \subseteq Actor /\ Cancel \subseteq Actor /\ Job \subseteq Runner
  BY DEF Actor, Runner
<1>4. restarts \in Nat /\ restarts' \in 0 .. MaxRestarts /\ restarts' > 0
  BY <1>1, <1>2, JobsAssumption DEF TypeOK
<1>5. TypeOK'
  BY <1>1, <1>2, <1>4 DEF TypeOK, Stage
<1>6. IsFiniteSet(results)' /\ VersionedResults'
  BY <1>1, <1>2, TablesKept
<1>7. Staged' /\ Targeted' /\ RowsSound'
  BY <1>1, <1>2, <1>3, TablesKept
  DEF Staged, Targeted, RowsSound, CancelStages, RunnerStages, Stage
<1>8. \A x \in Runner : ~Live(x)' /\ stage'[x] # "requeueing"
  BY <1>2, <1>3 DEF Live
<1>9. Requeueing' /\ Exclusive' /\ Served'
  BY <1>4, <1>8 DEF Requeueing, Exclusive, Served
<1> QED BY <1>5, <1>6, <1>7, <1>9 DEF JInv

LEMMA StutterKeeps ==
  ASSUME JInv, UNCHANGED vars
  PROVE  JInv'
<1> USE DEF vars, tables, run, history
<1>1. IsFiniteSet(results)' /\ VersionedResults' /\ \A x : Live(x)' = Live(x)
  BY TablesKept DEF JInv, Live
<1>2. TypeOK' /\ Staged' /\ Targeted' /\ RowsSound'
  BY TablesKept DEF JInv, TypeOK, Staged, Targeted, RowsSound
<1>3. Requeueing' /\ Exclusive' /\ Served'
  BY <1>1 DEF JInv, Requeueing, Exclusive, Served, Reads
<1> QED BY <1>1, <1>2, <1>3 DEF JInv

LEMMA JNext == JInv /\ [Next]_vars => JInv'
<1> SUFFICES ASSUME JInv, [Next]_vars
             PROVE  JInv'
  OBVIOUS
<1>1. ASSUME NEW r \in Runner, Run(r)
      PROVE  JInv'
  <2>1. CASE \/ Start(r) \/ Collected(r) \/ Located(r) \/ Poll(r) \/ Resume(r)
             \/ Raise(r) \/ Die(r) \/ Handle(r)
    BY <2>1, Advances, AdvanceKeeps
  <2>2. CASE FetchInTurn(r)
    BY <2>2, FetchKeeps DEF FetchInTurn, Actor
  <2>3. CASE UpdateRow(r)
    BY <2>3, UpdateRowKeeps
  <2>4. CASE \E print \in Fingerprint : SaveResult(r, print)
    BY <2>4, SaveResultKeeps
  <2> QED BY <1>1, <2>1, <2>2, <2>3, <2>4 DEF Run
<1>2. ASSUME NEW c \in Cancel, Fetch(c) \/ WriteCancel(c)
      PROVE  JInv'
  BY <1>2, FetchKeeps, WriteCancelKeeps DEF Actor
<1> QED BY <1>1, <1>2, SubmitKeeps, RequeueKeeps, BeginRetryKeeps, BeginCancelKeeps,
           RefusedKeeps, RestartKeeps, StutterKeeps DEF Next

LEMMA JobsInvariant == Spec => []JInv
BY JInit, JNext, PTL DEF Spec

-----------------------------------------------------------------------------
(* The properties *)

\* The rows, the results and the steps of every coroutine stay the ones the code knows, for
\* any number of jobs, requests, waits and restarts (jobs_v2.py, investigation_v2.py).
THEOREM JobsTyped == Spec => []TypeOK
BY JobsInvariant, PTL DEF JInv

\* A job that reads COMPLETED names a saved result of its own case, whichever stale row was
\* written over it (storage.py, update_v2_trace_job; results_v2.py, create).
THEOREM CompletionBacked == Spec => []CompletedHasResult
<1>1. JInv => CompletedHasResult
  BY DEF JInv, CompletedHasResult, RowsSound, Sound, Reads
<1> QED BY <1>1, JobsInvariant, PTL

\* The versions of a case's results are 1, 2, ... without a gap, and no evidence is saved
\* twice, however many runs of a case race (results_v2.py, create).
THEOREM ResultsVersioned == Spec => []VersionedResults
BY JobsInvariant, PTL DEF JInv

\* Unless a cancel request wrote the row, a job never has two coroutines: the refusal of
\* active jobs is enough, over any sequence of retries and restarts (app.py, retry).
THEOREM JobsRunOnce == Spec => []RunsOnce
<1>1. ASSUME JInv, NEW j \in Job, j \notin touched
      PROVE  ~(Cardinality(RunnersOf(j)) > 1)
  <2>1. CASE RunnersOf(j) = {}
    BY <2>1, FS_EmptySet
  <2>2. CASE RunnersOf(j) # {}
    <3>1. PICK r : r \in RunnersOf(j)
      BY <2>2
    <3>2. RunnersOf(j) = {r}
      BY <1>1, <3>1 DEF JInv, Exclusive, RunnersOf
    <3> QED BY <3>2, FS_Singleton
  <2> QED BY <2>1, <2>2
<1>2. JInv => RunsOnce
  BY <1>1 DEF RunsOnce
<1> QED BY <1>2, JobsInvariant, PTL

\* A job is not left QUEUED or RUNNING without a coroutine, whatever raises within the try,
\* whatever is refused or retried: only a locked database before the try or in the handler,
\* a cancel that wrote the row and a restart leave it so (jobs_v2.py, _start.runner).
THEOREM ActiveServed == Spec => []ActiveIsServed
<1>1. ASSUME JInv, NEW j \in Job, Reads(j, Active), ~Abandoned(j)
      PROVE  RunnersOf(j) # {}
  <2>1. restarts = 0 /\ j \in Job \ touched
    BY <1>1, JobsAssumption DEF JInv, TypeOK, Abandoned
  <2>2. PICK r \in Runner : target[r] = j /\ (Live(r) \/ stage[r] = "died")
    BY <1>1, <2>1 DEF JInv, Served
  <2> QED BY <1>1, <2>2 DEF RunnersOf, Abandoned
<1>2. JInv => ActiveIsServed
  BY <1>1 DEF ActiveIsServed
<1> QED BY <1>2, JobsInvariant, PTL
=============================================================================
