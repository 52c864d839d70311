------------------------------ MODULE TraceJobs ------------------------------
(***************************************************************************)
(* Persistent v2 trace jobs: backend/jobs_v2.py, the trace-job endpoints   *)
(* of backend/app.py, the run of backend/investigation_v2.py and the       *)
(* result record of backend/results_v2.py, over the two tables they use.   *)
(*                                                                         *)
(* Submissions, retries and the jobs themselves are coroutines of one      *)
(* event loop: between two awaits only worker threads interleave with      *)
(* them.  Cancel requests run in such threads.  Every change of a job row  *)
(* is a SELECT and a later INSERT OR REPLACE of the whole row              *)
(* (update_v2_trace_job), so each is two steps here: Fetch and Store.      *)
(* A restart loses coroutines and threads and keeps the tables.            *)
(***************************************************************************)
EXTENDS Naturals, FiniteSets

CONSTANTS
  Job,          \* submissions, each with the coroutine that runs it
  Retry,        \* retry requests, each becoming the coroutine it starts
  Cancel,       \* cancel requests
  Case, CaseOf, \* cases, and the case of each job
  Fingerprint,  \* fingerprints that the evidence of a run may have
  NoRow, NoResult, NoJob, Idle,
  MaxWaits,     \* bound: provider calls awaited by one trace
  MaxRestarts   \* bound: restarts of the process

Runner == Job \cup Retry
Actor == Runner \cup Cancel

Active == {"QUEUED", "RUNNING"}
Final == {"COMPLETED", "FAILED", "CANCELLED"}

Result == [case : Case, version : Nat \ {0}, print : Fingerprint]

Row == [status : Active \cup Final, result : Result \cup {NoResult}, flag : BOOLEAN]

ASSUME JobsAssumption ==
  /\ CaseOf \in [Job -> Case]
  /\ Job \cap Retry = {} /\ Job \cap Cancel = {} /\ Retry \cap Cancel = {}
  /\ Idle \notin Actor /\ NoJob \notin Job /\ NoRow \notin Row
  /\ MaxWaits \in Nat /\ MaxRestarts \in Nat

\* Where an actor is.  Waiting: it has left the event loop.  Updating: the stage
\* ends with a change of the row, Reporting being the calls of progress().
Waiting == {"created", "collecting", "locating", "awaiting"}
Reporting == {"announcing", "seeding", "computing", "resolving", "concluding"}
Updating == Reporting \cup
  {"starting", "completing", "aborting", "failing", "requeueing",
   "cancelling", "cancelling queued"}
Stage == {"idle", "ended", "died", "tracing", "saving", "raised"} \cup Waiting \cup Updating

VARIABLES
  jobs,      \* table v2_trace_jobs
  results,   \* table investigation_results_v2
  stage,     \* where each actor is
  target,    \* the job it works on
  row,       \* the row it has fetched and not yet stored
  made,      \* the result its run returned
  waits,     \* provider calls its trace has awaited
  loop,      \* the coroutine that holds the event loop, or Idle
  restarts,  \* restarts so far
  accepted,  \* history: jobs with an accepted cancel since they were last queued
  touched    \* history: jobs whose row a cancel request ever wrote

tables == <<jobs, results>>
history == <<accepted, touched>>
run == <<made, waits>>
vars == <<tables, stage, target, row, run, loop, restarts, history>>

Init ==
  /\ jobs = [j \in Job |-> NoRow]
  /\ results = {}
  /\ stage = [x \in Actor |-> "idle"]
  /\ target = [x \in Actor |-> IF x \in Job THEN x ELSE NoJob]
  /\ row = [x \in Actor |-> NoRow]
  /\ made = [x \in Runner |-> NoResult]
  /\ waits = [x \in Runner |-> 0]
  /\ loop = Idle /\ restarts = 0
  /\ accepted = {} /\ touched = {}

Live(r) == stage[r] \notin {"idle", "ended", "died", "requeueing"}
RunnersOf(j) == {r \in Runner : target[r] = j /\ Live(r)}

\* Runner r takes the next step of its coroutine.  It holds the event loop
\* until it awaits or ends.
Turn(r) == loop \in {Idle, r}

Goto(r, s) ==
  /\ stage' = [stage EXCEPT ![r] = s]
  /\ loop' = IF s \in Waiting \cup {"ended", "died"} THEN Idle ELSE r

-----------------------------------------------------------------------------
(* One change of a job row *)

Fetch(x) ==
  /\ stage[x] \in Updating /\ row[x] = NoRow
  /\ row' = [row EXCEPT ![x] = jobs[target[x]]]
  /\ UNCHANGED <<tables, stage, target, run, loop, restarts, history>>

\* The changes each stage applies to the row it fetched.
Changed(x) ==
  LET old == row[x]
  IN  CASE stage[x] = "starting"   -> [old EXCEPT !.status = "RUNNING"]
        [] stage[x] = "completing" -> [old EXCEPT !.status = "COMPLETED", !.result = made[x]]
        [] stage[x] = "aborting"   -> [old EXCEPT !.status = "CANCELLED"]
        [] stage[x] = "failing"    -> [old EXCEPT !.status = "FAILED"]
        [] stage[x] = "requeueing" -> [status |-> "QUEUED", result |-> NoResult, flag |-> FALSE]
        [] stage[x] = "cancelling" -> [old EXCEPT !.flag = TRUE]
        [] stage[x] = "cancelling queued" -> [old EXCEPT !.flag = TRUE, !.status = "CANCELLED"]
        [] stage[x] \in Reporting -> old    \* progress(): texts only

Store(x) ==
  /\ row[x] # NoRow
  /\ jobs' = [jobs EXCEPT ![target[x]] = Changed(x)]
  /\ row' = [row EXCEPT ![x] = NoRow]
  /\ UNCHANGED <<results, target, run, restarts>>

-----------------------------------------------------------------------------
(* The coroutine of a job: _start.runner and InvestigationRunnerV2.run *)

Submit(j) ==
  /\ stage[j] = "idle" /\ loop = Idle
  /\ jobs' = [jobs EXCEPT ![j] = [status |-> "QUEUED", result |-> NoResult, flag |-> FALSE]]
  /\ stage' = [stage EXCEPT ![j] = "created"]
  /\ UNCHANGED <<results, target, row, run, loop, restarts, history>>

\* The runner looks at the row before it starts and leaves a cancelled job alone.
Start(r) ==
  /\ stage[r] = "created" /\ Turn(r)
  /\ Goto(r, IF jobs[target[r]].status = "CANCELLED" THEN "ended" ELSE "starting")
  /\ UNCHANGED <<tables, target, row, run, restarts, history>>

\* RUNNING and the first report, then the evidence is awaited; a report, then the
\* seed is; a report, then the trace; two reports, then the result.
AfterUpdate(s) ==
  CASE s = "starting" -> "announcing" [] s = "announcing" -> "collecting"
    [] s = "seeding" -> "locating"    [] s = "computing" -> "tracing"
    [] s = "resolving" -> "concluding" [] s = "concluding" -> "saving"
    [] OTHER -> "ended"

UpdateRow(r) ==
  /\ stage[r] \in Updating \ {"requeueing"} /\ Turn(r)
  /\ Store(r)
  /\ Goto(r, AfterUpdate(stage[r]))
  /\ UNCHANGED history

Flagged(r) == jobs[target[r]].flag

\* The evidence has arrived: a cancelled job stops here.
Collected(r) ==
  /\ stage[r] = "collecting" /\ Turn(r)
  /\ Goto(r, IF Flagged(r) THEN "aborting" ELSE "seeding")
  /\ UNCHANGED <<tables, target, row, run, restarts, history>>

\* The seed transfer has been found.
Located(r) ==
  /\ stage[r] = "locating" /\ Turn(r)
  /\ Goto(r, "computing")
  /\ UNCHANGED <<tables, target, row, run, restarts, history>>

\* should_cancel() before an event of the trace; the trace may then await its
\* provider.  When its heap is empty (FundFlow) it ends without another look.
Poll(r) ==
  /\ stage[r] = "tracing" /\ Turn(r)
  /\ \/ Flagged(r) /\ Goto(r, "aborting") /\ UNCHANGED waits
     \/ /\ ~Flagged(r) /\ waits[r] < MaxWaits
        /\ Goto(r, "awaiting")
        /\ waits' = [waits EXCEPT ![r] = @ + 1]
     \/ Goto(r, "resolving") /\ UNCHANGED waits
  /\ UNCHANGED <<tables, target, row, made, restarts, history>>

Resume(r) ==
  /\ stage[r] = "awaiting" /\ Turn(r)
  /\ Goto(r, "tracing")
  /\ UNCHANGED <<tables, target, row, run, restarts, history>>

\* Within the try: the work, and the change of the row that completes the job.
Guarded == {"collecting", "locating", "tracing", "saving", "completing"} \cup Reporting

\* The provider, the seed lookup, the accounting, the result service or a change of the
\* row (a locked database) raises; while "completing", so does the index of a saved result.
Raise(r) ==
  /\ stage[r] \in Guarded /\ Turn(r)
  /\ Goto(r, "raised")
  /\ row' = [row EXCEPT ![r] = NoRow]
  /\ UNCHANGED <<tables, target, run, restarts, history>>

\* The database is locked before the try or in the handler: the exception ends the
\* task, which nobody awaits, and the row stays as it is.
Die(r) ==
  /\ stage[r] \in {"created", "starting", "raised", "aborting", "failing"} /\ Turn(r)
  /\ Goto(r, "died")
  /\ row' = [row EXCEPT ![r] = NoRow]
  /\ UNCHANGED <<tables, target, run, restarts, history>>

\* Slip: the exception is swallowed without a word in the job's row.
HandleQuietly(r) ==
  /\ stage[r] = "raised" /\ Turn(r)
  /\ Goto(r, "ended")
  /\ UNCHANGED <<tables, target, row, run, restarts, history>>

Handle(r) ==
  /\ stage[r] = "raised" /\ Turn(r)
  /\ Goto(r, IF Flagged(r) THEN "aborting" ELSE "failing")
  /\ UNCHANGED <<tables, target, row, run, restarts, history>>

ResultsOf(c) == {x \in results : x.case = c}

\* Slip: the fingerprint is looked up in every case.
ExistingAnywhere(c, print) == {x \in results : x.print = print}

Existing(c, print) == {x \in ResultsOf(c) : x.print = print}

\* Slip: the version counts from the latest, not after it.
LatestVersion(c) ==
  CHOOSE v \in 0 .. Cardinality(results) :
    /\ \A x \in ResultsOf(c) : x.version <= v
    /\ v = 0 \/ \E x \in ResultsOf(c) : x.version = v

\* COALESCE(MAX(version), 0) + 1
NextVersion(c) ==
  CHOOSE v \in 1 .. (Cardinality(results) + 1) :
    /\ \A x \in ResultsOf(c) : x.version < v
    /\ v = 1 \/ \E x \in ResultsOf(c) : x.version = v - 1

\* Slip: every run is recorded as a new result.
SaveResultAlways(r, print) ==
  LET c == CaseOf[target[r]]
      new == [case |-> c, version |-> NextVersion(c), print |-> print]
  IN  /\ stage[r] = "saving" /\ Turn(r)
      /\ results' = results \cup {new}
      /\ made' = [made EXCEPT ![r] = new]
      /\ Goto(r, "completing")
      /\ UNCHANGED <<jobs, target, row, waits, restarts, history>>

\* InvestigationResultService.create: no await, so look-up, version and insert
\* are one turn of the loop.
SaveResult(r, print) ==
  LET c == CaseOf[target[r]]
      new == [case |-> c, version |-> NextVersion(c), print |-> print]
  IN  /\ stage[r] = "saving" /\ Turn(r)
      /\ IF Existing(c, print) = {}
         THEN results' = results \cup {new} /\ made' = [made EXCEPT ![r] = new]
         ELSE /\ made' \in {[made EXCEPT ![r] = old] : old \in Existing(c, print)}
              /\ UNCHANGED results
      /\ Goto(r, "completing")
      /\ UNCHANGED <<jobs, target, row, waits, restarts, history>>

-----------------------------------------------------------------------------
(* Retry requests, on the event loop *)

\* Slip: an active job is not refused.
BeginRetryActive(q, j) ==
  /\ stage[q] = "idle" /\ loop = Idle /\ jobs[j] # NoRow
  /\ target' = [target EXCEPT ![q] = j]
  /\ stage' = [stage EXCEPT ![q] = "requeueing"]
  /\ loop' = q
  /\ UNCHANGED <<tables, row, run, restarts, history>>

BeginRetry(q, j) ==
  /\ stage[q] = "idle" /\ loop = Idle
  /\ jobs[j] # NoRow /\ jobs[j].status \notin Active
  /\ target' = [target EXCEPT ![q] = j]
  /\ stage' = [stage EXCEPT ![q] = "requeueing"]
  /\ loop' = q
  /\ UNCHANGED <<tables, row, run, restarts, history>>

\* The row is queued again and a new coroutine is created for it.
Requeue(q) ==
  /\ stage[q] = "requeueing" /\ loop = q
  /\ Store(q)
  /\ Goto(q, "created")
  /\ accepted' = accepted \ {target[q]}
  /\ UNCHANGED touched

-----------------------------------------------------------------------------
(* Cancel requests, in worker threads *)

BeginCancel(c, j) ==
  /\ stage[c] = "idle"
  /\ jobs[j] # NoRow /\ jobs[j].status \notin Final
  /\ target' = [target EXCEPT ![c] = j]
  /\ stage' = [stage EXCEPT ![c] =
       IF jobs[j].status = "QUEUED" THEN "cancelling queued" ELSE "cancelling"]
  /\ UNCHANGED <<tables, row, run, loop, restarts, history>>

WriteCancel(c) ==
  /\ Store(c)
  /\ stage' = [stage EXCEPT ![c] = "ended"]
  /\ accepted' = accepted \cup {target[c]}
  /\ touched' = touched \cup {target[c]}
  /\ UNCHANGED loop

\* A request finds the database locked and ends with an error, its row unwritten.
Refused(x) ==
  /\ stage[x] \in {"requeueing", "cancelling", "cancelling queued"}
  /\ stage' = [stage EXCEPT ![x] = "ended"]
  /\ row' = [row EXCEPT ![x] = NoRow]
  /\ loop' = IF x \in Retry THEN Idle ELSE loop
  /\ UNCHANGED <<tables, target, run, restarts, history>>

-----------------------------------------------------------------------------
(* Restart, and the specification *)

\* The process dies and comes up again: app.py's lifespan migrates labels and
\* does not touch the jobs.
Restart ==
  /\ restarts < MaxRestarts
  /\ restarts' = restarts + 1
  /\ stage' = [x \in Actor |-> IF stage[x] = "idle" THEN "idle" ELSE "ended"]
  /\ row' = [x \in Actor |-> NoRow]
  /\ loop' = Idle
  /\ UNCHANGED <<tables, target, run, history>>

\* A cancel thread fetches at any time, a coroutine in its turn of the loop.
FetchInTurn(r) == Turn(r) /\ Fetch(r)

Run(r) ==
  \/ Start(r) \/ FetchInTurn(r) \/ UpdateRow(r)
  \/ Collected(r) \/ Located(r) \/ Poll(r) \/ Resume(r)
  \/ Raise(r) \/ Die(r) \/ Handle(r)
  \/ \E print \in Fingerprint : SaveResult(r, print)

Next ==
  \/ \E j \in Job : Submit(j)
  \/ \E r \in Runner : Run(r)
  \/ \E q \in Retry : Requeue(q) \/ \E j \in Job : BeginRetry(q, j)
  \/ \E c \in Cancel : Fetch(c) \/ WriteCancel(c) \/ \E j \in Job : BeginCancel(c, j)
  \/ \E x \in Retry \cup Cancel : Refused(x)
  \/ Restart

Spec == Init /\ [][Next]_vars

\* The event loop resumes every coroutine that can run, providers answer or
\* time out, and a request that began goes on.
FairSpec ==
  /\ Spec
  /\ \A r \in Runner : SF_vars(Run(r))
  /\ \A q \in Retry : WF_vars(Requeue(q))

-----------------------------------------------------------------------------
(* Properties *)

Reads(j, statuses) == jobs[j] # NoRow /\ jobs[j].status \in statuses

\* The values of every variable: in particular the version of a result counts
\* from 1 and the status of a row is one the code writes.
TypeOK ==
  /\ jobs \in [Job -> Row \cup {NoRow}]
  /\ results \subseteq Result
  /\ stage \in [Actor -> Stage]
  /\ target \in [Actor -> Job \cup {NoJob}]
  /\ row \in [Actor -> Row \cup {NoRow}]
  /\ made \in [Runner -> Result \cup {NoResult}]
  /\ waits \in [Runner -> 0 .. MaxWaits]
  /\ loop \in Runner \cup {Idle}
  /\ restarts \in 0 .. MaxRestarts
  /\ accepted \subseteq Job /\ touched \subseteq Job

\* A job that reads COMPLETED names a saved result of its own case, through
\* lost updates of the row, concurrent runs and restarts alike.
CompletedHasResult ==
  \A j \in Job : Reads(j, {"COMPLETED"}) => jobs[j].result \in ResultsOf(CaseOf[j])

\* The results of a case are versions 1, 2, ... of pairwise different evidence:
\* a retry or a second run of the same evidence finds the earlier result.
VersionedResults ==
  \A c \in Case :
    /\ {x.version : x \in ResultsOf(c)} = 1 .. Cardinality(ResultsOf(c))
    /\ Cardinality({x.print : x \in ResultsOf(c)}) = Cardinality(ResultsOf(c))

\* Only a cancel request can make a job run twice at the same time: without one,
\* retry's refusal of active jobs leaves a job at most one coroutine.
RunsOnce ==
  \A j \in Job : Cardinality(RunnersOf(j)) > 1 => j \in touched

\* What leaves a job active with nobody to work on it: a locked database killed its
\* coroutine outside the try, a cancel request wrote its row, the process restarted.
Abandoned(j) ==
  \/ \E r \in Runner : target[r] = j /\ stage[r] = "died"
  \/ j \in touched \/ restarts > 0

\* A job that reads QUEUED or RUNNING has a coroutine that works on it, unless it is
\* abandoned: whatever raises within the try, the index of a saved result and the row
\* that completes the job included.
ActiveIsServed ==
  \A j \in Job : Reads(j, Active) => RunnersOf(j) # {} \/ Abandoned(j)

\* Every job that is not abandoned reaches a final status: no exception of the run,
\* refused request or retry leaves it active for ever.
Settles ==
  \A j \in Job : (jobs[j] # NoRow) ~> (Reads(j, Final) \/ Abandoned(j))

\* "Cancellation ... is never reported as a completed result"
\* (docs/FULL_ENHANCEMENT_BLUEPRINT_STATUS.md:19).
CancelNeverCompletes ==
  \A j \in accepted : ~Reads(j, {"COMPLETED"})

\* "At startup, unfinished records are marked INTERRUPTED" (jobs_v2.py:14-15):
\* none of them still reads QUEUED or RUNNING when the process is up again.
StartupMarksUnfinished ==
  [][restarts' > restarts =>
       \A j \in Job : ~Reads(j, Active)']_vars
=============================================================================
