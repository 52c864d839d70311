----------------------------- MODULE AuditTrail -----------------------------
(***************************************************************************)
(* Store.record_audit, called by worker threads and coroutines at the same *)
(* time.  One call writes the event into audit_events and into the chain   *)
(* audit_chain_v2 within one transaction.  The first INSERT takes the      *)
(* write lock of the database, so the hash of the chain's last event is    *)
(* read under the lock.  The call waits for the lock at most five seconds  *)
(* (sqlite3.connect), and a crash rolls the transaction back.              *)
(***************************************************************************)
EXTENDS Sequences, Integers

CONSTANTS
  Event,          \* the calls of record_audit, each with the event it writes
  NoEvent         \* no event: an unheld lock, the predecessor of the first event

ASSUME EventAssumption == NoEvent \notin Event

VARIABLES
  events,         \* committed rows of audit_events
  chain,          \* committed rows of audit_chain_v2 in order of sequence
  writer,         \* the call whose open transaction holds the write lock
  phase,          \* where each call is
  tail            \* the previous_hash a call has read

trailVars == <<events, chain, writer, phase, tail>>

Phases == {"none", "waiting", "inserted", "read", "done", "failed"}

\* A row names its event and the hash of its predecessor.  Its own hash is a
\* digest of both and of the event's unique id, so it is named by the event.
Row == [id : Event, previous : Event \cup {NoEvent}]

TrailTypeOK ==
  /\ events \subseteq Event
  /\ chain \in Seq(Row)
  /\ writer \in Event \cup {NoEvent}
  /\ phase \in [Event -> Phases]
  /\ tail \in [Event -> Event \cup {NoEvent}]

TrailInit ==
  /\ events = {} /\ chain = << >> /\ writer = NoEvent
  /\ phase = [e \in Event |-> "none"]
  /\ tail = [e \in Event |-> NoEvent]

LastHash == IF chain = << >> THEN NoEvent ELSE chain[Len(chain)].id

\* An endpoint calls audit() once its operation is committed.
CallAudit(e) ==
  /\ phase[e] = "none"
  /\ phase' = [phase EXCEPT ![e] = "waiting"]
  /\ UNCHANGED <<events, chain, writer, tail>>

\* Slip: a transaction that reads before it writes.
InsertEventSlip(e) ==
  /\ phase[e] = "waiting"
  /\ phase' = [phase EXCEPT ![e] = "inserted"]
  /\ UNCHANGED <<events, chain, writer, tail>>

\* INSERT INTO audit_events: begins the transaction and takes the write lock.
InsertEvent(e) ==
  /\ phase[e] = "waiting"
  /\ writer = NoEvent
  /\ writer' = e
  /\ phase' = [phase EXCEPT ![e] = "inserted"]
  /\ UNCHANGED <<events, chain, tail>>

ReadTail(e) ==
  /\ phase[e] = "inserted"
  /\ tail' = [tail EXCEPT ![e] = LastHash]
  /\ phase' = [phase EXCEPT ![e] = "read"]
  /\ UNCHANGED <<events, chain, writer>>

\* INSERT INTO audit_chain_v2, and the commit at the end of the block.
InsertLink(e) ==
  /\ phase[e] = "read"
  /\ chain' = Append(chain, [id |-> e, previous |-> tail[e]])
  /\ events' = events \cup {e}
  /\ writer' = NoEvent
  /\ phase' = [phase EXCEPT ![e] = "done"]
  /\ UNCHANGED tail

\* "database is locked": the wait for the lock ends with an exception.
AuditTimesOut(e) ==
  /\ phase[e] = "waiting"
  /\ writer # NoEvent
  /\ phase' = [phase EXCEPT ![e] = "failed"]
  /\ UNCHANGED <<events, chain, writer, tail>>

\* Slip: the last commit is not durable.
TrailCrashSlip ==
  LET kept == SubSeq(chain, 1, Len(chain) - 1) IN
  /\ writer' = NoEvent /\ chain' = kept
  /\ events' = {kept[i].id : i \in DOMAIN kept}
  /\ phase' = [e \in Event |-> IF phase[e] = "none" \/ e \in events' THEN phase[e] ELSE "failed"]
  /\ UNCHANGED tail

\* The process dies: open transactions are rolled back with their threads.
TrailCrash ==
  /\ writer' = NoEvent
  /\ phase' = [e \in Event |-> IF phase[e] \in {"none", "done"} THEN phase[e] ELSE "failed"]
  /\ UNCHANGED <<events, chain, tail>>

TrailStep(e) == InsertEvent(e) \/ ReadTail(e) \/ InsertLink(e) \/ AuditTimesOut(e)

TrailNext == (\E e \in Event : CallAudit(e) \/ TrailStep(e)) \/ TrailCrash

TrailSpec == TrailInit /\ [][TrailNext]_trailVars

----------------------------------------------------------------------------
\* What verify_audit_chain_v2 recomputes over the committed rows.
Linked ==
  \A i \in DOMAIN chain :
    chain[i].previous = IF i = 1 THEN NoEvent ELSE chain[i - 1].id

\* The chain is linear and leaves no event out: every row names the hash of the row
\* before it, so verification succeeds at any moment, the two tables hold the same
\* events, and a call that returned has its event in both.  Calls of all threads,
\* lock timeouts and crashes included (storage.py, record_audit and
\* verify_audit_chain_v2).
ChainIntact ==
  /\ Linked
  /\ events = {chain[i].id : i \in DOMAIN chain}
  /\ \A e \in Event : phase[e] = "done" <=> e \in events

\* The trail implements an append-only log of its events.
Log == INSTANCE AuditLog WITH log <- [i \in DOMAIN chain |-> chain[i].id]

\* The trail is an append-only log: no committed step removes, rewrites, reorders
\* or repeats an event (storage.py, record_audit).
AppendOnly == Log!Spec
=============================================================================
