------------------------------ MODULE AuditLog ------------------------------
(***************************************************************************)
(* What an audit trail promises: a log to which events are added at the    *)
(* end, each once, and from which nothing is ever removed.  AuditTrail     *)
(* implements it with two tables and the write lock of the database.       *)
(***************************************************************************)
EXTENDS Sequences, Integers

CONSTANT Event          \* the calls of record_audit, each with the event it writes

VARIABLE log            \* the events in the order of the chain

TypeOK == log \in Seq(Event)

Init == log = << >>

Recorded == {log[i] : i \in DOMAIN log}

Append1(e) ==
  /\ e \notin Recorded
  /\ log' = Append(log, e)

Next == \E e \in Event : Append1(e)

Spec == Init /\ [][Next]_log
=============================================================================
