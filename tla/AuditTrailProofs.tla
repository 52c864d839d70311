-------------------------- MODULE AuditTrailProofs --------------------------
(***************************************************************************)
(* The audit trail is intact, and an append-only log, for any set of calls *)
(* that interleave, time out and are cut off by crashes.  Everything rests *)
(* on the write lock: a call between its first INSERT and its commit is    *)
(* the writer, so that the hash it has read is still the last one.         *)
(***************************************************************************)
EXTENDS AuditTrail, SequenceTheorems, TLAPS

Chained == {chain[i].id : i \in DOMAIN chain}

\* A call with an open transaction holds the lock.
Locked == \A e \in Event : phase[e] \in {"inserted", "read"} => writer = e

\* The hash a call has read is the hash of the last committed row.
TailFresh == \A e \in Event : phase[e] = "read" => tail[e] = LastHash

\* The committed events are those of the chain, and those of the calls that returned.
Committed == events = Chained /\ \A e \in Event : phase[e] = "done" <=> e \in events

IInv == TrailTypeOK /\ Linked /\ Committed /\ Locked /\ TailFresh

\* The rows of a chain that a row is appended to.
LEMMA ChainAppend ==
  ASSUME NEW s \in Seq(Row), NEW r \in Row
  PROVE  /\ Append(s, r) \in Seq(Row)
         /\ DOMAIN Append(s, r) = DOMAIN s \cup {Len(s) + 1}
         /\ DOMAIN s = 1 .. Len(s) /\ Len(s) \in Nat
         /\ \A i \in DOMAIN s : Append(s, r)[i] = s[i]
         /\ Append(s, r)[Len(s) + 1] = r
BY AppendProperties

LEMMA IInit == TrailInit => IInv
BY DEF TrailInit, IInv, TrailTypeOK, Linked, Committed, Chained, Locked, TailFresh, Phases

\* The hash read under the lock is one of an event, or none of an empty chain.
LEMMA LastHashType ==
  ASSUME chain \in Seq(Row)
  PROVE  LastHash \in Event \cup {NoEvent}
<1>1. CASE chain = << >>
  BY <1>1 DEF LastHash
<1>2. CASE chain # << >>
  <2>1. chain[Len(chain)] \in Row
    <3>1. Len(chain) \in 1 .. Len(chain)
      BY <1>2, EmptySeq
    <3> QED BY <3>1, ElementOfSeq
  <2>2. chain[Len(chain)].id \in Event
    BY <2>1 DEF Row
  <2> QED BY <1>2, <2>2 DEF LastHash
<1> QED BY <1>1, <1>2

\* The commit is the step that matters: it links its row to the last one.
LEMMA CommitKeeps ==
  ASSUME IInv, NEW e \in Event, InsertLink(e)
  PROVE  IInv'
<1> DEFINE row == [id |-> e, previous |-> tail[e]]
<1>1. row \in Row /\ chain \in Seq(Row) /\ chain' = Append(chain, row)
  BY DEF IInv, TrailTypeOK, InsertLink, Row
<1> HIDE DEF row
<1>2. /\ chain' \in Seq(Row)
      /\ DOMAIN chain' = DOMAIN chain \cup {Len(chain) + 1}
      /\ DOMAIN chain = 1 .. Len(chain) /\ Len(chain) \in Nat
      /\ \A i \in DOMAIN chain : chain'[i] = chain[i]
      /\ chain'[Len(chain) + 1] = row
  BY <1>1, ChainAppend
<1>3. row.id = e /\ row.previous = tail[e]
  BY DEF row
<1>4. /\ phase[e] = "read" /\ phase' = [phase EXCEPT ![e] = "done"]
      /\ events' = events \cup {e} /\ tail' = tail /\ writer' = NoEvent
  BY DEF InsertLink
<1>5. TrailTypeOK'
  BY <1>2, <1>4 DEF IInv, TrailTypeOK, Phases
<1>6. Linked'
  <2>1. tail[e] = LastHash
    BY <1>4 DEF IInv, TailFresh
  <2>2. ASSUME NEW i \in DOMAIN chain
        PROVE  chain'[i].previous = IF i = 1 THEN NoEvent ELSE chain'[i - 1].id
    <3>1. chain[i].previous = IF i = 1 THEN NoEvent ELSE chain[i - 1].id
      BY <2>2 DEF IInv, Linked
    <3>2. i # 1 => i - 1 \in DOMAIN chain
      BY <1>2, <2>2
    <3> QED BY <1>2, <2>2, <3>1, <3>2
  <2>3. chain'[Len(chain) + 1].previous
          = IF Len(chain) + 1 = 1 THEN NoEvent ELSE chain'[Len(chain) + 1 - 1].id
    <3>1. CASE Len(chain) = 0
      <4>1. chain = << >>
        BY <1>1, <3>1, EmptySeq
      <4> QED BY <1>2, <1>3, <2>1, <3>1, <4>1 DEF LastHash
    <3>2. CASE Len(chain) # 0
      <4>1. chain # << >> /\ Len(chain) \in DOMAIN chain
        BY <1>1, <1>2, <3>2, EmptySeq
      <4>2. Len(chain) + 1 # 1 /\ Len(chain) + 1 - 1 = Len(chain)
        BY <1>2, <3>2
      <4> QED BY <1>2, <1>3, <2>1, <4>1, <4>2 DEF LastHash
    <3> QED BY <3>1, <3>2
  <2>4. ASSUME NEW i \in DOMAIN chain'
        PROVE  chain'[i].previous = IF i = 1 THEN NoEvent ELSE chain'[i - 1].id
    <3>1. CASE i \in DOMAIN chain
      BY <2>2, <3>1
    <3>2. CASE i = Len(chain) + 1
      BY <2>3, <3>2
    <3> QED BY <1>2, <2>4, <3>1, <3>2
  <2> QED BY <2>4 DEF Linked
<1>7. Committed'
  <2>1. Chained' = Chained \cup {e}
    BY <1>2, <1>3 DEF Chained
  <2>2. phase \in [Event -> Phases] /\ events \subseteq Event
    BY DEF IInv, TrailTypeOK
  <2> QED BY <1>4, <2>1, <2>2 DEF IInv, Committed
<1>8. \A c \in Event \ {e} : phase[c] \notin {"inserted", "read"}
  BY <1>4 DEF IInv, Locked
<1>9. \A c \in Event : phase'[c] \notin {"inserted", "read"}
  BY <1>4, <1>8 DEF IInv, TrailTypeOK
<1> QED BY <1>5, <1>6, <1>7, <1>9 DEF IInv, Locked, TailFresh

\* What no other step does: it leaves the tables alone.
LEMMA TablesKept ==
  ASSUME IInv, UNCHANGED <<events, chain>>
  PROVE  Linked' /\ Chained' = Chained /\ LastHash' = LastHash
BY DEF IInv, Linked, Chained, LastHash

LEMMA INext == IInv /\ [TrailNext]_trailVars => IInv'
<1> SUFFICES ASSUME IInv, [TrailNext]_trailVars
             PROVE  IInv'
  OBVIOUS
<1>1. TrailTypeOK /\ Linked /\ Committed /\ Locked /\ TailFresh
  BY DEF IInv
<1>2. ASSUME NEW e \in Event, CallAudit(e)
      PROVE  IInv'
  BY <1>1, <1>2, TablesKept DEF CallAudit, IInv, TrailTypeOK, Phases, Committed, Locked, TailFresh
<1>3. ASSUME NEW e \in Event, InsertEvent(e)
      PROVE  IInv'
  BY <1>1, <1>3, TablesKept, EventAssumption
  DEF InsertEvent, IInv, TrailTypeOK, Phases, Committed, Locked, TailFresh
<1>4. ASSUME NEW e \in Event, ReadTail(e)
      PROVE  IInv'
  <2>1. LastHash \in Event \cup {NoEvent}
    BY <1>1, LastHashType DEF TrailTypeOK
  <2>2. Linked' /\ Chained' = Chained /\ LastHash' = LastHash
    BY <1>4, TablesKept DEF ReadTail
  <2> HIDE DEF LastHash
  <2> QED BY <1>1, <1>4, <2>1, <2>2 DEF ReadTail, IInv, TrailTypeOK, Phases, Committed, Locked, TailFresh
<1>5. ASSUME NEW e \in Event, InsertLink(e)
      PROVE  IInv'
  BY <1>5, CommitKeeps
<1>6. ASSUME NEW e \in Event, AuditTimesOut(e)
      PROVE  IInv'
  BY <1>1, <1>6, TablesKept DEF AuditTimesOut, IInv, TrailTypeOK, Phases, Committed, Locked, TailFresh
<1>7. ASSUME TrailCrash
      PROVE  IInv'
  BY <1>1, <1>7, TablesKept DEF TrailCrash, IInv, TrailTypeOK, Phases, Committed, Locked, TailFresh
<1>8. ASSUME UNCHANGED trailVars
      PROVE  IInv'
  BY <1>1, <1>8, TablesKept DEF trailVars, IInv, TrailTypeOK, Committed, Locked, TailFresh
<1> QED BY <1>2, <1>3, <1>4, <1>5, <1>6, <1>7, <1>8 DEF TrailNext, TrailStep

\* The chain is linear and complete whatever calls record_audit serves at once, however
\* they time out and wherever a crash cuts them off (storage.py, record_audit).
THEOREM TrailIntact == TrailSpec => []ChainIntact
<1>1. IInv => ChainIntact
  BY DEF IInv, ChainIntact, Committed, Chained
<1> QED BY <1>1, IInit, INext, PTL DEF TrailSpec

\* A committed step appends an event that was not in the log; every other step leaves the
\* log as it is (storage.py, record_audit).
THEOREM TrailAppendsOnly == TrailSpec => AppendOnly
<1> DEFINE log == [i \in DOMAIN chain |-> chain[i].id]
<1>1. TrailInit => Log!Init
  BY DEF TrailInit, Log!Init
<1>2. IInv /\ [TrailNext]_trailVars => [Log!Next]_log
  <2> SUFFICES ASSUME IInv, [TrailNext]_trailVars
               PROVE  [Log!Next]_log
    OBVIOUS
  <2>1. CASE UNCHANGED chain
    BY <2>1
  <2>2. ASSUME NEW e \in Event, InsertLink(e)
        PROVE  Log!Append1(e)
    <3> DEFINE row == [id |-> e, previous |-> tail[e]]
    <3>1. row \in Row /\ chain \in Seq(Row) /\ chain' = Append(chain, row)
      BY <2>2 DEF IInv, TrailTypeOK, InsertLink, Row
    <3>2. row.id = e
      OBVIOUS
    <3> HIDE DEF row
    <3>3. /\ DOMAIN chain' = DOMAIN chain \cup {Len(chain) + 1}
          /\ DOMAIN chain = 1 .. Len(chain) /\ Len(chain) \in Nat
          /\ \A i \in DOMAIN chain : chain'[i] = chain[i]
          /\ chain'[Len(chain) + 1] = row
      BY <3>1, ChainAppend
    <3>4. \A r \in Row : r.id \in Event
      BY DEF Row
    <3>5. log \in Seq(Event) /\ Len(log) = Len(chain)
      BY <3>1, <3>3, <3>4
    <3>6. /\ DOMAIN Append(log, e) = 1 .. Len(chain) + 1
          /\ \A i \in 1 .. Len(chain) : Append(log, e)[i] = log[i]
          /\ Append(log, e)[Len(chain) + 1] = e
          /\ Append(log, e) \in Seq(Event)
      BY <3>5, AppendProperties
    <3>7. log' = Append(log, e)
      BY <3>2, <3>3, <3>6
    <3>8. e \notin Chained
      BY <2>2 DEF IInv, Committed, InsertLink
    <3>9. e \notin Log!Recorded
      BY <3>8 DEF Log!Recorded, Chained
    <3> QED BY <3>7, <3>9 DEF Log!Append1
  <2>3. ASSUME TrailNext, ~ \E e \in Event : InsertLink(e)
        PROVE  UNCHANGED chain
    BY <2>3 DEF TrailNext, TrailStep, CallAudit, InsertEvent, ReadTail, AuditTimesOut, TrailCrash
  <2> QED BY <2>1, <2>2, <2>3 DEF Log!Next, trailVars
<1> QED BY <1>1, <1>2, IInit, INext, PTL DEF TrailSpec, AppendOnly, Log!Spec
=============================================================================
