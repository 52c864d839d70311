-------------------------- MODULE ConclusionsProofs --------------------------
(***************************************************************************)
(* What a run concludes, for any runs, cases, evidence, registry and       *)
(* reviewers.                                                              *)
(*                                                                         *)
(* Connections.  A run that saves a result keeps the event loop to its     *)
(* end: when it indexes the result, the newest results of the other cases  *)
(* are still those that were the newest when it was saved, and every       *)
(* connection it found is either saved or still to be (CInv).              *)
(*                                                                         *)
(* Candidates.  Only a review makes an assertion reviewed (Registered) and *)
(* what a step may do to the registry is little (Kept), so what backs a    *)
(* candidate (Attributions), settles an endpoint (Reached) or grounds an   *)
(* inference (Inferred) stays, whatever the desk decides meanwhile.        *)
(*                                                                         *)
(* Drafts.  The books of a trace (Flows) lead back to the root, and a      *)
(* draft is drawn from them (Drafted).                                     *)
(***************************************************************************)
EXTENDS Conclusions, AmountsProofs

Waiting == {"idle", "tracing", "ended", "lost"}
Early == {"idle", "tracing", "inferring", "asserting", "attributing"}
Late == {"indexing", "connecting", "ended", "lost"}

\* A sequence, whatever its elements are.
ElementsOf(s) == {s[k] : k \in DOMAIN s}
IsSequence(s) == s \in Seq(ElementsOf(s))
Grown(s, e, t) == t = Append(s, e)

World == scene \in Scenes

Stages ==
  /\ DOMAIN run = Run /\ \A r \in Run : "at" \in DOMAIN run[r] /\ run[r].at \in Early \cup Late
  /\ \A r \in Run : run[r].at = "connecting" => DOMAIN run[r] = {"at", "result", "pending"}

\* One run at a time is past its trace.
Exclusive == \A q, r \in Run : q # r => run[q].at \in Waiting \/ run[r].at \in Waiting

\* A result is of one run, which has no other and is at its end.
Authors ==
  /\ IsSequence(results)
  /\ \A p \in DOMAIN results :
       /\ results[p].by \in Runs /\ run[results[p].by].at \in Late
       /\ results[p].snapshot.case = Evidence(results[p].by).case
  /\ \A p, q \in DOMAIN results : results[p].by = results[q].by => p = q

\* The result that is to be indexed is the last one.
Indexing ==
  \A r \in Run :
    /\ run[r].at \in {"indexing", "connecting"} =>
         run[r].result \in DOMAIN results /\ results[run[r].result].by = r
    /\ run[r].at = "indexing" => run[r].result = Len(results)

\* o was the newest result of another case when p was saved.
Meets(p, o) ==
  /\ o < p /\ results[p].snapshot.case # results[o].snapshot.case
  /\ \A n \in o + 1 .. p - 1 : results[n].snapshot.case # results[o].snapshot.case

Link(p, o, k) == [from |-> p, to |-> o, key |-> k]

\* A connection that is due was saved, or is still to be.
Connected ==
  \A p, o \in DOMAIN results : Meets(p, o) =>
    \A k \in Keys(p) \cap Keys(o) :
      /\ run[results[p].by].at = "ended" => Link(p, o, k) \in connections
      /\ run[results[p].by].at = "connecting" => Link(p, o, k) \in connections \cup run[results[p].by].pending

CInv == World /\ Stages /\ Exclusive /\ Authors /\ Indexing /\ Connected

-----------------------------------------------------------------------------
LEMMA Runners == ASSUME World PROVE Runs \subseteq Run /\ \A r \in Runs : Evidence(r).case \in Case
BY ConclusionsAssumption DEF World, Runs, Evidence

LEMMA ConnectedStart == Init => CInv
<1> SUFFICES ASSUME Init PROVE CInv
  OBVIOUS
<1>1. World /\ Stages /\ Exclusive
  BY DEF Init, World, Stages, Exclusive, Waiting, Early
<1>2. results = << >> /\ \A r \in Run : run[r].at = "idle"
  BY DEF Init
<1>3. IsSequence(results) /\ DOMAIN results = {}
  BY <1>2 DEF IsSequence, ElementsOf
<1> QED
  BY <1>1, <1>2, <1>3 DEF CInv, Authors, Indexing, Connected

\* A step of anyone else: the desk, or a request.
LEMMA ConnectedElsewhere == ASSUME CInv, UNCHANGED <<scene, results, connections, run>> PROVE CInv'
BY DEF CInv, World, Stages, Exclusive, Authors, Indexing, Connected, Meets, Keys, Runs, Evidence

\* What a run does before it has a result, and that it ends without one.
LEMMA ConnectedEarly ==
  ASSUME CInv, NEW r \in Run, NEW x, Set(r, x), UNCHANGED <<scene, results, connections>>,
         run[r].at \in Early, "at" \in DOMAIN x, x.at \in Early \cup {"ended", "lost"},
         x.at \in Waiting \/ run[r].at \notin Waiting \/ Turn(r)
  PROVE  CInv'
<1>1. DOMAIN run' = Run /\ run'[r] = x /\ \A q \in Run \ {r} : run'[q] = run[q]
  BY DEF Set, CInv, Stages
<1>2. \A p \in DOMAIN results : results[p].by # r /\ results[p].by \in Run
  BY Runners DEF CInv, Authors, Early, Late
<1>3. World' /\ Stages'
  BY <1>1 DEF CInv, World, Stages, Early, Late
<1>4. Exclusive'
  BY <1>1 DEF CInv, Exclusive, Turn, Waiting
<1>5. Authors'
  BY <1>1, <1>2 DEF CInv, Authors, Runs, Evidence
<1>6. Indexing'
  BY <1>1 DEF CInv, Indexing, Early
<1>7. Connected'
  BY <1>1, <1>2 DEF CInv, Connected, Meets, Keys, Link
<1> QED
  BY <1>3, <1>4, <1>5, <1>6, <1>7 DEF CInv

LEMMA ConnectedStartRun == ASSUME CInv, NEW r \in Run, StartRun(r) PROVE CInv'
<1> DEFINE x == [at |-> "tracing", next |-> 1, base |-> Len(desk), allocations |-> << >>, terminals |-> << >>,
             held |-> [a \in AddressesOf(Transfers(r)) |-> IF a = Evidence(r).root THEN Evidence(r).seed ELSE 0]]
<1>1. "at" \in DOMAIN x /\ x.at = "tracing" /\ Set(r, x)
  BY DEF StartRun
<1> HIDE DEF x
<1> QED
  BY <1>1, ConnectedEarly DEF StartRun, tables, Early, Waiting

LEMMA ConnectedTraceTransfer == ASSUME CInv, NEW r \in Run, TraceTransfer(r) PROVE CInv'
<1>1. "at" \in DOMAIN run[r] /\ run[r].at = "tracing" /\ Turn(r) /\ UNCHANGED <<scene, results, connections>>
  BY Zenon DEF CInv, Stages, TraceTransfer, tables
<1>2. PICK x : Set(r, x) /\ "at" \in DOMAIN x /\ x.at = "tracing"
  <2> DEFINE o == run[r]
             t == Transfers(r)[o.next]
             amount == IF t.amount <= o.held[t.source] THEN t.amount ELSE o.held[t.source]
             reason == TerminalReason(t.destination, o.next)
             final == IF reason # "none" THEN reason
                      ELSE IF \E i \in o.next + 1 .. Len(Transfers(r)) : Transfers(r)[i].source = t.destination
                      THEN "none" ELSE "NO_OUTGOING"
             moved == [o EXCEPT !.next = @ + 1,
                         !.allocations = Append(@, [transfer |-> o.next, amount |-> amount,
                                                    parents |-> Parents(r, o, t.source)]),
                         !.held[t.source] = @ - amount]
             none == [o EXCEPT !.next = @ + 1]
             on == [moved EXCEPT !.held[t.destination] = @ + amount]
             stop == [moved EXCEPT !.terminals = Append(@, [address |-> t.destination, amount |-> amount, reason |-> final,
                                                            parent |-> Len(moved.allocations)])]
  <2>1. Set(r, IF amount = 0 THEN none ELSE IF final = "none" THEN on ELSE stop)
    BY Zenon DEF TraceTransfer
  <2>2. "at" \in DOMAIN none /\ none.at = "tracing"
    BY <1>1
  <2>3. "at" \in DOMAIN moved /\ moved.at = "tracing"
    BY <1>1
  <2> HIDE DEF none, moved, amount, final
  <2>4. "at" \in DOMAIN on /\ on.at = "tracing"
    BY <2>3
  <2>5. "at" \in DOMAIN stop /\ stop.at = "tracing"
    BY <2>3
  <2> HIDE DEF on, stop
  <2> QED
    BY <2>1, <2>2, <2>4, <2>5
<1> QED
  BY <1>1, <1>2, ConnectedEarly DEF Early, Waiting

LEMMA ConnectedEndTrace == ASSUME CInv, NEW r \in Run, EndTrace(r) PROVE CInv'
<1> DEFINE x == [at |-> "inferring", base |-> run[r].base, allocations |-> run[r].allocations,
             terminals |-> run[r].terminals, pending |-> {}, saved |-> {}, inferred |-> {},
             todo |-> SetToSeq({Transfers(r)[i].destination : i \in DOMAIN Transfers(r)})]
<1>1. "at" \in DOMAIN x /\ x.at = "inferring" /\ Set(r, x)
  BY DEF EndTrace
<1> HIDE DEF x
<1> QED
  BY <1>1, ConnectedEarly DEF EndTrace, tables, Early

LEMMA ConnectedInferAddress == ASSUME CInv, NEW r \in Run, InferAddress(r) PROVE CInv'
<1>1. PICK found : Set(r, [run[r] EXCEPT !.todo = Tail(@), !.pending = found, !.inferred = @ \cup found])
  BY Zenon DEF InferAddress
<1> DEFINE x == [run[r] EXCEPT !.todo = Tail(@), !.pending = found, !.inferred = @ \cup found]
<1>2. "at" \in DOMAIN x /\ x.at = "inferring" /\ Set(r, x)
  BY <1>1 DEF InferAddress, CInv, Stages
<1> HIDE DEF x
<1> QED
  BY <1>2, ConnectedEarly DEF InferAddress, tables, Early, Waiting

LEMMA ConnectedSaveInference == ASSUME CInv, NEW r \in Run, SaveInference(r) PROVE CInv'
<1>1. PICK i : Set(r, [run[r] EXCEPT !.at = "asserting", !.pending = @ \ {i}, !.saved = {i}])
  BY Zenon DEF SaveInference
<1> DEFINE x == [run[r] EXCEPT !.at = "asserting", !.pending = @ \ {i}, !.saved = {i}]
<1>2. "at" \in DOMAIN x /\ x.at = "asserting" /\ Set(r, x)
  BY <1>1 DEF CInv, Stages
<1> HIDE DEF x
<1> QED
  BY <1>2, ConnectedEarly DEF SaveInference, Early, Waiting

LEMMA ConnectedAssertInference == ASSUME CInv, NEW r \in Run, AssertInference(r) PROVE CInv'
<1> DEFINE x == [run[r] EXCEPT !.at = "inferring", !.saved = {}]
<1>1. "at" \in DOMAIN x /\ x.at = "inferring" /\ Set(r, x)
  BY DEF AssertInference, CInv, Stages
<1> HIDE DEF x
<1> QED
  BY <1>1, ConnectedEarly DEF AssertInference, Early, Waiting

LEMMA ConnectedEndInference == ASSUME CInv, NEW r \in Run, EndInference(r) PROVE CInv'
<1> DEFINE y == run[r]
           x == [at |-> "attributing", base |-> y.base, allocations |-> y.allocations, terminals |-> y.terminals,
             inferred |-> y.inferred, next |-> 1, groups |-> {}, candidates |-> {}]
<1>1. "at" \in DOMAIN x /\ x.at = "attributing" /\ Set(r, x)
  BY DEF EndInference
<1> HIDE DEF x
<1> QED
  BY <1>1, ConnectedEarly DEF EndInference, tables, Early, Waiting

LEMMA ConnectedGroupTerminal == ASSUME CInv, NEW r \in Run, GroupTerminal(r) PROVE CInv'
<1>1. PICK g : Set(r, [run[r] EXCEPT !.next = @ + 1, !.groups = @ \cup g])
  BY Zenon DEF GroupTerminal
<1> DEFINE x == [run[r] EXCEPT !.next = @ + 1, !.groups = @ \cup g]
<1>2. "at" \in DOMAIN x /\ x.at = "attributing" /\ Set(r, x)
  BY <1>1 DEF GroupTerminal, CInv, Stages
<1> HIDE DEF x
<1> QED
  BY <1>2, ConnectedEarly DEF GroupTerminal, tables, Early, Waiting

LEMMA ConnectedBuildCandidate == ASSUME CInv, NEW r \in Run, BuildCandidate(r) PROVE CInv'
<1>1. PICK g, c : Set(r, [run[r] EXCEPT !.groups = g, !.candidates = c])
  BY Zenon DEF BuildCandidate
<1> DEFINE x == [run[r] EXCEPT !.groups = g, !.candidates = c]
<1>2. "at" \in DOMAIN x /\ x.at = "attributing" /\ Set(r, x)
  BY <1>1 DEF BuildCandidate, CInv, Stages
<1> HIDE DEF x
<1> QED
  BY <1>2, ConnectedEarly DEF BuildCandidate, tables, Early, Waiting

\* What a run does with its result, once it is saved.
LEMMA ConnectedLate ==
  ASSUME CInv, NEW r \in Run, NEW x, Set(r, x), UNCHANGED <<scene, results>>, connections \subseteq connections',
         run[r].at \in {"indexing", "connecting"}, x.at \in {"connecting", "ended", "lost"}, "at" \in DOMAIN x,
         x.at = "connecting" => DOMAIN x = {"at", "result", "pending"} /\ x.result = run[r].result,
         \A p, o \in DOMAIN results : results[p].by = r /\ Meets(p, o) =>
           \A k \in Keys(p) \cap Keys(o) :
             /\ x.at = "ended" => Link(p, o, k) \in connections'
             /\ x.at = "connecting" => Link(p, o, k) \in connections' \cup x.pending
  PROVE  CInv'
<1>1. DOMAIN run' = Run /\ run'[r] = x /\ \A q \in Run \ {r} : run'[q] = run[q]
  BY DEF Set, CInv, Stages
<1>2. \A p \in DOMAIN results : results[p].by \in Run
  BY Runners DEF CInv, Authors
<1>3. World' /\ Stages'
  BY <1>1 DEF CInv, World, Stages, Early, Late
<1>4. Exclusive'
  <2>1. \A q \in Run \ {r} : run[q].at \in Waiting
    BY DEF CInv, Exclusive, Waiting
  <2> QED
    BY <1>1, <2>1 DEF Exclusive
<1>5. Authors'
  BY <1>1, <1>2 DEF CInv, Authors, Runs, Evidence, Late
<1>6. Indexing'
  BY <1>1 DEF CInv, Indexing
<1>7. Connected'
  <2>1. ASSUME NEW p \in DOMAIN results, NEW o \in DOMAIN results, Meets(p, o), NEW k \in Keys(p) \cap Keys(o)
        PROVE  /\ run'[results[p].by].at = "ended" => Link(p, o, k) \in connections'
               /\ run'[results[p].by].at = "connecting" => Link(p, o, k) \in connections' \cup run'[results[p].by].pending
    <3>1. CASE results[p].by = r
      BY <1>1, <2>1, <3>1
    <3>2. CASE results[p].by # r
      <4>1. /\ run[results[p].by].at = "ended" => Link(p, o, k) \in connections
            /\ run[results[p].by].at = "connecting" => Link(p, o, k) \in connections \cup run[results[p].by].pending
        BY <2>1 DEF CInv, Connected
      <4>2. run'[results[p].by] = run[results[p].by]
        BY <1>1, <1>2, <3>2
      <4> QED
        BY <4>1, <4>2
    <3> QED
      BY <3>1, <3>2
  <2>2. \A p, o : Meets(p, o)' <=> Meets(p, o)
    BY DEF Meets
  <2>3. \A p : Keys(p)' = Keys(p)
    BY DEF Keys
  <2> QED
    BY <2>1, <2>2, <2>3 DEF Connected
<1> QED
  BY <1>3, <1>4, <1>5, <1>6, <1>7 DEF CInv

LEMMA CaseResults == \A c : ResultsOf(c) = {k \in DOMAIN results : results[k].snapshot.case = c}
BY DEF ResultsOf, Where

\* The results that were the newest when the run's own was saved are the newest still.
LEMMA ConnectedIndexCases == ASSUME CInv, NEW r \in Runs, IndexCases(r) PROVE CInv'
<1> DEFINE n == run[r].result
           others == UNION {Newest(c) : c \in Case \ {Evidence(r).case}}
           found == UNION {{[from |-> n, to |-> o, key |-> k] : k \in Keys(n) \cap Keys(o)} : o \in others}
           x == [at |-> "connecting", result |-> n, pending |-> found]
<1>1. /\ run[r].at = "indexing" /\ Set(r, x)
      /\ UNCHANGED <<scene, results, connections>>
  BY DEF IndexCases, tables
<1>2. r \in Run /\ World
  BY Runners DEF CInv
<1>3. n \in DOMAIN results /\ results[n].by = r /\ n = Len(results)
  BY <1>1, <1>2 DEF CInv, Indexing
<1>4. DOMAIN results = 1 .. n /\ n \in Nat
  BY <1>3 DEF CInv, Authors, IsSequence
<1>5. ASSUME NEW p \in DOMAIN results, NEW o \in DOMAIN results, results[p].by = r, Meets(p, o),
             NEW k \in Keys(p) \cap Keys(o)
      PROVE  Link(p, o, k) \in found
  <2>1. p = n
    BY <1>3, <1>5 DEF CInv, Authors
  <2>2. PICK c : c = results[o].snapshot.case
    OBVIOUS
  <2>3. c \in Case /\ c # Evidence(r).case
    <3>1. results[o].by \in Runs /\ c = Evidence(results[o].by).case
      BY <2>2 DEF CInv, Authors
    <3>2. results[n].snapshot.case = Evidence(r).case
      BY <1>3 DEF CInv, Authors
    <3> QED
      BY <1>2, <1>5, <2>1, <2>2, <3>1, <3>2, Runners DEF Meets
  <2>4. o \in Newest(c)
    <3>1. o \in ResultsOf(c)
      BY <2>2, CaseResults
    <3>2. ASSUME NEW j \in ResultsOf(c) PROVE j <= o
      <4>1. j \in DOMAIN results /\ results[j].snapshot.case = c
        BY CaseResults
      <4>2. j \notin o + 1 .. n - 1 /\ j # n
        BY <1>5, <2>1, <2>2, <4>1 DEF Meets
      <4> QED
        BY <1>4, <4>1, <4>2
    <3> QED
      BY <3>1, <3>2 DEF Newest
  <2>5. o \in others
    BY <2>3, <2>4
  <2> QED
    BY <1>5, <2>1, <2>5 DEF Link
<1>6. x.at = "connecting" /\ DOMAIN x = {"at", "result", "pending"} /\ x.result = n /\ x.pending = found
  OBVIOUS
<1> HIDE DEF x, found, n
<1> QED
  BY <1>1, <1>2, <1>5, <1>6, ConnectedLate DEF n

LEMMA ConnectedSaveConnection == ASSUME CInv, NEW r \in Run, SaveConnection(r) PROVE CInv'
<1>1. /\ run[r].at = "connecting" /\ DOMAIN run[r] = {"at", "result", "pending"}
      /\ UNCHANGED <<scene, results>>
  BY DEF SaveConnection, CInv, Stages
<1>2. ASSUME NEW p \in DOMAIN results, NEW o \in DOMAIN results, results[p].by = r, Meets(p, o),
             NEW k \in Keys(p) \cap Keys(o)
      PROVE  Link(p, o, k) \in connections \cup run[r].pending
  BY <1>1, <1>2 DEF CInv, Connected
<1>3. CASE run[r].pending = {}
  <2> DEFINE x == [at |-> "ended"]
  <2>1. "at" \in DOMAIN x /\ x.at = "ended" /\ Set(r, x) /\ connections' = connections
    BY <1>3 DEF SaveConnection
  <2> HIDE DEF x
  <2> QED
    BY <1>1, <1>2, <1>3, <2>1, ConnectedLate
<1>4. CASE run[r].pending # {}
  <2>1. PICK l \in run[r].pending :
          connections' = connections \cup {l} /\ Set(r, [run[r] EXCEPT !.pending = @ \ {l}])
    BY <1>4 DEF SaveConnection
  <2> DEFINE x == [run[r] EXCEPT !.pending = @ \ {l}]
  <2>2. /\ DOMAIN x = {"at", "result", "pending"} /\ x.at = "connecting" /\ x.result = run[r].result
        /\ x.pending = run[r].pending \ {l}
    BY <1>1
  <2>3. Set(r, x)
    BY <2>1
  <2> HIDE DEF x
  <2> QED
    BY <1>1, <1>2, <2>1, <2>2, <2>3, ConnectedLate
<1> QED
  BY <1>3, <1>4

LEMMA ConnectedRunLost == ASSUME CInv, NEW r \in Run, RunLost(r) PROVE CInv'
<1> DEFINE x == [at |-> "lost"]
<1>1. "at" \in DOMAIN x /\ x.at = "lost" /\ Set(r, x) /\ UNCHANGED <<scene, results, connections>>
  BY DEF RunLost, tables
<1> HIDE DEF x
<1>2. CASE run[r].at \in Early
  BY <1>1, <1>2, ConnectedEarly DEF Waiting
<1>3. CASE run[r].at \in {"indexing", "connecting"}
  BY <1>1, <1>3, ConnectedLate
<1> QED
  BY <1>2, <1>3 DEF RunLost, CInv, Stages, Early, Late

\* A sequence stays one when it grows.
LEMMA Appended ==
  ASSUME NEW s, IsSequence(s), NEW e, NEW t, Grown(s, e, t)
  PROVE  /\ IsSequence(t) /\ Len(s) \in Nat /\ Len(t) = Len(s) + 1
         /\ DOMAIN s = 1 .. Len(s) /\ DOMAIN t = 1 .. Len(s) + 1
         /\ t[Len(s) + 1] = e /\ \A k \in 1 .. Len(s) : t[k] = s[k]
         /\ \A k \in DOMAIN t : k = Len(s) + 1 \/ k \in 1 .. Len(s)
<1> DEFINE n == Len(s)
           old == ElementsOf(s)
<1>1. s \in Seq(old) /\ n \in Nat /\ DOMAIN s = 1 .. n
  BY DEF IsSequence
<1>2. s \in [1 .. n -> old \cup {e}]
  <2> HIDE DEF old, n
  <2> QED
    BY <1>1 DEF n
<1>3. s \in Seq(old \cup {e})
  <2> HIDE DEF old
  <2> QED
    BY <1>1, <1>2
<1>4. /\ t \in Seq(old \cup {e}) /\ DOMAIN t = 1 .. n + 1
      /\ t[n + 1] = e /\ \A k \in 1 .. n : t[k] = s[k]
  <2> HIDE DEF old
  <2> QED
    BY <1>1, <1>3 DEF Grown
<1>5. IsSequence(t)
  <2>1. t = [k \in 1 .. n + 1 |-> t[k]]
    <3> DEFINE elements == old \cup {e}
    <3>1. t \in Seq(elements) /\ DOMAIN t = 1 .. n + 1
      BY <1>4
    <3> HIDE DEF elements, n
    <3> QED
      BY <3>1
  <2>2. \A k \in 1 .. n + 1 : t[k] \in ElementsOf(t)
    BY <1>4 DEF ElementsOf
  <2>3. t \in [1 .. n + 1 -> ElementsOf(t)]
    BY <2>1, <2>2
  <2>4. n + 1 \in Nat
    BY <1>1
  <2>5. ASSUME NEW m \in Nat, NEW S, t \in [1 .. m -> S] PROVE t \in Seq(S)
    BY <2>5
  <2> HIDE DEF n
  <2> QED
    BY <2>3, <2>4, <2>5 DEF IsSequence
<1>6. \A k \in 1 .. n + 1 : k = n + 1 \/ k \in 1 .. n
  BY <1>1
<1> QED
  BY <1>1, <1>4, <1>5, <1>6

LEMMA ConnectedSaveResult == ASSUME CInv, NEW r \in Runs, SaveResult(r) PROVE CInv'
<1> DEFINE n == Len(results)
           entry == [snapshot |-> Snapshot(r), by |-> r, base |-> run[r].base, noted |-> Len(desk), registry |-> registry]
           x == [at |-> "indexing", result |-> n + 1]
           old == [at |-> "ended"]
<1>1. r \in Run /\ run[r].at = "attributing" /\ scene' = scene /\ connections' = connections
  BY Runners DEF CInv, SaveResult
<1>2. \/ Set(r, old) /\ results' = results
      \/ results' = Append(results, entry) /\ Set(r, x)
  BY DEF SaveResult
<1>3. "at" \in DOMAIN old /\ old.at = "ended"
  OBVIOUS
<1>4. DOMAIN x = {"at", "result"} /\ x.at = "indexing" /\ x.result = n + 1
  OBVIOUS
<1>5. entry.by = r /\ entry.snapshot.case = Evidence(r).case
  BY DEF Snapshot
<1> HIDE DEF x, old, entry
<1>6. CASE Set(r, old) /\ results' = results
  BY <1>1, <1>3, <1>6, ConnectedEarly DEF Early, Waiting
<1>7. CASE results' = Append(results, entry) /\ Set(r, x)
  <2>1. DOMAIN run' = Run /\ run'[r] = x /\ \A q \in Run \ {r} : run'[q] = run[q]
    BY <1>1, <1>7 DEF Set, CInv, Stages
  <2>2. \A p \in DOMAIN results : results[p].by # r /\ results[p].by \in Run
    BY <1>1, Runners DEF CInv, Authors, Late
  <2>3. Grown(results, entry, results') /\ IsSequence(results)
    BY <1>7 DEF Grown, CInv, Authors
  <2>4. /\ IsSequence(results') /\ n \in Nat /\ Len(results') = n + 1
        /\ DOMAIN results = 1 .. n /\ DOMAIN results' = 1 .. n + 1
        /\ results'[n + 1] = entry /\ \A k \in 1 .. n : results'[k] = results[k]
        /\ \A k \in DOMAIN results' : k = n + 1 \/ k \in 1 .. n
    BY <2>3, Appended
  <2> HIDE DEF n
  <2>5. \A q \in Run \ {r} : run[q].at \in Waiting
    BY <1>1 DEF CInv, Exclusive, Waiting
  <2>6. World' /\ Stages'
    BY <1>1, <1>4, <2>1 DEF CInv, World, Stages, Early, Late
  <2>7. Exclusive'
    BY <2>1, <2>5 DEF Exclusive
  <2>8. Authors'
    <3>1. ASSUME NEW p \in DOMAIN results'
          PROVE  /\ results'[p].by \in Runs /\ run'[results'[p].by].at \in Late
                 /\ results'[p].snapshot.case = Evidence(results'[p].by).case
      <4>1. CASE p = n + 1
        BY <1>4, <1>5, <2>1, <2>4, <4>1, Runners DEF Late
      <4>2. CASE p \in 1 .. n
        BY <2>1, <2>2, <2>4, <4>2 DEF CInv, Authors
      <4> QED
        BY <2>4, <4>1, <4>2
    <3>2. ASSUME NEW p \in DOMAIN results', NEW q \in DOMAIN results', results'[p].by = results'[q].by
          PROVE  p = q
      <4>1. CASE p \in 1 .. n /\ q \in 1 .. n
        BY <2>4, <3>2, <4>1 DEF CInv, Authors
      <4>2. CASE p = n + 1 \/ q = n + 1
        BY <1>5, <2>2, <2>4, <3>2, <4>2
      <4> QED
        BY <2>4, <4>1, <4>2
    <3>3. Runs' = Runs /\ \A q : Evidence(q)' = Evidence(q)
      BY <1>1 DEF Runs, Evidence
    <3>4. IsSequence(results)'
      BY <2>4 DEF IsSequence, ElementsOf
    <3> QED
      BY <3>1, <3>2, <3>3, <3>4 DEF Authors
  <2>9. Indexing'
    <3>1. \A q \in Run \ {r} : run'[q].at \notin {"indexing", "connecting"}
      BY <2>1, <2>5 DEF Waiting
    <3>2. run'[r].result = n + 1 /\ n + 1 \in DOMAIN results' /\ results'[n + 1].by = r
      BY <1>4, <1>5, <2>1, <2>4
    <3> QED
      BY <2>4, <3>1, <3>2 DEF Indexing
  <2>10. Connected'
    <3>1. ASSUME NEW p \in DOMAIN results', NEW o \in DOMAIN results', Meets(p, o)',
                 NEW k \in Keys(p)' \cap Keys(o)'
          PROVE  /\ run'[results'[p].by].at = "ended" => Link(p, o, k) \in connections'
                 /\ run'[results'[p].by].at = "connecting" =>
                      Link(p, o, k) \in connections' \cup run'[results'[p].by].pending
      <4>1. CASE p = n + 1
        BY <1>4, <1>5, <2>1, <2>4, <4>1
      <4>2. CASE p \in 1 .. n
        <5>1. o \in 1 .. n /\ o < p
          BY <2>4, <3>1, <4>2 DEF Meets
        <5>2. results'[p] = results[p] /\ results'[o] = results[o]
          BY <2>4, <4>2, <5>1
        <5>3. Meets(p, o)
          BY <2>4, <3>1, <4>2, <5>1, <5>2 DEF Meets
        <5>4. k \in Keys(p) \cap Keys(o)
          BY <3>1, <5>2, Zenon DEF Keys
        <5>5. run'[results[p].by] = run[results[p].by]
          BY <2>1, <2>2, <2>4, <4>2
        <5> QED
          BY <1>1, <2>4, <4>2, <5>1, <5>2, <5>3, <5>4, <5>5 DEF CInv, Connected
      <4> QED
        BY <2>4, <4>1, <4>2
    <3> QED
      BY <3>1 DEF Connected, Link
  <2> QED
    BY <2>6, <2>7, <2>8, <2>9, <2>10 DEF CInv
<1> QED
  BY <1>2, <1>6, <1>7

LEMMA ConnectedNext == ASSUME CInv, [Next]_vars PROVE CInv'
<1>1. ASSUME NEW r \in Runs, RunStep(r) PROVE CInv'
  <2>1. r \in Run
    BY Runners DEF CInv
  <2> QED
    BY <1>1, <2>1, ConnectedRunLost, ConnectedStartRun, ConnectedTraceTransfer, ConnectedEndTrace, ConnectedInferAddress,
       ConnectedSaveInference, ConnectedAssertInference, ConnectedEndInference, ConnectedGroupTerminal,
       ConnectedBuildCandidate, ConnectedSaveResult, ConnectedIndexCases, ConnectedSaveConnection DEF RunStep
<1>2. CASE DeskStep
  BY <1>2, ConnectedElsewhere DEF DeskStep, PostAssertion, ReviewAssertion, UpdateStatus, RegisterProfile
<1>3. ASSUME NEW q \in Request, RequestStep(q) PROVE CInv'
  BY <1>3, ConnectedElsewhere DEF RequestStep, AskForDraft, SaveDraft, tables
<1>4. CASE UNCHANGED vars
  BY <1>4, ConnectedElsewhere DEF vars, tables
<1> QED
  BY <1>1, <1>2, <1>3, <1>4 DEF Next

\* For any runs, cases and evidence, and wherever runs break off: a result whose run came
\* to its end is connected, under everything they share, to the result that was the newest
\* of each other case when it was saved (results_v2.py, create; case_connections_v2.py, index).
THEOREM CasesFindEachOther == Spec => []ConnectionsComplete
<1>1. CInv => ConnectionsComplete
  BY DEF CInv, Connected, ConnectionsComplete, Meets, Link
<1>2. CInv /\ [Next]_vars => CInv'
  BY ConnectedNext
<1> QED
  BY <1>1, <1>2, ConnectedStart, PTL DEF Spec

-----------------------------------------------------------------------------
(* The registry and the desk *)

\* What the resolver and the scores read of an assertion.
Entry(a) ==
  /\ a.type \in {"VERIFIED", "RULE_INFERRED", "ML_INFERRED"} /\ a.role \in ActionableRoles \cup {"OTHER"}
  /\ a.state \in {"UNREVIEWED", "REVIEWED", "REJECTED"} /\ a.stale \in Nat

\* What the desk decides of an assertion.
Ruling == {"post", "review"}

\* What is reviewed in the registry was accepted.
Registered ==
  /\ IsSequence(registry) /\ IsSequence(desk)
  /\ \A k \in DOMAIN registry :
       "state" \in DOMAIN registry[k] /\ Entry(registry[k]) /\ (registry[k].state = "REVIEWED" => Accepted(k, Len(desk)))
  /\ \A j \in DOMAIN desk : desk[j].kind \in Ruling => desk[j].target \in DOMAIN registry

\* What a step may do to the registry and the desk: only a review changes an assertion, and
\* only the desk adds a verified one.
Kept ==
  /\ DOMAIN registry \subseteq DOMAIN registry'
  /\ \A k \in DOMAIN registry :
       /\ registry'[k].address = registry[k].address /\ registry'[k].entity = registry[k].entity
       /\ registry'[k].type = registry[k].type /\ registry'[k].role = registry[k].role
       /\ registry'[k].stale = registry[k].stale /\ registry'[k].source = registry[k].source
  /\ Len(desk) \in Nat /\ Len(desk') \in Nat /\ Len(desk) <= Len(desk')
  /\ \A j \in 1 .. Len(desk) : desk'[j] = desk[j]
  /\ \A k \in DOMAIN registry : registry'[k].state # registry[k].state =>
       \E j \in Len(desk) + 1 .. Len(desk') : desk'[j].kind \in Ruling /\ desk'[j].target = k
  /\ \A k \in DOMAIN registry' \ DOMAIN registry : registry'[k].type = "VERIFIED" =>
       \E j \in Len(desk) + 1 .. Len(desk') : desk'[j].kind \in Ruling /\ desk'[j].target = k
  /\ \A j \in DOMAIN desk : desk[j].kind \in Ruling => desk[j].target \in DOMAIN registry
  /\ DOMAIN desk = 1 .. Len(desk)
  /\ scene' = scene

\* A function on an interval from one is a sequence.
LEMMA SequenceIs ==
  ASSUME NEW t, NEW n \in Nat, DOMAIN t = 1 .. n, t = [k \in 1 .. n |-> t[k]]
  PROVE  IsSequence(t) /\ Len(t) = n
<1>1. \A k \in 1 .. n : t[k] \in ElementsOf(t)
  BY DEF ElementsOf
<1>2. t \in [1 .. n -> ElementsOf(t)]
  BY <1>1
<1>3. ASSUME NEW S, t \in [1 .. n -> S] PROVE t \in Seq(S)
  BY <1>3
<1>4. t \in Seq(ElementsOf(t))
  BY <1>2, <1>3
<1> QED
  BY <1>4 DEF IsSequence

LEMMA SequenceOf == ASSUME NEW S, NEW s \in Seq(S) PROVE IsSequence(s)
<1>1. Len(s) \in Nat /\ DOMAIN s = 1 .. Len(s) /\ s = [k \in 1 .. Len(s) |-> s[k]]
  OBVIOUS
<1> QED
  BY <1>1, SequenceIs

LEMMA EmptySequence == IsSequence(<< >>) /\ DOMAIN << >> = {}
<1>1. << >> \in Seq({}) /\ DOMAIN << >> = {}
  OBVIOUS
<1> QED
  BY <1>1, SequenceOf

LEMMA SequenceDomain ==
  ASSUME NEW s, IsSequence(s) PROVE Len(s) \in Nat /\ DOMAIN s = 1 .. Len(s) /\ s = [k \in 1 .. Len(s) |-> s[k]]
BY DEF IsSequence

\* What was accepted stays accepted, and what was reconsidered, reconsidered.
LEMMA AcceptedStays ==
  ASSUME Kept, NEW k, NEW m \in 0 .. Len(desk), NEW n \in Nat, m <= n, n <= Len(desk'), Accepted(k, m)
  PROVE  Accepted(k, n)'
<1>1. \A j \in 1 .. m : j \in 1 .. n /\ desk'[j] = desk[j]
  BY DEF Kept
<1> QED
  BY <1>1 DEF Accepted, Kept

LEMMA ReconsideredStays ==
  ASSUME Kept, NEW a, NEW m \in Nat, NEW u \in 0 .. Len(desk), NEW n \in Nat, u <= n, n <= Len(desk'),
         Reconsidered(a, m, u)
  PROVE  Reconsidered(a, m, n)'
<1>1. PICK j \in m + 1 .. u : desk[j].kind \in Ruling /\ registry[desk[j].target].address = a
  BY DEF Reconsidered, Ruling
<1>2. j \in m + 1 .. n /\ j \in DOMAIN desk /\ desk'[j] = desk[j]
  BY <1>1 DEF Kept
<1>3. desk[j].target \in DOMAIN registry
  BY <1>1, <1>2 DEF Kept
<1>4. registry'[desk[j].target].address = a
  BY <1>1, <1>3 DEF Kept
<1> QED
  BY <1>1, <1>2, <1>4 DEF Reconsidered, Ruling

\* A decision on an assertion of the address reconsiders it.
LEMMA RulingReconsiders ==
  ASSUME Kept, NEW a, NEW m \in 0 .. Len(desk), NEW k \in DOMAIN registry', registry'[k].address = a,
         \/ k \in DOMAIN registry /\ registry'[k].state # registry[k].state
         \/ k \notin DOMAIN registry /\ registry'[k].type = "VERIFIED"
  PROVE  Reconsidered(a, m, Len(desk))'
<1>1. PICK j \in Len(desk) + 1 .. Len(desk') : desk'[j].kind \in Ruling /\ desk'[j].target = k
  BY DEF Kept
<1>2. j \in m + 1 .. Len(desk')
  BY DEF Kept
<1> QED
  BY <1>1, <1>2 DEF Reconsidered, Ruling

LEMMA RegisteredStart == Init => Registered
<1> SUFFICES ASSUME Init PROVE Registered
  OBVIOUS
<1>1. scene \in Scenes /\ registry = scene.assertions /\ desk = << >>
  BY DEF Init
<1>2. registry \in Seq(Label)
  BY <1>1, ConclusionsAssumption
<1>3. IsSequence(registry) /\ IsSequence(desk) /\ DOMAIN desk = {}
  BY <1>1, <1>2, SequenceOf, EmptySequence
<1>4. ASSUME NEW k \in DOMAIN registry
      PROVE  "state" \in DOMAIN registry[k] /\ Entry(registry[k]) /\ (registry[k].state = "REVIEWED" => Accepted(k, Len(desk)))
  <2>1. registry[k] \in Label
    BY <1>2
  <2>2. "state" \in DOMAIN registry[k] /\ Entry(registry[k])
    BY <2>1 DEF Label, Entry
  <2> QED
    BY <1>1, <2>2 DEF Accepted
<1> QED
  BY <1>3, <1>4 DEF Registered

\* Anyone who does not touch the registry and the desk.
LEMMA RegistryElsewhere ==
  ASSUME Registered, UNCHANGED <<scene, registry, desk>> PROVE Registered' /\ Kept
<1>1. Len(desk) \in Nat /\ DOMAIN desk = 1 .. Len(desk)
  BY SequenceDomain DEF Registered
<1>2. Registered'
  BY DEF Registered, IsSequence, ElementsOf, Accepted
<1> QED
  BY <1>1, <1>2 DEF Kept, Registered

LEMMA RegistryGrows ==
  ASSUME Registered, NEW e, Grown(registry, e, registry'), UNCHANGED <<scene, desk>>,
         "state" \in DOMAIN e, Entry(e), e.state = "UNREVIEWED", e.type # "VERIFIED"
  PROVE  Registered' /\ Kept
<1> DEFINE n == Len(registry)
<1>1. IsSequence(registry) /\ Len(desk) \in Nat /\ DOMAIN desk = 1 .. Len(desk)
  BY SequenceDomain DEF Registered
<1>2. /\ IsSequence(registry') /\ DOMAIN registry = 1 .. n /\ DOMAIN registry' = 1 .. n + 1 /\ n \in Nat
      /\ registry'[n + 1] = e /\ \A k \in 1 .. n : registry'[k] = registry[k]
      /\ \A k \in DOMAIN registry' : k = n + 1 \/ k \in 1 .. n
  BY <1>1, Appended
<1> HIDE DEF n
<1>3. Kept
  BY <1>1, <1>2 DEF Kept, Registered
<1>4. \A k : Accepted(k, Len(desk))' <=> Accepted(k, Len(desk))
  BY DEF Accepted
<1>5. Registered'
  <2>1. ASSUME NEW k \in DOMAIN registry'
        PROVE  /\ "state" \in DOMAIN registry'[k] /\ Entry(registry'[k])
               /\ registry'[k].state = "REVIEWED" => Accepted(k, Len(desk))'
    BY <1>2, <1>4 DEF Registered
  <2>2. IsSequence(registry)' /\ IsSequence(desk)'
    BY <1>2 DEF Registered, IsSequence, ElementsOf
  <2>3. \A j \in DOMAIN desk' : desk'[j].kind \in Ruling => desk'[j].target \in DOMAIN registry'
    BY <1>2 DEF Registered
  <2> QED
    BY <2>1, <2>2, <2>3 DEF Registered, Entry
<1> QED
  BY <1>3, <1>5

LEMMA RegistryAssertInference == ASSUME Registered, NEW r, AssertInference(r) PROVE Registered' /\ Kept
<1>1. UNCHANGED <<scene, desk>>
  BY DEF AssertInference
<1>2. CASE registry' = registry
  BY <1>1, <1>2, RegistryElsewhere
<1>3. CASE registry' # registry
  <2>1. PICK i \in run[r].saved : registry' = Append(registry, InferredAssertion(i))
    BY <1>3 DEF AssertInference
  <2> DEFINE e == InferredAssertion(i)
  <2>2. "state" \in DOMAIN e /\ e.state = "UNREVIEWED" /\ e.type = "RULE_INFERRED" /\ Entry(e)
    BY ConclusionsAssumption DEF InferredAssertion, Entry, ActionableRoles
  <2>3. Grown(registry, e, registry')
    BY <2>1 DEF Grown
  <2> HIDE DEF e
  <2> QED
    BY <1>1, <2>2, <2>3, RegistryGrows
<1> QED
  BY <1>2, <1>3

\* What the desk decides is written down.
LEMMA DeskGrows ==
  ASSUME Registered, NEW e, Grown(desk, e, desk')
  PROVE  /\ IsSequence(desk)' /\ Len(desk) \in Nat /\ Len(desk') = Len(desk) + 1
         /\ DOMAIN desk = 1 .. Len(desk) /\ DOMAIN desk' = 1 .. Len(desk) + 1
         /\ desk'[Len(desk) + 1] = e /\ \A j \in 1 .. Len(desk) : desk'[j] = desk[j]
         /\ \A j \in DOMAIN desk' : j = Len(desk) + 1 \/ j \in 1 .. Len(desk)
         /\ \A k : scene' = scene /\ Accepted(k, Len(desk)) => Accepted(k, Len(desk))'
<1>1. IsSequence(desk)
  BY DEF Registered
<1>2. /\ IsSequence(desk)' /\ Len(desk) \in Nat /\ Len(desk') = Len(desk) + 1
      /\ DOMAIN desk = 1 .. Len(desk) /\ DOMAIN desk' = 1 .. Len(desk) + 1
      /\ desk'[Len(desk) + 1] = e /\ \A j \in 1 .. Len(desk) : desk'[j] = desk[j]
      /\ \A j \in DOMAIN desk' : j = Len(desk) + 1 \/ j \in 1 .. Len(desk)
  BY <1>1, Appended DEF IsSequence, ElementsOf
<1>3. \A k : scene' = scene /\ Accepted(k, Len(desk)) => Accepted(k, Len(desk))'
  BY <1>2 DEF Accepted
<1> QED
  BY <1>2, <1>3

LEMMA RegistryReview ==
  ASSUME Registered, NEW k \in DOMAIN registry, NEW s \in {"REVIEWED", "REJECTED"}, ReviewAssertion(k, s)
  PROVE  Registered' /\ Kept
<1> DEFINE e == [kind |-> "review", target |-> k, state |-> s]
           m == Len(desk)
<1>1. registry' = [registry EXCEPT ![k].state = s] /\ Grown(desk, e, desk') /\ scene' = scene
  BY DEF ReviewAssertion, Decide, Grown
<1>2. /\ IsSequence(desk)' /\ m \in Nat /\ Len(desk') = m + 1
      /\ DOMAIN desk = 1 .. m /\ DOMAIN desk' = 1 .. m + 1
      /\ desk'[m + 1] = e /\ \A j \in 1 .. m : desk'[j] = desk[j]
      /\ \A j \in DOMAIN desk' : j = m + 1 \/ j \in 1 .. m
      /\ \A j : Accepted(j, Len(desk)) => Accepted(j, Len(desk))'
  <2> HIDE DEF e
  <2> QED
    BY <1>1, DeskGrows
<1>3. Len(registry) \in Nat /\ DOMAIN registry = 1 .. Len(registry)
  BY SequenceDomain DEF Registered
<1>4. /\ DOMAIN registry' = 1 .. Len(registry)
      /\ registry' = [j \in 1 .. Len(registry) |-> registry'[j]]
      /\ \A j \in DOMAIN registry \ {k} : registry'[j] = registry[j]
      /\ registry'[k] = [registry[k] EXCEPT !.state = s]
  BY <1>1, <1>3
<1>5. IsSequence(registry)'
  <2>1. IsSequence(registry')
    BY <1>3, <1>4, SequenceIs
  <2> QED
    BY <2>1 DEF IsSequence, ElementsOf
<1>6. /\ registry'[k].address = registry[k].address /\ registry'[k].entity = registry[k].entity
      /\ registry'[k].type = registry[k].type /\ registry'[k].role = registry[k].role
      /\ registry'[k].stale = registry[k].stale /\ registry'[k].source = registry[k].source
      /\ registry'[k].state = s /\ "state" \in DOMAIN registry'[k] /\ Entry(registry'[k])
  BY <1>4 DEF Registered, Entry
<1>7. Kept
  <2>1. e.kind \in Ruling /\ e.target = k
    BY DEF Ruling
  <2>2. m + 1 \in Len(desk) + 1 .. Len(desk')
    BY <1>2
  <2>3. ASSUME NEW j \in DOMAIN registry, registry'[j].state # registry[j].state
        PROVE  \E n \in Len(desk) + 1 .. Len(desk') : desk'[n].kind \in Ruling /\ desk'[n].target = j
    BY <1>2, <1>4, <2>1, <2>2, <2>3
  <2>4. Len(desk) <= Len(desk') /\ Len(desk') \in Nat
    BY <1>2
  <2>5. DOMAIN registry' = DOMAIN registry
    BY <1>3, <1>4
  <2>6. \A j \in DOMAIN desk : desk[j].kind \in Ruling => desk[j].target \in DOMAIN registry
    BY DEF Registered
  <2> HIDE DEF e, m
  <2> QED
    BY <1>1, <1>2, <1>4, <1>6, <2>3, <2>4, <2>5, <2>6 DEF Kept, m
<1>8. Registered'
  <2>1. ASSUME s = "REVIEWED" PROVE Accepted(k, Len(desk))'
    <3>1. m + 1 \in 1 .. Len(desk') /\ desk'[m + 1] = [kind |-> "review", target |-> k, state |-> "REVIEWED"]
      BY <1>2, <2>1
    <3> QED
      BY <3>1 DEF Accepted, Ruling
  <2>2. ASSUME NEW j \in DOMAIN registry'
        PROVE  /\ "state" \in DOMAIN registry'[j] /\ Entry(registry'[j])
               /\ registry'[j].state = "REVIEWED" => Accepted(j, Len(desk))'
    BY <1>2, <1>3, <1>4, <1>6, <2>1 DEF Registered
  <2>3. \A j \in DOMAIN desk' : desk'[j].kind \in Ruling => desk'[j].target \in DOMAIN registry'
    <3>1. e.target = k
      OBVIOUS
    <3> HIDE DEF e
    <3> QED
      BY <1>2, <1>3, <1>4, <3>1 DEF Registered
  <2> QED
    BY <1>2, <1>5, <2>2, <2>3 DEF Registered, Entry
<1> QED
  BY <1>7, <1>8

\* What is posted comes with its state, which the desk writes down.
LEMMA RegistryPost == ASSUME World, Registered, NEW l \in scene.posted, PostAssertion(l) PROVE Registered' /\ Kept
<1> DEFINE n == Len(registry)
           e == [kind |-> "post", target |-> n + 1, state |-> l.state]
           m == Len(desk)
<1>1. Grown(registry, l, registry') /\ Grown(desk, e, desk') /\ scene' = scene
  BY DEF PostAssertion, Decide, Grown
<1>2. /\ IsSequence(desk)' /\ m \in Nat /\ Len(desk') = m + 1
      /\ DOMAIN desk = 1 .. m /\ DOMAIN desk' = 1 .. m + 1
      /\ desk'[m + 1] = e /\ \A j \in 1 .. m : desk'[j] = desk[j]
      /\ \A j \in DOMAIN desk' : j = m + 1 \/ j \in 1 .. m
      /\ \A j : Accepted(j, Len(desk)) => Accepted(j, Len(desk))'
  <2> HIDE DEF e
  <2> QED
    BY <1>1, DeskGrows
<1>3. /\ IsSequence(registry') /\ DOMAIN registry = 1 .. n /\ DOMAIN registry' = 1 .. n + 1 /\ n \in Nat
      /\ registry'[n + 1] = l /\ \A k \in 1 .. n : registry'[k] = registry[k]
      /\ \A k \in DOMAIN registry' : k = n + 1 \/ k \in 1 .. n
  <2>1. IsSequence(registry)
    BY DEF Registered
  <2> HIDE DEF e
  <2> QED
    BY <1>1, <2>1, Appended
<1>4. "state" \in DOMAIN l /\ Entry(l)
  BY ConclusionsAssumption DEF World, Label, Entry
<1>5. e.kind \in Ruling /\ e.target = n + 1 /\ e.state = l.state
  BY DEF Ruling
<1> HIDE DEF e, m, n
<1>6. m + 1 \in Len(desk) + 1 .. Len(desk') /\ m + 1 \in 1 .. Len(desk') /\ Len(desk) <= Len(desk') /\ Len(desk') \in Nat
  BY <1>2 DEF m
<1>7. \A j \in DOMAIN desk : desk[j].kind \in Ruling => desk[j].target \in DOMAIN registry
  BY DEF Registered
<1>8. Kept
  <2>1. ASSUME NEW k \in DOMAIN registry' \ DOMAIN registry
        PROVE  \E j \in Len(desk) + 1 .. Len(desk') : desk'[j].kind \in Ruling /\ desk'[j].target = k
    BY <1>2, <1>3, <1>5, <1>6, <2>1
  <2>2. DOMAIN registry \subseteq DOMAIN registry' /\ \A k \in DOMAIN registry : registry'[k] = registry[k]
    BY <1>3
  <2>3. DOMAIN desk = 1 .. Len(desk) /\ \A j \in 1 .. Len(desk) : desk'[j] = desk[j]
    BY <1>2 DEF m
  <2>4. Len(desk) \in Nat
    BY <1>2 DEF m
  <2> QED
    BY <1>1, <1>6, <1>7, <2>1, <2>2, <2>3, <2>4 DEF Kept
<1>9. Registered'
  <2>1. ASSUME NEW k, k = n + 1, l.state = "REVIEWED" PROVE Accepted(k, Len(desk))'
    BY <1>2, <1>5, <1>6, <2>1 DEF Accepted, Ruling
  <2>2. ASSUME NEW k \in DOMAIN registry'
        PROVE  /\ "state" \in DOMAIN registry'[k] /\ Entry(registry'[k])
               /\ registry'[k].state = "REVIEWED" => Accepted(k, Len(desk))'
    <3>1. CASE k = n + 1
      BY <1>3, <1>4, <2>1, <3>1
    <3>2. CASE k \in 1 .. n
      BY <1>2, <1>3, <3>2 DEF Registered
    <3> QED
      BY <1>3, <3>1, <3>2
  <2>3. IsSequence(registry)'
    BY <1>3 DEF IsSequence, ElementsOf
  <2>4. \A j \in DOMAIN desk' : desk'[j].kind \in Ruling => desk'[j].target \in DOMAIN registry'
    <3>1. n + 1 \in DOMAIN registry' /\ DOMAIN registry \subseteq DOMAIN registry'
      BY <1>3
    <3> QED
      BY <1>2, <1>5, <1>7, <3>1
  <2> QED
    BY <1>2, <2>2, <2>3, <2>4 DEF Registered, Entry
<1> QED
  BY <1>8, <1>9

\* What the desk decides of cases and profiles leaves the registry alone.
LEMMA RegistryDecide ==
  ASSUME Registered, NEW e, Grown(desk, e, desk'), e.kind \notin Ruling, UNCHANGED <<scene, registry>>
  PROVE  Registered' /\ Kept
<1> DEFINE m == Len(desk)
<1>1. /\ IsSequence(desk)' /\ m \in Nat /\ Len(desk') = m + 1
      /\ DOMAIN desk = 1 .. m /\ DOMAIN desk' = 1 .. m + 1
      /\ desk'[m + 1] = e /\ \A j \in 1 .. m : desk'[j] = desk[j]
      /\ \A j \in DOMAIN desk' : j = m + 1 \/ j \in 1 .. m
      /\ \A j : Accepted(j, Len(desk)) => Accepted(j, Len(desk))'
  BY DeskGrows
<1>2. Len(desk) <= Len(desk') /\ Len(desk') \in Nat /\ IsSequence(registry)'
  BY <1>1 DEF Registered, IsSequence, ElementsOf
<1>3. \A j \in DOMAIN desk' : desk'[j].kind \in Ruling => desk'[j].target \in DOMAIN registry
  BY <1>1 DEF Registered
<1> QED
  BY <1>1, <1>2, <1>3 DEF Kept, Registered, Entry

LEMMA RegistryStep == ASSUME World, Registered, [Next]_vars PROVE Registered' /\ Kept
<1>1. ASSUME NEW r \in Runs, RunStep(r) PROVE Registered' /\ Kept
  <2>1. CASE AssertInference(r)
    BY <2>1, RegistryAssertInference
  <2>2. CASE ~ AssertInference(r)
    BY <1>1, <2>2, RegistryElsewhere, Zenon
    DEF RunStep, tables, StartRun, TraceTransfer, EndTrace, InferAddress, SaveInference, EndInference, GroupTerminal,
        BuildCandidate, SaveResult, IndexCases, SaveConnection, RunLost
  <2> QED
    BY <2>1, <2>2
<1>2. CASE DeskStep
  <2>1. ASSUME NEW k \in DOMAIN registry, NEW s \in {"REVIEWED", "REJECTED"}, ReviewAssertion(k, s)
        PROVE  Registered' /\ Kept
    BY <2>1, RegistryReview
  <2>2. ASSUME NEW c, NEW s, UpdateStatus(c, s) PROVE Registered' /\ Kept
    <3> DEFINE e == [kind |-> "status", target |-> c, state |-> s]
    <3>1. Grown(desk, e, desk') /\ e.kind \notin Ruling /\ UNCHANGED <<scene, registry>>
      BY <2>2 DEF UpdateStatus, Decide, Grown, Ruling
    <3> HIDE DEF e
    <3> QED
      BY <3>1, RegistryDecide
  <2>3. ASSUME NEW c, NEW s, RegisterProfile(c, s) PROVE Registered' /\ Kept
    <3> DEFINE e == [kind |-> "profile", target |-> c, state |-> s]
    <3>1. Grown(desk, e, desk') /\ e.kind \notin Ruling /\ UNCHANGED <<scene, registry>>
      BY <2>3 DEF RegisterProfile, Decide, Grown, Ruling
    <3> HIDE DEF e
    <3> QED
      BY <3>1, RegistryDecide
  <2>4. ASSUME NEW l \in scene.posted, PostAssertion(l) PROVE Registered' /\ Kept
    BY <2>4, RegistryPost
  <2> QED
    BY <1>2, <2>1, <2>2, <2>3, <2>4 DEF DeskStep
<1>3. ASSUME NEW q \in Request, RequestStep(q) PROVE Registered' /\ Kept
  BY <1>3, RegistryElsewhere DEF RequestStep, AskForDraft, SaveDraft, tables
<1>4. CASE UNCHANGED vars
  BY <1>4, RegistryElsewhere DEF vars, tables
<1> QED
  BY <1>1, <1>2, <1>3, <1>4 DEF Next

-----------------------------------------------------------------------------
(* The trace *)

\* The fields of a run at each stage.
Shape(x) ==
  /\ x.at = "tracing" => DOMAIN x = {"at", "next", "base", "allocations", "terminals", "held"}
  /\ x.at \in {"inferring", "asserting"} =>
       DOMAIN x = {"at", "base", "allocations", "terminals", "pending", "saved", "inferred", "todo"}
  /\ x.at = "attributing" =>
       DOMAIN x = {"at", "base", "allocations", "terminals", "inferred", "next", "groups", "candidates"}

Shapes == \A r \in Run : Shape(run[r])

Carrying == {"tracing", "inferring", "asserting", "attributing"}

\* The allocations of a trace: transfers in their order, each funded by earlier ones or the seed.
Allocated(ts, root, allocations) ==
  /\ IsSequence(allocations)
  /\ \A k \in DOMAIN allocations :
       /\ allocations[k].transfer \in DOMAIN ts
       /\ allocations[k].amount \in Nat \ {0} /\ allocations[k].amount <= ts[allocations[k].transfer].amount
       /\ \A j \in allocations[k].parents :
            j \in 1 .. k - 1 /\ ts[allocations[j].transfer].destination = ts[allocations[k].transfer].source
       /\ allocations[k].parents = {} => ts[allocations[k].transfer].source = root
  /\ \A j, k \in DOMAIN allocations : j < k => allocations[j].transfer < allocations[k].transfer

\* The terminals: each ends an allocation of its own.
Stopped(ts, allocations, terminals) ==
  /\ IsSequence(terminals)
  /\ \A j \in DOMAIN terminals :
       /\ terminals[j].parent \in DOMAIN allocations
       /\ terminals[j].address = ts[allocations[terminals[j].parent].transfer].destination
       /\ terminals[j].amount = allocations[terminals[j].parent].amount
  /\ \A i, j \in DOMAIN terminals : terminals[i].parent = terminals[j].parent => i = j

\* What a run at a stage, and a result, hold of the trace: x is either.
Booked(ts, root, x) == Allocated(ts, root, x.allocations) /\ Stopped(ts, x.allocations, x.terminals)

\* What waits at an address arrived there and did not stop, or is the seed.
Holding(ts, root, x) ==
  /\ x.next \in Nat \ {0}
  /\ x.held \in [AddressesOf(ts) -> Nat]
  /\ \A k \in DOMAIN x.allocations : x.allocations[k].transfer < x.next
  /\ \A a \in AddressesOf(ts) : x.held[a] > 0 =>
       \/ a = root
       \/ \E k \in DOMAIN x.allocations :
            /\ ts[x.allocations[k].transfer].destination = a
            /\ \A j \in DOMAIN x.terminals : x.terminals[j].parent # k

Flows ==
  /\ \A r \in Runs : run[r].at \in Carrying => Booked(Transfers(r), Evidence(r).root, run[r])
  /\ \A r \in Runs : run[r].at = "tracing" => Holding(Transfers(r), Evidence(r).root, run[r])
  /\ \A p \in DOMAIN results :
       /\ results[p].snapshot.transfers = Transfers(results[p].by)
       /\ Booked(Transfers(results[p].by), Evidence(results[p].by).root, results[p].snapshot)

LEMMA EvidenceType ==
  ASSUME World, NEW r \in Runs
  PROVE  /\ r \in Run /\ Transfers(r) \in Seq(Transfer) /\ Evidence(r).root \in Address /\ Evidence(r).seed \in Nat
         /\ Len(Transfers(r)) \in Nat /\ DOMAIN Transfers(r) = 1 .. Len(Transfers(r)) /\ ObservedAt(r) < Today
         /\ \A i \in DOMAIN Transfers(r) : Transfers(r)[i] \in Transfer
<1>1. /\ r \in Run /\ Transfers(r) \in Seq(Transfer) /\ Evidence(r).root \in Address /\ Evidence(r).seed \in Nat
      /\ Len(Transfers(r)) < Today
  BY ConclusionsAssumption DEF World, Runs, Evidence, Transfers
<1> QED
  BY <1>1 DEF ObservedAt

\* A run's step leaves the other runs alone.
LEMMA OneRun ==
  ASSUME CInv, NEW r \in Run, NEW x, Set(r, x)
  PROVE  DOMAIN run' = Run /\ run'[r] = x /\ \A q \in Run \ {r} : run'[q] = run[q]
BY DEF Set, CInv, Stages

\* The money that moves with the next transfer, and how it is booked.
MovedAmount(r) ==
  LET t == Transfers(r)[run[r].next]
  IN  IF t.amount <= run[r].held[t.source] THEN t.amount ELSE run[r].held[t.source]

MovedAllocation(r) ==
  [transfer |-> run[r].next, amount |-> MovedAmount(r),
   parents |-> Parents(r, run[r], Transfers(r)[run[r].next].source)]

MovedTerminal(r, reason) ==
  [address |-> Transfers(r)[run[r].next].destination, amount |-> MovedAmount(r), reason |-> reason,
   parent |-> Len(Append(run[r].allocations, MovedAllocation(r)))]

\* The outcomes of a transfer: nothing to move, money that moves on, money that stops.
LEMMA TraceTransferEffect ==
  ASSUME CInv, Shapes, NEW r \in Run, TraceTransfer(r)
  PROVE  \E x :
           /\ Set(r, x) /\ DOMAIN x = DOMAIN run[r] /\ x.at = "tracing" /\ x.base = run[r].base
           /\ x.next = run[r].next + 1
           /\ \/ MovedAmount(r) = 0 /\ x.allocations = run[r].allocations /\ x.terminals = run[r].terminals
                 /\ x.held = run[r].held
              \/ /\ MovedAmount(r) # 0
                 /\ x.allocations = Append(run[r].allocations, MovedAllocation(r))
                 /\ x.terminals = run[r].terminals
                 /\ x.held = [[run[r].held EXCEPT ![Transfers(r)[run[r].next].source] = @ - MovedAmount(r)]
                                EXCEPT ![Transfers(r)[run[r].next].destination] = @ + MovedAmount(r)]
              \/ /\ MovedAmount(r) # 0
                 /\ x.allocations = Append(run[r].allocations, MovedAllocation(r))
                 /\ \E reason : x.terminals = Append(run[r].terminals, MovedTerminal(r, reason))
                 /\ x.held = [run[r].held EXCEPT ![Transfers(r)[run[r].next].source] = @ - MovedAmount(r)]
<1> DEFINE o == run[r]
           t == Transfers(r)[o.next]
           amount == MovedAmount(r)
           reason == TerminalReason(t.destination, o.next)
           final == IF reason # "none" THEN reason
                    ELSE IF \E i \in o.next + 1 .. Len(Transfers(r)) : Transfers(r)[i].source = t.destination
                    THEN "none" ELSE "NO_OUTGOING"
           entry == [transfer |-> o.next, amount |-> amount, parents |-> Parents(r, o, t.source)]
           moved == [o EXCEPT !.next = @ + 1, !.allocations = Append(@, entry), !.held[t.source] = @ - amount]
           none == [o EXCEPT !.next = @ + 1]
           on == [moved EXCEPT !.held[t.destination] = @ + amount]
           stop == [moved EXCEPT !.terminals = Append(@, [address |-> t.destination, amount |-> amount, reason |-> final,
                                                          parent |-> Len(moved.allocations)])]
<1>1. o.at = "tracing" /\ DOMAIN o = {"at", "next", "base", "allocations", "terminals", "held"}
  BY Zenon DEF TraceTransfer, Shapes, Shape
<1>2. Set(r, IF amount = 0 THEN none ELSE IF final = "none" THEN on ELSE stop)
  BY Zenon DEF TraceTransfer, MovedAmount
<1>3. /\ DOMAIN none = DOMAIN o /\ none.at = "tracing" /\ none.base = o.base /\ none.next = o.next + 1
      /\ none.allocations = o.allocations /\ none.terminals = o.terminals /\ none.held = o.held
  <2> HIDE DEF o
  <2> QED
    BY <1>1
<1>4. /\ DOMAIN moved = DOMAIN o /\ moved.at = "tracing" /\ moved.base = o.base /\ moved.next = o.next + 1
      /\ moved.allocations = Append(o.allocations, MovedAllocation(r)) /\ moved.terminals = o.terminals
      /\ moved.held = [o.held EXCEPT ![t.source] = @ - amount]
  <2>1. MovedAllocation(r) = entry
    BY DEF MovedAllocation
  <2> DEFINE g == Append(o.allocations, entry)
             h == [o.held EXCEPT ![t.source] = @ - amount]
             m == [o EXCEPT !.next = o.next + 1, !.allocations = g, !.held = h]
  <2>2. moved = m
    <3> HIDE DEF o, t, amount, entry
    <3> QED
      OBVIOUS
  <2> HIDE DEF o, g, h, moved
  <2>3. /\ DOMAIN m = DOMAIN o /\ m.at = "tracing" /\ m.base = o.base /\ m.next = o.next + 1
        /\ m.allocations = g /\ m.terminals = o.terminals /\ m.held = h
    BY <1>1
  <2> HIDE DEF m
  <2> QED
    BY <2>1, <2>2, <2>3 DEF g, h
<1> HIDE DEF moved, none, amount, final
<1>5. /\ DOMAIN on = DOMAIN o /\ on.at = "tracing" /\ on.base = o.base /\ on.next = o.next + 1
      /\ on.allocations = moved.allocations /\ on.terminals = o.terminals
      /\ on.held = [moved.held EXCEPT ![t.destination] = @ + amount]
  <2> DEFINE h == [moved.held EXCEPT ![t.destination] = @ + amount]
             m == [moved EXCEPT !.held = h]
  <2>1. on = m
    <3> HIDE DEF t, amount
    <3> QED
      OBVIOUS
  <2> HIDE DEF o, h, on
  <2>2. /\ DOMAIN m = DOMAIN o /\ m.at = "tracing" /\ m.base = o.base /\ m.next = o.next + 1
        /\ m.allocations = moved.allocations /\ m.terminals = o.terminals /\ m.held = h
    BY <1>1, <1>4
  <2> HIDE DEF m
  <2> QED
    BY <2>1, <2>2 DEF h
<1>6. /\ DOMAIN stop = DOMAIN o /\ stop.at = "tracing" /\ stop.base = o.base /\ stop.next = o.next + 1
      /\ stop.allocations = moved.allocations /\ stop.held = moved.held
      /\ stop.terminals = Append(o.terminals, MovedTerminal(r, final))
  <2>1. MovedTerminal(r, final) = [address |-> t.destination, amount |-> amount, reason |-> final,
                                   parent |-> Len(moved.allocations)]
    BY <1>4 DEF MovedTerminal, amount
  <2> DEFINE z == [address |-> t.destination, amount |-> amount, reason |-> final, parent |-> Len(moved.allocations)]
             m == [moved EXCEPT !.terminals = Append(@, z)]
  <2>2. stop = m
    OBVIOUS
  <2> HIDE DEF o, t, z, stop
  <2>3. /\ DOMAIN m = DOMAIN o /\ m.at = "tracing" /\ m.base = o.base /\ m.next = o.next + 1
        /\ m.allocations = moved.allocations /\ m.held = moved.held
        /\ m.terminals = Append(o.terminals, z)
    BY <1>1, <1>4
  <2> QED
    BY <2>1, <2>2, <2>3 DEF z
<1> HIDE DEF on, stop
<1>7. CASE amount = 0
  BY <1>2, <1>3, <1>7 DEF amount
<1>8. CASE amount # 0 /\ final = "none"
  BY <1>2, <1>4, <1>5, <1>8, Zenon DEF amount
<1>9. CASE amount # 0 /\ final # "none"
  BY <1>2, <1>4, <1>6, <1>9, Zenon DEF amount
<1> QED
  BY <1>7, <1>8, <1>9, Zenon

\* A larger book is in order when its new entry is.
LEMMA BookedAllocates ==
  ASSUME NEW ts, NEW root, NEW g, Allocated(ts, root, g), NEW h, NEW e, Grown(g, e, h),
         NEW at \in DOMAIN ts, e.transfer = at, \A k \in DOMAIN g : g[k].transfer < at,
         e.amount \in Nat \ {0}, e.amount <= ts[at].amount,
         \A j \in e.parents : j \in DOMAIN g /\ ts[g[j].transfer].destination = ts[at].source,
         e.parents = {} => ts[at].source = root
  PROVE  /\ Allocated(ts, root, h) /\ Len(g) \in Nat /\ Len(h) = Len(g) + 1
         /\ DOMAIN g = 1 .. Len(g) /\ DOMAIN h = 1 .. Len(g) + 1
         /\ h[Len(g) + 1] = e /\ \A k \in 1 .. Len(g) : h[k] = g[k]
         /\ \A k \in DOMAIN h : k = Len(g) + 1 \/ k \in 1 .. Len(g)
<1> DEFINE n == Len(g)
<1>1. /\ IsSequence(h) /\ n \in Nat /\ Len(h) = n + 1 /\ DOMAIN g = 1 .. n /\ DOMAIN h = 1 .. n + 1
      /\ h[n + 1] = e /\ \A k \in 1 .. n : h[k] = g[k]
      /\ \A k \in DOMAIN h : k = n + 1 \/ k \in 1 .. n
  BY Appended DEF Allocated
<1> HIDE DEF n
<1>2. ASSUME NEW k \in DOMAIN h
      PROVE  /\ h[k].transfer \in DOMAIN ts /\ h[k].amount \in Nat \ {0} /\ h[k].amount <= ts[h[k].transfer].amount
             /\ \A j \in h[k].parents : j \in 1 .. k - 1 /\ ts[h[j].transfer].destination = ts[h[k].transfer].source
             /\ h[k].parents = {} => ts[h[k].transfer].source = root
  <2>1. CASE k = n + 1
    <3>1. h[k] = e /\ k - 1 = n
      BY <1>1, <2>1
    <3>2. \A j \in e.parents : j \in 1 .. n /\ h[j] = g[j]
      BY <1>1
    <3> QED
      BY <3>1, <3>2
  <2>2. CASE k \in 1 .. n
    <3>1. /\ g[k].transfer \in DOMAIN ts /\ g[k].amount \in Nat \ {0} /\ g[k].amount <= ts[g[k].transfer].amount
          /\ g[k].parents = {} => ts[g[k].transfer].source = root
      BY <1>1, <2>2 DEF Allocated
    <3>2. \A j \in g[k].parents : j \in 1 .. k - 1 /\ ts[g[j].transfer].destination = ts[g[k].transfer].source
      BY <1>1, <2>2 DEF Allocated
    <3>3. \A j \in 1 .. k - 1 : h[j] = g[j]
      BY <1>1, <2>2
    <3> QED
      BY <1>1, <2>2, <3>1, <3>2, <3>3
  <2> QED
    BY <1>1, <2>1, <2>2
<1>3. ASSUME NEW j \in DOMAIN h, NEW k \in DOMAIN h, j < k
      PROVE  h[j].transfer < h[k].transfer
  <2>1. j \in 1 .. n
    BY <1>1, <1>3
  <2>2. CASE k = n + 1
    BY <1>1, <2>1, <2>2
  <2>3. CASE k \in 1 .. n
    BY <1>1, <1>3, <2>1, <2>3 DEF Allocated
  <2> QED
    BY <1>1, <2>2, <2>3
<1>4. Allocated(ts, root, h)
  BY <1>1, <1>2, <1>3 DEF Allocated
<1> QED
  BY <1>1, <1>4 DEF n

\* The terminals stay in order when the allocations grow.
LEMMA StoppedCarried ==
  ASSUME NEW ts, NEW g, NEW h, NEW z, Stopped(ts, g, z), DOMAIN g \subseteq DOMAIN h, \A k \in DOMAIN g : h[k] = g[k]
  PROVE  Stopped(ts, h, z)
BY DEF Stopped

\* A terminal ends an allocation that no other terminal does.
LEMMA StoppedGrows ==
  ASSUME NEW ts, NEW g, NEW s, Stopped(ts, g, s), NEW t, NEW z, Grown(s, z, t),
         NEW m \in DOMAIN g, z.parent = m, z.amount = g[m].amount, z.address = ts[g[m].transfer].destination,
         \A j \in DOMAIN s : s[j].parent # m
  PROVE  /\ Stopped(ts, g, t)
         /\ \A j \in DOMAIN t : (j \in DOMAIN s /\ t[j] = s[j]) \/ t[j].parent = m
<1> DEFINE n == Len(s)
<1>1. /\ IsSequence(t) /\ n \in Nat /\ DOMAIN s = 1 .. n /\ DOMAIN t = 1 .. n + 1
      /\ t[n + 1] = z /\ \A k \in 1 .. n : t[k] = s[k]
      /\ \A k \in DOMAIN t : k = n + 1 \/ k \in 1 .. n
  BY Appended DEF Stopped
<1> HIDE DEF n
<1>2. ASSUME NEW j \in DOMAIN t
      PROVE  /\ t[j].parent \in DOMAIN g /\ t[j].address = ts[g[t[j].parent].transfer].destination
             /\ t[j].amount = g[t[j].parent].amount
  BY <1>1 DEF Stopped
<1>3. ASSUME NEW i \in DOMAIN t, NEW j \in DOMAIN t, t[i].parent = t[j].parent
      PROVE  i = j
  <2>1. CASE i \in 1 .. n /\ j \in 1 .. n
    BY <1>1, <1>3, <2>1 DEF Stopped
  <2>2. CASE i = n + 1 /\ j \in 1 .. n
    BY <1>1, <1>3, <2>2
  <2>3. CASE j = n + 1 /\ i \in 1 .. n
    BY <1>1, <1>3, <2>3
  <2> QED
    BY <1>1, <2>1, <2>2, <2>3
<1>4. Stopped(ts, g, t)
  BY <1>1, <1>2, <1>3 DEF Stopped
<1> QED
  BY <1>1, <1>4

LEMMA FlowsStart == Init => Flows
<1> SUFFICES ASSUME Init PROVE Flows
  OBVIOUS
<1>1. World /\ results = << >> /\ \A r \in Run : run[r].at = "idle"
  BY DEF Init, World
<1> QED
  BY <1>1, Runners DEF Flows, Carrying

\* A step that leaves the books of the runs as they are.
LEMMA FlowsCarried ==
  ASSUME CInv, Flows, NEW r \in Run, NEW x, Set(r, x), UNCHANGED <<scene, results>>,
         \/ x.at \notin Carrying
         \/ /\ run[r].at \in Carrying /\ x.at # "tracing"
            /\ x.allocations = run[r].allocations /\ x.terminals = run[r].terminals
  PROVE  Flows'
<1>1. run'[r] = x /\ \A q \in Run \ {r} : run'[q] = run[q]
  BY OneRun
<1>2. Runs' = Runs /\ Runs \subseteq Run /\ \A q : Transfers(q)' = Transfers(q) /\ Evidence(q)' = Evidence(q)
  BY Runners DEF Runs, Transfers, Evidence, CInv
<1>3. ASSUME NEW q \in Runs, run'[q].at \in Carrying
      PROVE  Booked(Transfers(q), Evidence(q).root, run'[q])
  BY <1>1, <1>2, <1>3 DEF Flows, Booked
<1>4. ASSUME NEW q \in Runs, run'[q].at = "tracing"
      PROVE  Holding(Transfers(q), Evidence(q).root, run'[q])
  BY <1>1, <1>2, <1>4 DEF Flows, Carrying
<1> QED
  BY <1>2, <1>3, <1>4 DEF Flows

LEMMA FlowsElsewhere == ASSUME CInv, Flows, UNCHANGED <<scene, results, run>> PROVE Flows'
BY DEF Flows, Runs, Transfers, Evidence

\* A run that traces on, with its books in order.
LEMMA FlowsTraced ==
  ASSUME CInv, Flows, NEW r \in Runs, NEW x, Set(r, x), UNCHANGED <<scene, results>>,
         Booked(Transfers(r), Evidence(r).root, x), Holding(Transfers(r), Evidence(r).root, x)
  PROVE  Flows'
<1>1. Runs' = Runs /\ Runs \subseteq Run /\ \A q : Transfers(q)' = Transfers(q) /\ Evidence(q)' = Evidence(q)
  BY Runners DEF Runs, Transfers, Evidence, CInv
<1>2. run'[r] = x /\ \A q \in Run \ {r} : run'[q] = run[q]
  BY <1>1, OneRun
<1>3. ASSUME NEW q \in Runs, run'[q].at \in Carrying
      PROVE  Booked(Transfers(q), Evidence(q).root, run'[q])
  BY <1>1, <1>2, <1>3 DEF Flows
<1>4. ASSUME NEW q \in Runs, run'[q].at = "tracing"
      PROVE  Holding(Transfers(q), Evidence(q).root, run'[q])
  BY <1>1, <1>2, <1>4 DEF Flows
<1> QED
  BY <1>1, <1>3, <1>4 DEF Flows

LEMMA FlowsStartRun == ASSUME CInv, Flows, NEW r \in Runs, StartRun(r) PROVE Flows'
<1> DEFINE ts == Transfers(r)
           root == Evidence(r).root
           held == [a \in AddressesOf(ts) |-> IF a = root THEN Evidence(r).seed ELSE 0]
           x == [at |-> "tracing", next |-> 1, base |-> Len(desk), allocations |-> << >>, terminals |-> << >>, held |-> held]
<1>1. Set(r, x) /\ UNCHANGED <<scene, results>>
  BY DEF StartRun, tables
<1>2. held \in [AddressesOf(ts) -> Nat] /\ \A a \in AddressesOf(ts) : held[a] > 0 => a = root
  BY EvidenceType DEF CInv
<1> HIDE DEF held
<1>3. x.next = 1 /\ x.held = held /\ x.allocations = << >> /\ x.terminals = << >>
  OBVIOUS
<1> HIDE DEF x
<1>4. Holding(ts, root, x)
  BY <1>2, <1>3 DEF Holding
<1>5. IsSequence(x.allocations) /\ IsSequence(x.terminals) /\ DOMAIN x.allocations = {} /\ DOMAIN x.terminals = {}
  BY <1>3, EmptySequence
<1>6. Booked(ts, root, x)
  BY <1>5 DEF Booked, Allocated, Stopped
<1> QED
  BY <1>1, <1>4, <1>6, FlowsTraced

LEMMA FlowsTraceTransfer == ASSUME CInv, Shapes, Flows, NEW r \in Runs, TraceTransfer(r) PROVE Flows'
<1> DEFINE ts == Transfers(r)
           root == Evidence(r).root
           o == run[r]
           t == ts[o.next]
           amount == MovedAmount(r)
           e == MovedAllocation(r)
<1>1. /\ r \in Run /\ o.at = "tracing" /\ UNCHANGED <<scene, results>> /\ o.next <= Len(ts)
      /\ Len(ts) \in Nat /\ DOMAIN ts = 1 .. Len(ts) /\ \A i \in DOMAIN ts : ts[i] \in Transfer
  BY EvidenceType, Zenon DEF TraceTransfer, tables, CInv
<1>2. Booked(ts, root, o) /\ Holding(ts, root, o)
  BY <1>1 DEF Flows, Carrying
<1>3. o.next \in DOMAIN ts
  BY <1>1, <1>2 DEF Holding
<1>4. t \in Transfer /\ t.source \in AddressesOf(ts) /\ t.destination \in AddressesOf(ts)
  BY <1>1, <1>3 DEF AddressesOf
<1>5. /\ o.held[t.source] \in Nat /\ t.amount \in Nat /\ amount \in Nat
      /\ amount <= t.amount /\ amount <= o.held[t.source]
  <2>1. o.held[t.source] \in Nat /\ t.amount \in Nat
    BY <1>2, <1>4 DEF Holding, Transfer
  <2>2. PICK has, asked : has = o.held[t.source] /\ asked = t.amount
    OBVIOUS
  <2>3. amount = IF asked <= has THEN asked ELSE has
    BY <2>2 DEF MovedAmount
  <2>4. has \in Nat /\ asked \in Nat
    BY <2>1, <2>2
  <2> HIDE DEF amount
  <2>5. amount \in Nat /\ amount <= asked /\ amount <= has
    BY <2>3, <2>4
  <2> QED
    BY <2>2, <2>4, <2>5
<1>6. e.transfer = o.next /\ e.amount = amount /\ e.parents = Parents(r, o, t.source)
  BY DEF MovedAllocation
<1> DEFINE n == Len(o.allocations)
           left == [o.held EXCEPT ![t.source] = @ - amount]
<1>7. PICK x :
        /\ Set(r, x) /\ x.next = o.next + 1
        /\ \/ /\ amount = 0 /\ x.allocations = o.allocations /\ x.terminals = o.terminals /\ x.held = o.held
           \/ /\ amount # 0 /\ x.allocations = Append(o.allocations, e) /\ x.terminals = o.terminals
              /\ x.held = [left EXCEPT ![t.destination] = @ + amount]
           \/ /\ amount # 0 /\ x.allocations = Append(o.allocations, e) /\ x.held = left
              /\ \E reason : x.terminals = Append(o.terminals, MovedTerminal(r, reason))
  BY <1>1, TraceTransferEffect, ZenonT(40)
<1>8. /\ x.next \in Nat \ {0} /\ o.next \in Nat /\ o.next < x.next
      /\ \A k \in DOMAIN o.allocations : o.allocations[k].transfer \in Nat /\ o.allocations[k].transfer < o.next
  <2>1. o.next \in Nat /\ \A k \in DOMAIN o.allocations : o.allocations[k].transfer < o.next
    BY <1>2 DEF Holding
  <2>2. \A k \in DOMAIN o.allocations : o.allocations[k].transfer \in 1 .. Len(ts)
    BY <1>1, <1>2, Zenon DEF Booked, Allocated
  <2>3. x.next = o.next + 1
    BY <1>7, Zenon
  <2> HIDE DEF o, ts
  <2> QED
    BY <2>1, <2>2, <2>3
<1>9. ASSUME amount # 0, x.allocations = Append(o.allocations, e)
      PROVE  /\ Allocated(ts, root, x.allocations) /\ n \in Nat /\ Len(x.allocations) = n + 1
             /\ DOMAIN o.allocations = 1 .. n /\ DOMAIN x.allocations = 1 .. n + 1
             /\ x.allocations[n + 1] = e /\ \A k \in 1 .. n : x.allocations[k] = o.allocations[k]
             /\ \A k \in DOMAIN x.allocations : k = n + 1 \/ k \in 1 .. n
  <2>1. Grown(o.allocations, e, x.allocations) /\ Allocated(ts, root, o.allocations)
    BY <1>2, <1>9 DEF Grown, Booked
  <2>2. \A j \in e.parents : j \in DOMAIN o.allocations /\ ts[o.allocations[j].transfer].destination = ts[o.next].source
    BY <1>6 DEF Parents
  <2>3. ASSUME e.parents = {} PROVE ts[o.next].source = root
    <3>1. o.held[t.source] > 0
      BY <1>5, <1>9
    <3> QED
      BY <1>2, <1>4, <1>6, <2>3, <3>1 DEF Holding, Parents
  <2>4. e.transfer = o.next /\ e.amount \in Nat \ {0} /\ e.amount <= ts[o.next].amount
    BY <1>5, <1>6, <1>9
  <2> HIDE DEF e, o, ts, root, n, amount
  <2> QED
    BY <1>3, <1>8, <2>1, <2>2, <2>3, <2>4, BookedAllocates DEF n
<1>10. /\ left \in [AddressesOf(ts) -> Nat]
       /\ \A a \in AddressesOf(ts) : left[a] > 0 => o.held[a] > 0
  BY <1>2, <1>4, <1>5 DEF Holding
<1>11. Stopped(ts, o.allocations, o.terminals)
  BY <1>2 DEF Booked
<1>12. CASE amount = 0
  <2>1. x.allocations = o.allocations /\ x.terminals = o.terminals /\ x.held = o.held
    BY <1>7, <1>12
  <2>2. \A k \in DOMAIN o.allocations : o.allocations[k].transfer < x.next
    <3> HIDE DEF o
    <3> QED
      BY <1>8
  <2>3. Holding(ts, root, x)
    <3> HIDE DEF ts, root, o
    <3> QED
      BY <1>2, <1>8, <2>1, <2>2 DEF Holding
  <2>4. Booked(ts, root, x)
    <3> HIDE DEF ts, root, o
    <3> QED
      BY <1>2, <2>1 DEF Booked
  <2> QED
    BY <1>1, <1>7, <2>3, <2>4, FlowsTraced, Zenon
<1>13. CASE amount # 0
  <2>1. x.allocations = Append(o.allocations, e)
    BY <1>7, <1>13, Zenon
  <2>2. /\ Allocated(ts, root, x.allocations) /\ n \in Nat /\ Len(x.allocations) = n + 1
        /\ DOMAIN o.allocations = 1 .. n /\ DOMAIN x.allocations = 1 .. n + 1
        /\ x.allocations[n + 1] = e /\ \A k \in 1 .. n : x.allocations[k] = o.allocations[k]
        /\ \A k \in DOMAIN x.allocations : k = n + 1 \/ k \in 1 .. n
    BY <1>9, <1>13, <2>1
  <2>3. \A j \in DOMAIN o.terminals : o.terminals[j].parent \in 1 .. n
    BY <1>11, <2>2, Zenon DEF Stopped
  <2>4. Stopped(ts, x.allocations, o.terminals)
    <3>1. DOMAIN o.allocations \subseteq DOMAIN x.allocations
      BY <2>2
    <3> HIDE DEF ts, o, n
    <3> QED
      BY <1>11, <2>2, <3>1, StoppedCarried
  <2>5. \A k \in DOMAIN x.allocations : x.allocations[k].transfer < x.next
    <3>1. x.allocations[n + 1].transfer = o.next
      BY <1>6, <2>2
    <3> HIDE DEF o, n
    <3> QED
      BY <1>8, <2>2, <3>1
  <2>6. ASSUME NEW a \in AddressesOf(ts), o.held[a] > 0, a # root
        PROVE  \E k \in 1 .. n : /\ ts[x.allocations[k].transfer].destination = a
                                 /\ \A j \in DOMAIN o.terminals : o.terminals[j].parent # k
    <3>1. PICK k \in DOMAIN o.allocations :
            /\ ts[o.allocations[k].transfer].destination = a
            /\ \A j \in DOMAIN o.terminals : o.terminals[j].parent # k
      BY <1>2, <2>6 DEF Holding
    <3> QED
      BY <2>2, <3>1
  <2>7. CASE x.terminals = o.terminals
    <3>1. x.held = [left EXCEPT ![t.destination] = @ + amount] \/ x.held = left
      BY <1>7, <1>13, Zenon
    <3>2. x.held \in [AddressesOf(ts) -> Nat] /\ \A a \in AddressesOf(ts) : x.held[a] > 0 => left[a] > 0 \/ a = t.destination
      <4>1. t.destination \in AddressesOf(ts) /\ amount \in Nat
        BY <1>4, <1>5
      <4>2. ASSUME NEW S, NEW f \in [S -> Nat], NEW d \in S, NEW m \in Nat
            PROVE  [f EXCEPT ![d] = @ + m] \in [S -> Nat] /\ \A a \in S \ {d} : [f EXCEPT ![d] = @ + m][a] = f[a]
        OBVIOUS
      <4> HIDE DEF left, t, ts, amount
      <4>3. CASE x.held = left
        BY <1>10, <4>3
      <4>4. CASE x.held = [left EXCEPT ![t.destination] = @ + amount]
        BY <1>10, <4>1, <4>2, <4>4
      <4> QED
        BY <3>1, <4>3, <4>4
    <3>3. ASSUME NEW a \in AddressesOf(ts), x.held[a] > 0
          PROVE  \/ a = root
                 \/ \E k \in DOMAIN x.allocations :
                      /\ ts[x.allocations[k].transfer].destination = a
                      /\ \A j \in DOMAIN x.terminals : x.terminals[j].parent # k
      <4>1. CASE a = t.destination
        <5>1. n + 1 \in DOMAIN x.allocations /\ ts[x.allocations[n + 1].transfer].destination = a
          BY <1>6, <2>2, <4>1
        <5>2. \A j \in DOMAIN x.terminals : x.terminals[j].parent # n + 1
          BY <2>2, <2>3, <2>7
        <5> QED
          BY <5>1, <5>2
      <4>2. CASE a # t.destination /\ a # root
        <5>1. o.held[a] > 0
          BY <1>10, <3>2, <3>3, <4>2
        <5>2. PICK k \in 1 .. n : /\ ts[x.allocations[k].transfer].destination = a
                                 /\ \A j \in DOMAIN o.terminals : o.terminals[j].parent # k
          BY <2>6, <4>2, <5>1
        <5>3. k \in DOMAIN x.allocations
          BY <2>2
        <5> QED
          BY <2>7, <5>2, <5>3
      <4> QED
        BY <4>1, <4>2
    <3>4. Holding(ts, root, x)
      <4> HIDE DEF ts, root
      <4> QED
        BY <1>8, <2>5, <3>2, <3>3 DEF Holding
    <3>5. Booked(ts, root, x)
      BY <2>2, <2>4, <2>7 DEF Booked
    <3> QED
      BY <1>1, <1>7, <3>4, <3>5, FlowsTraced
  <2>8. CASE x.terminals # o.terminals
    <3>1. PICK reason : x.terminals = Append(o.terminals, MovedTerminal(r, reason)) /\ x.held = left
      BY <1>7, <1>13, <2>8, Zenon
    <3> DEFINE z == MovedTerminal(r, reason)
    <3>2. z.address = t.destination /\ z.amount = amount /\ z.parent = n + 1
      BY <2>1, <2>2 DEF MovedTerminal
    <3>3. Grown(o.terminals, z, x.terminals)
      BY <3>1 DEF Grown
    <3> HIDE DEF z
    <3>4. /\ n + 1 \in DOMAIN x.allocations /\ z.amount = x.allocations[n + 1].amount
          /\ z.address = ts[x.allocations[n + 1].transfer].destination
          /\ \A j \in DOMAIN o.terminals : o.terminals[j].parent # n + 1
      BY <1>6, <2>2, <2>3, <3>2
    <3>5. /\ Stopped(ts, x.allocations, x.terminals)
          /\ \A j \in DOMAIN x.terminals : (j \in DOMAIN o.terminals /\ x.terminals[j] = o.terminals[j])
                                           \/ x.terminals[j].parent = n + 1
      <4> HIDE DEF ts, o, n
      <4> QED
        BY <2>4, <3>2, <3>3, <3>4, StoppedGrows
    <3>6. ASSUME NEW a \in AddressesOf(ts), x.held[a] > 0
          PROVE  \/ a = root
                 \/ \E k \in DOMAIN x.allocations :
                      /\ ts[x.allocations[k].transfer].destination = a
                      /\ \A j \in DOMAIN x.terminals : x.terminals[j].parent # k
      <4>1. o.held[a] > 0
        BY <1>10, <3>1, <3>6
      <4>2. CASE a # root
        <5>1. PICK k \in 1 .. n : /\ ts[x.allocations[k].transfer].destination = a
                                 /\ \A j \in DOMAIN o.terminals : o.terminals[j].parent # k
          BY <2>6, <4>1, <4>2
        <5>2. k \in DOMAIN x.allocations /\ k # n + 1
          BY <2>2
        <5> QED
          BY <3>5, <5>1, <5>2
      <4> QED
        BY <4>2
    <3>7. Holding(ts, root, x)
      <4> HIDE DEF ts, root
      <4> QED
        BY <1>8, <1>10, <2>5, <3>1, <3>6, Zenon DEF Holding
    <3>8. Booked(ts, root, x)
      BY <2>2, <3>5 DEF Booked
    <3> QED
      BY <1>1, <1>7, <3>7, <3>8, FlowsTraced
  <2> QED
    BY <2>7, <2>8
<1> QED
  BY <1>12, <1>13

\* The runs that are past their trace, up to their result, keep its books.
Concludes(r) ==
  \/ EndTrace(r) \/ InferAddress(r) \/ SaveInference(r) \/ AssertInference(r) \/ EndInference(r)
  \/ GroupTerminal(r) \/ BuildCandidate(r)

ConcludesTo(r, x) ==
  /\ Set(r, x) /\ run[r].at \in Carrying /\ x.at \in Carrying \ {"tracing"} /\ Shape(x)
  /\ x.allocations = run[r].allocations /\ x.terminals = run[r].terminals /\ x.base = run[r].base
  /\ UNCHANGED <<scene, results>>

LEMMA ConcludesEffect == ASSUME Shapes, NEW r \in Run, Concludes(r) PROVE \E x : ConcludesTo(r, x)
<1> DEFINE o == run[r]
<1> HIDE DEF o
<1>1. CASE EndTrace(r)
  <2> DEFINE todo == SetToSeq({Transfers(r)[i].destination : i \in DOMAIN Transfers(r)})
             x == [at |-> "inferring", base |-> o.base, allocations |-> o.allocations,
                   terminals |-> o.terminals, pending |-> {}, saved |-> {}, inferred |-> {}, todo |-> todo]
  <2>1. Set(r, x) /\ o.at = "tracing" /\ UNCHANGED <<scene, results>>
    BY <1>1 DEF EndTrace, tables, o
  <2> HIDE DEF todo
  <2>2. Shape(x) /\ x.at = "inferring" /\ x.allocations = o.allocations /\ x.terminals = o.terminals /\ x.base = o.base
    BY DEF Shape
  <2> HIDE DEF x
  <2> QED
    BY <2>1, <2>2 DEF ConcludesTo, Carrying, o
<1>2. CASE InferAddress(r)
  <2>1. PICK found : Set(r, [o EXCEPT !.todo = Tail(@), !.pending = found, !.inferred = @ \cup found])
    BY <1>2, Zenon DEF InferAddress, o
  <2> DEFINE x == [o EXCEPT !.todo = Tail(@), !.pending = found, !.inferred = @ \cup found]
  <2>2. Set(r, x) /\ o.at = "inferring" /\ UNCHANGED <<scene, results>> /\ Shape(o)
    BY <2>1, <1>2 DEF InferAddress, tables, Shapes, o
  <2>3. Shape(x) /\ x.at = "inferring" /\ x.allocations = o.allocations /\ x.terminals = o.terminals /\ x.base = o.base
    BY <2>2 DEF Shape
  <2> HIDE DEF x
  <2> QED
    BY <2>2, <2>3 DEF ConcludesTo, Carrying, o
<1>3. CASE SaveInference(r)
  <2>1. PICK i : Set(r, [o EXCEPT !.at = "asserting", !.pending = @ \ {i}, !.saved = {i}])
    BY <1>3, Zenon DEF SaveInference, o
  <2> DEFINE x == [o EXCEPT !.at = "asserting", !.pending = @ \ {i}, !.saved = {i}]
  <2>2. Set(r, x) /\ o.at = "inferring" /\ UNCHANGED <<scene, results>> /\ Shape(o)
    BY <2>1, <1>3 DEF SaveInference, Shapes, o
  <2>3. Shape(x) /\ x.at = "asserting" /\ x.allocations = o.allocations /\ x.terminals = o.terminals /\ x.base = o.base
    BY <2>2 DEF Shape
  <2> HIDE DEF x
  <2> QED
    BY <2>2, <2>3 DEF ConcludesTo, Carrying, o
<1>4. CASE AssertInference(r)
  <2> DEFINE x == [o EXCEPT !.at = "inferring", !.saved = {}]
  <2>1. Set(r, x) /\ o.at = "asserting" /\ UNCHANGED <<scene, results>> /\ Shape(o)
    BY <1>4 DEF AssertInference, Shapes, o
  <2>2. Shape(x) /\ x.at = "inferring" /\ x.allocations = o.allocations /\ x.terminals = o.terminals /\ x.base = o.base
    BY <2>1 DEF Shape
  <2> HIDE DEF x
  <2> QED
    BY <2>1, <2>2 DEF ConcludesTo, Carrying, o
<1>5. CASE EndInference(r)
  <2> DEFINE x == [at |-> "attributing", base |-> o.base, allocations |-> o.allocations, terminals |-> o.terminals,
                   inferred |-> o.inferred, next |-> 1, groups |-> {}, candidates |-> {}]
  <2>1. Set(r, x) /\ o.at = "inferring" /\ UNCHANGED <<scene, results>>
    BY <1>5 DEF EndInference, tables, o
  <2>2. Shape(x) /\ x.at = "attributing" /\ x.allocations = o.allocations /\ x.terminals = o.terminals /\ x.base = o.base
    BY DEF Shape
  <2> HIDE DEF x
  <2> QED
    BY <2>1, <2>2 DEF ConcludesTo, Carrying, o
<1>6. CASE GroupTerminal(r)
  <2>1. PICK g : Set(r, [o EXCEPT !.next = @ + 1, !.groups = @ \cup g])
    BY <1>6, Zenon DEF GroupTerminal, o
  <2> DEFINE x == [o EXCEPT !.next = @ + 1, !.groups = @ \cup g]
  <2>2. Set(r, x) /\ o.at = "attributing" /\ UNCHANGED <<scene, results>> /\ Shape(o)
    BY <2>1, <1>6 DEF GroupTerminal, tables, Shapes, o
  <2>3. Shape(x) /\ x.at = "attributing" /\ x.allocations = o.allocations /\ x.terminals = o.terminals /\ x.base = o.base
    BY <2>2 DEF Shape
  <2> HIDE DEF x
  <2> QED
    BY <2>2, <2>3 DEF ConcludesTo, Carrying, o
<1>7. CASE BuildCandidate(r)
  <2>1. PICK g, c : Set(r, [o EXCEPT !.groups = g, !.candidates = c])
    BY <1>7, Zenon DEF BuildCandidate, o
  <2> DEFINE x == [o EXCEPT !.groups = g, !.candidates = c]
  <2>2. Set(r, x) /\ o.at = "attributing" /\ UNCHANGED <<scene, results>> /\ Shape(o)
    BY <2>1, <1>7 DEF BuildCandidate, tables, Shapes, o
  <2>3. Shape(x) /\ x.at = "attributing" /\ x.allocations = o.allocations /\ x.terminals = o.terminals /\ x.base = o.base
    BY <2>2 DEF Shape
  <2> HIDE DEF x
  <2> QED
    BY <2>2, <2>3 DEF ConcludesTo, Carrying, o
<1> QED
  BY <1>1, <1>2, <1>3, <1>4, <1>5, <1>6, <1>7 DEF Concludes

\* The runs that infer: nothing is pending, an address has been looked at, or an inference
\* is on its way into the tables.
Infers(r) == EndTrace(r) \/ InferAddress(r) \/ SaveInference(r) \/ AssertInference(r)

Waits(x) == x.pending \cup x.saved

LEMMA InfersEffect ==
  ASSUME Shapes, NEW r \in Run, Infers(r)
  PROVE  \E x :
           /\ Set(r, x) /\ x.at \in {"inferring", "asserting"} /\ run[r].at \in Carrying /\ x.base = run[r].base
           /\ UNCHANGED <<scene, results>>
           /\ \/ Waits(x) = {} /\ inferences' = inferences
              \/ /\ run[r].at \in {"inferring", "asserting"} /\ inferences' = inferences
                 /\ \E a : Waits(x) \subseteq Waits(run[r]) \cup Infer(Transfers(r), a, ObservedAt(r))
              \/ /\ run[r].at \in {"inferring", "asserting"} /\ Waits(x) \subseteq Waits(run[r])
                 /\ inferences' \subseteq inferences \cup Waits(run[r])
<1> DEFINE o == run[r]
<1>1. CASE EndTrace(r)
  <2>1. PICK t : Set(r, [at |-> "inferring", base |-> o.base, allocations |-> o.allocations,
                         terminals |-> o.terminals, pending |-> {}, saved |-> {}, inferred |-> {}, todo |-> t])
    BY <1>1 DEF EndTrace
  <2> DEFINE x == [at |-> "inferring", base |-> o.base, allocations |-> o.allocations,
                   terminals |-> o.terminals, pending |-> {}, saved |-> {}, inferred |-> {}, todo |-> t]
  <2>2. /\ Set(r, x) /\ x.at = "inferring" /\ x.base = o.base /\ Waits(x) = {}
        /\ o.at = "tracing" /\ UNCHANGED <<scene, results, inferences>>
    BY <1>1, <2>1 DEF EndTrace, tables, Waits
  <2> HIDE DEF x
  <2> QED
    BY <2>2 DEF Carrying
<1>2. CASE InferAddress(r)
  <2>1. PICK a, found : /\ found = Infer(Transfers(r), a, ObservedAt(r))
                        /\ Set(r, [o EXCEPT !.todo = Tail(@), !.pending = found, !.inferred = @ \cup found])
    BY <1>2, Zenon DEF InferAddress
  <2> DEFINE x == [o EXCEPT !.todo = Tail(@), !.pending = found, !.inferred = @ \cup found]
  <2>2. o.at = "inferring" /\ Shape(o) /\ UNCHANGED <<scene, results, inferences>>
    BY <1>2 DEF InferAddress, tables, Shapes
  <2> HIDE DEF o
  <2>3. /\ Set(r, x) /\ x.at = "inferring" /\ x.base = o.base /\ x.pending = found /\ x.saved = o.saved
    BY <2>1, <2>2 DEF Shape
  <2> HIDE DEF x
  <2>4. Waits(x) \subseteq Waits(o) \cup Infer(Transfers(r), a, ObservedAt(r))
    BY <2>1, <2>3 DEF Waits
  <2> QED
    BY <2>2, <2>3, <2>4 DEF Carrying, o
<1>3. CASE SaveInference(r)
  <2>1. PICK i \in o.pending : /\ Set(r, [o EXCEPT !.at = "asserting", !.pending = @ \ {i}, !.saved = {i}])
                               /\ inferences' = inferences \cup {i}
    BY <1>3, Zenon DEF SaveInference
  <2> DEFINE x == [o EXCEPT !.at = "asserting", !.pending = @ \ {i}, !.saved = {i}]
  <2>2. o.at = "inferring" /\ Shape(o) /\ UNCHANGED <<scene, results>>
    BY <1>3 DEF SaveInference, Shapes
  <2> HIDE DEF o
  <2>3. /\ Set(r, x) /\ x.at = "asserting" /\ x.base = o.base /\ x.pending = o.pending \ {i} /\ x.saved = {i}
    BY <2>1, <2>2 DEF Shape
  <2> HIDE DEF x
  <2>4. Waits(x) \subseteq Waits(o) /\ inferences' \subseteq inferences \cup Waits(o)
    BY <2>1, <2>3 DEF Waits
  <2> QED
    BY <2>2, <2>3, <2>4 DEF Carrying, o
<1>4. CASE AssertInference(r)
  <2> DEFINE x == [o EXCEPT !.at = "inferring", !.saved = {}]
  <2>1. Set(r, x) /\ o.at = "asserting" /\ Shape(o) /\ UNCHANGED <<scene, results, inferences>>
    BY <1>4 DEF AssertInference, Shapes
  <2> HIDE DEF o
  <2>2. x.at = "inferring" /\ x.base = o.base /\ x.pending = o.pending /\ x.saved = {}
    BY <2>1 DEF Shape
  <2> HIDE DEF x
  <2>3. Waits(x) \subseteq Waits(o) /\ inferences' \subseteq inferences \cup Waits(o)
    BY <2>1, <2>2 DEF Waits
  <2> QED
    BY <2>1, <2>2, <2>3 DEF Carrying, o
<1> QED
  BY <1>1, <1>2, <1>3, <1>4 DEF Infers

\* A run that has its result, or breaks off.
Finishes(r) == IndexCases(r) \/ SaveConnection(r) \/ RunLost(r)

LEMMA FinishesEffect ==
  ASSUME NEW r \in Run, CInv, Finishes(r)
  PROVE  \E x : Set(r, x) /\ x.at \notin Carrying /\ Shape(x) /\ UNCHANGED <<scene, results>>
<1>1. CASE IndexCases(r)
  <2>1. PICK n, found : Set(r, [at |-> "connecting", result |-> n, pending |-> found])
    BY <1>1 DEF IndexCases
  <2> DEFINE x == [at |-> "connecting", result |-> n, pending |-> found]
  <2>2. x.at = "connecting"
    OBVIOUS
  <2> HIDE DEF x
  <2> QED
    BY <1>1, <2>1, <2>2 DEF IndexCases, tables, Shape, Carrying, x
<1>2. CASE SaveConnection(r)
  <2>1. run[r].at = "connecting" /\ UNCHANGED <<scene, results>> /\ "at" \in DOMAIN run[r]
    BY <1>2 DEF SaveConnection, CInv, Stages
  <2>2. CASE run[r].pending = {}
    <3> DEFINE x == [at |-> "ended"]
    <3>1. Set(r, x) /\ x.at = "ended"
      BY <1>2, <2>2 DEF SaveConnection
    <3> HIDE DEF x
    <3> QED
      BY <2>1, <3>1 DEF Shape, Carrying
  <2>3. CASE run[r].pending # {}
    <3>1. PICK k : Set(r, [run[r] EXCEPT !.pending = @ \ {k}])
      BY <1>2, <2>3 DEF SaveConnection
    <3> DEFINE x == [run[r] EXCEPT !.pending = @ \ {k}]
    <3>2. x.at = "connecting"
      BY <2>1
    <3> HIDE DEF x
    <3> QED
      BY <2>1, <3>1, <3>2 DEF Shape, Carrying, x
  <2> QED
    BY <2>2, <2>3
<1>3. CASE RunLost(r)
  <2> DEFINE x == [at |-> "lost"]
  <2>1. Set(r, x) /\ x.at = "lost" /\ UNCHANGED <<scene, results>>
    BY <1>3 DEF RunLost, tables
  <2> HIDE DEF x
  <2> QED
    BY <2>1 DEF Shape, Carrying
<1> QED
  BY <1>1, <1>2, <1>3 DEF Finishes

\* A run saves what it concluded, or finds that it was saved.
SavedEntry(r) ==
  [snapshot |-> Snapshot(r), by |-> r, base |-> run[r].base, noted |-> Len(desk), registry |-> registry]

LEMMA SaveResultEffect ==
  ASSUME CInv, NEW r \in Run, SaveResult(r)
  PROVE  \E x : /\ Set(r, x) /\ x.at \notin Carrying /\ Shape(x) /\ run[r].at = "attributing"
                /\ UNCHANGED <<scene, registry, inferences, drafts, desk, request>>
                /\ run[r].groups = {} /\ run[r].next > Len(run[r].terminals)
                /\ \/ results' = results
                   \/ /\ DOMAIN results = 1 .. Len(results) /\ DOMAIN results' = 1 .. Len(results) + 1
                      /\ Len(results) \in Nat /\ \A p \in DOMAIN results' : p \in DOMAIN results \/ p = Len(results) + 1
                      /\ results'[Len(results) + 1] = SavedEntry(r)
                      /\ \A p \in DOMAIN results : results'[p] = results[p]
<1> DEFINE y == [at |-> "indexing", result |-> Len(results) + 1]
           z == [at |-> "ended"]
<1>1. y.at = "indexing" /\ z.at = "ended"
  OBVIOUS
<1>2. \/ Set(r, z) /\ results' = results
      \/ Set(r, y) /\ results' = Append(results, SavedEntry(r))
  BY DEF SaveResult, SavedEntry
<1> HIDE DEF y, z
<1>3. Shape(y) /\ Shape(z) /\ y.at \notin Carrying /\ z.at \notin Carrying
  BY <1>1 DEF Shape, Carrying
<1>4. ASSUME results' = Append(results, SavedEntry(r))
      PROVE  /\ DOMAIN results = 1 .. Len(results) /\ DOMAIN results' = 1 .. Len(results) + 1
             /\ Len(results) \in Nat /\ \A p \in DOMAIN results' : p \in DOMAIN results \/ p = Len(results) + 1
             /\ results'[Len(results) + 1] = SavedEntry(r)
             /\ \A p \in DOMAIN results : results'[p] = results[p]
  <2>1. Grown(results, SavedEntry(r), results') /\ IsSequence(results)
    BY <1>4 DEF Grown, CInv, Authors
  <2> QED
    BY <2>1, Appended
<1> QED
  BY <1>2, <1>3, <1>4 DEF SaveResult

LEMMA ShapesStart == Init => Shapes
BY DEF Init, Shapes, Shape

LEMMA ShapesStep == ASSUME CInv, Shapes, [Next]_vars PROVE Shapes'
<1>1. ASSUME NEW r \in Run, NEW x, Set(r, x), Shape(x) PROVE Shapes'
  BY <1>1, OneRun DEF Shapes
<1>2. ASSUME NEW r \in Runs, RunStep(r) PROVE Shapes'
  <2>1. r \in Run
    BY Runners DEF CInv
  <2>2. CASE StartRun(r)
    <3> DEFINE held == [a \in AddressesOf(Transfers(r)) |-> IF a = Evidence(r).root THEN Evidence(r).seed ELSE 0]
               x == [at |-> "tracing", next |-> 1, base |-> Len(desk), allocations |-> << >>, terminals |-> << >>,
                     held |-> held]
    <3>1. Set(r, x)
      BY <2>2 DEF StartRun
    <3> HIDE DEF held
    <3>2. Shape(x)
      BY DEF Shape
    <3> HIDE DEF x
    <3> QED
      BY <1>1, <2>1, <3>1, <3>2
  <2>3. CASE TraceTransfer(r)
    <3>1. PICK x : Set(r, x) /\ DOMAIN x = DOMAIN run[r] /\ x.at = "tracing"
      BY <2>1, <2>3, TraceTransferEffect, Zenon
    <3>2. run[r].at = "tracing"
      BY <2>3, Zenon DEF TraceTransfer
    <3>3. Shape(x)
      BY <2>1, <3>1, <3>2 DEF Shapes, Shape
    <3> QED
      BY <1>1, <2>1, <3>1, <3>3
  <2>4. CASE Concludes(r)
    BY <1>1, <2>1, <2>4, ConcludesEffect DEF ConcludesTo
  <2>5. CASE SaveResult(r)
    BY <1>1, <2>1, <2>5, SaveResultEffect
  <2>6. CASE Finishes(r)
    BY <1>1, <2>1, <2>6, FinishesEffect
  <2> QED
    BY <1>2, <2>2, <2>3, <2>4, <2>5, <2>6 DEF RunStep, Concludes, Finishes
<1>3. CASE UNCHANGED run
  BY <1>3 DEF Shapes
<1> QED
  BY <1>2, <1>3 DEF Next, DeskStep, PostAssertion, ReviewAssertion, UpdateStatus, RegisterProfile, RequestStep, AskForDraft, SaveDraft, vars

LEMMA FlowsSaveResult == ASSUME CInv, Flows, NEW r \in Runs, SaveResult(r) PROVE Flows'
<1>1. r \in Run /\ Runs' = Runs /\ \A q : Transfers(q)' = Transfers(q) /\ Evidence(q)' = Evidence(q)
  BY Runners DEF CInv, SaveResult, Runs, Transfers, Evidence
<1>2. PICK x : /\ Set(r, x) /\ x.at \notin Carrying /\ run[r].at = "attributing" /\ scene' = scene
               /\ \/ results' = results
                  \/ /\ \A p \in DOMAIN results' : p \in DOMAIN results \/ p = Len(results) + 1
                     /\ results'[Len(results) + 1] = SavedEntry(r)
                     /\ \A p \in DOMAIN results : results'[p] = results[p]
  BY <1>1, SaveResultEffect
<1>3. CASE results' = results
  BY <1>1, <1>2, <1>3, FlowsCarried
<1>4. CASE results' # results
  <2>1. run'[r] = x /\ \A q \in Run \ {r} : run'[q] = run[q]
    BY <1>1, <1>2, OneRun
  <2>2. ASSUME NEW q \in Runs, run'[q].at \in Carrying
        PROVE  /\ Booked(Transfers(q), Evidence(q).root, run'[q])
               /\ run'[q].at = "tracing" => Holding(Transfers(q), Evidence(q).root, run'[q])
    <3>1. q # r /\ q \in Run
      BY <1>2, <2>1, <2>2, Runners DEF CInv
    <3> QED
      BY <2>1, <2>2, <3>1 DEF Flows
  <2>3. ASSUME NEW p \in DOMAIN results'
        PROVE  /\ results'[p].snapshot.transfers = Transfers(results'[p].by)
               /\ Booked(Transfers(results'[p].by), Evidence(results'[p].by).root, results'[p].snapshot)
    <3>1. CASE p \in DOMAIN results
      BY <1>2, <1>4, <3>1 DEF Flows
    <3>2. CASE p = Len(results) + 1
      <4>1. /\ results'[p].by = r /\ results'[p].snapshot = Snapshot(r)
        BY <1>2, <1>4, <3>2 DEF SavedEntry
      <4>2. /\ Snapshot(r).transfers = Transfers(r) /\ Snapshot(r).allocations = run[r].allocations
            /\ Snapshot(r).terminals = run[r].terminals
        BY DEF Snapshot
      <4>3. Booked(Transfers(r), Evidence(r).root, run[r])
        BY <1>2 DEF Flows, Carrying
      <4> QED
        BY <4>1, <4>2, <4>3 DEF Booked
    <3> QED
      BY <1>2, <1>4, <2>3, <3>1, <3>2
  <2>4. "tracing" \in Carrying
    BY DEF Carrying
  <2> QED
    BY <1>1, <2>2, <2>3, <2>4 DEF Flows
<1> QED
  BY <1>3, <1>4

LEMMA FlowsStep == ASSUME CInv, Shapes, Flows, [Next]_vars PROVE Flows'
<1>1. ASSUME NEW r \in Runs, RunStep(r) PROVE Flows'
  <2>1. r \in Run
    BY Runners DEF CInv
  <2>2. CASE Concludes(r)
    <3>1. PICK x : ConcludesTo(r, x)
      BY <2>1, <2>2, ConcludesEffect
    <3> QED
      BY <2>1, <3>1, FlowsCarried DEF ConcludesTo
  <2>3. CASE Finishes(r)
    BY <2>1, <2>3, FinishesEffect, FlowsCarried
  <2> QED
    BY <1>1, <2>2, <2>3, FlowsStartRun, FlowsTraceTransfer, FlowsSaveResult DEF RunStep, Concludes, Finishes
<1>2. CASE UNCHANGED <<scene, results, run>>
  BY <1>2, FlowsElsewhere
<1> QED
  BY <1>1, <1>2
  DEF Next, DeskStep, PostAssertion, ReviewAssertion, UpdateStatus, RegisterProfile, RequestStep, AskForDraft, SaveDraft, vars, tables

-----------------------------------------------------------------------------
(* The candidates *)

\* An assertion puts an address under the entity: an actionable one, a verified one.
Backed(a, e, until) ==
  \E k \in DOMAIN registry :
    /\ registry[k].address = a /\ registry[k].entity = e
    /\ registry[k].role \in ActionableRoles /\ Accepted(k, until)

Proved(a, e, until) ==
  \E k \in DOMAIN registry :
    /\ registry[k].address = a /\ registry[k].entity = e
    /\ registry[k].type = "VERIFIED" /\ Accepted(k, until)

\* The candidates, of a run or a result: a terminal is of one at most.
Attributed(terminals, candidates, until) ==
  /\ IsFiniteSet(candidates)
  /\ \A c \in candidates :
       /\ c.terminals \subseteq DOMAIN terminals /\ c.amount = Total(c.terminals, AmountsOf(terminals))
       /\ \A j \in c.terminals : Backed(terminals[j].address, c.entity, until)
       /\ c.status = "VERIFIED" => \E j \in c.terminals : Proved(terminals[j].address, c.entity, until)
  /\ \A c, d \in candidates : c # d => c.terminals \cap d.terminals = {}
  /\ Total(candidates, [c \in candidates |-> c.amount])
     = Total(UNION {c.terminals : c \in candidates}, AmountsOf(terminals))

\* The groups that are still to become candidates.
Grouped(terminals, groups, candidates, next) ==
  /\ next \in Nat \ {0}
  /\ candidates # {} => Len(terminals) < next
  /\ \A g \in groups :
       /\ g = <<g[1], g[2]>> /\ g[2] \in DOMAIN terminals /\ g[2] < next
       /\ Backed(terminals[g[2]].address, g[1], Len(desk))
       /\ \A c \in candidates : c.entity # g[1] /\ g[2] \notin c.terminals
  /\ \A g, h \in groups : g[2] = h[2] => g = h

Attributions ==
  /\ \A r \in Runs : run[r].at = "attributing" =>
       /\ Attributed(run[r].terminals, run[r].candidates, Len(desk))
       /\ Grouped(run[r].terminals, run[r].groups, run[r].candidates, run[r].next)
  /\ \A p \in DOMAIN results :
       /\ results[p].noted \in 0 .. Len(desk)
       /\ Attributed(results[p].snapshot.terminals, results[p].snapshot.candidates, results[p].noted)

LEMMA BackedStays ==
  ASSUME Kept, NEW a, NEW e, NEW m \in 0 .. Len(desk), NEW n \in Nat, m <= n, n <= Len(desk')
  PROVE  /\ Backed(a, e, m) => Backed(a, e, n)'
         /\ Proved(a, e, m) => Proved(a, e, n)'
<1>1. ASSUME NEW k \in DOMAIN registry, Accepted(k, m) PROVE k \in DOMAIN registry' /\ Accepted(k, n)'
  BY <1>1, AcceptedStays DEF Kept
<1>2. ASSUME Backed(a, e, m) PROVE Backed(a, e, n)'
  <2>1. PICK k \in DOMAIN registry : /\ registry[k].address = a /\ registry[k].entity = e
                                     /\ registry[k].role \in ActionableRoles /\ Accepted(k, m)
    BY <1>2 DEF Backed
  <2>2. registry'[k].address = a /\ registry'[k].entity = e /\ registry'[k].role \in ActionableRoles
    BY <2>1 DEF Kept
  <2> QED
    BY <1>1, <2>1, <2>2 DEF Backed
<1>3. ASSUME Proved(a, e, m) PROVE Proved(a, e, n)'
  <2>1. PICK k \in DOMAIN registry : /\ registry[k].address = a /\ registry[k].entity = e
                                     /\ registry[k].type = "VERIFIED" /\ Accepted(k, m)
    BY <1>3 DEF Proved
  <2>2. registry'[k].address = a /\ registry'[k].entity = e /\ registry'[k].type = "VERIFIED"
    BY <2>1 DEF Kept
  <2> QED
    BY <1>1, <2>1, <2>2 DEF Proved
<1> QED
  BY <1>2, <1>3

\* What a run or a result has attributed stays so, whatever the desk decides.
LEMMA AttributedStays ==
  ASSUME Kept, NEW s, NEW S, NEW m \in 0 .. Len(desk), NEW n \in Nat, m <= n, n <= Len(desk'), Attributed(s, S, m)
  PROVE  Attributed(s, S, n)'
<1>1. ASSUME NEW c \in S
      PROVE  /\ \A j \in c.terminals : Backed(s[j].address, c.entity, n)'
             /\ c.status = "VERIFIED" => \E j \in c.terminals : Proved(s[j].address, c.entity, n)'
  BY BackedStays DEF Attributed
<1> QED
  BY <1>1 DEF Attributed

LEMMA GroupedStays ==
  ASSUME Kept, NEW s, NEW G, NEW S, NEW n, Grouped(s, G, S, n)
  PROVE  Grouped(s, G, S, n)'
<1>1. Len(desk) \in 0 .. Len(desk) /\ Len(desk') \in Nat /\ Len(desk) <= Len(desk')
  BY DEF Kept
<1>2. ASSUME NEW g \in G PROVE Backed(s[g[2]].address, g[1], Len(desk))'
  <2>1. Backed(s[g[2]].address, g[1], Len(desk))
    BY DEF Grouped
  <2> QED
    BY <1>1, <2>1, BackedStays
<1> QED
  BY <1>2 DEF Grouped

\* The amounts of the terminals have a sum.
LEMMA TerminalsSummable ==
  ASSUME NEW ts, NEW root, NEW x, Booked(ts, root, x)
  PROVE  Summable(DOMAIN x.terminals, AmountsOf(x.terminals))
<1>1. DOMAIN x.terminals = 1 .. Len(x.terminals) /\ Len(x.terminals) \in Nat
  BY SequenceDomain DEF Booked, Stopped
<1>2. IsFiniteSet(DOMAIN x.terminals)
  BY <1>1, FS_Interval
<1>3. \A j \in DOMAIN x.terminals : AmountsOf(x.terminals)[j] \in Nat
  <2>1. \A j \in DOMAIN x.terminals : x.terminals[j].amount \in Nat
    BY DEF Booked, Stopped, Allocated
  <2> QED
    BY <2>1 DEF AmountsOf
<1> QED
  BY <1>2, <1>3, FiniteSummable

LEMMA ResolvedIs == \A a : Resolved(a) = {k \in DOMAIN registry : registry[k].address = a /\ registry[k].state # "REJECTED"}
BY DEF Resolved, Where

\* An assertion that may act is reviewed.
LEMMA ActionableIs ==
  ASSUME Registered, NEW a, NEW at, NEW k \in Actionable(a, at)
  PROVE  /\ k \in DOMAIN registry /\ k \in Nat /\ registry[k].address = a /\ registry[k].role \in ActionableRoles
         /\ EffectiveState(registry[k], at) = "REVIEWED" /\ registry[k].state = "REVIEWED" /\ Accepted(k, Len(desk))
<1>1. k \in DOMAIN registry /\ registry[k].address = a /\ MayAct(k, at)
  BY ResolvedIs DEF Actionable
<1>2. registry[k].state = "REVIEWED"
  BY <1>1 DEF MayAct, EffectiveState
<1>3. k \in Nat
  BY <1>1, SequenceDomain DEF Registered
<1> QED
  BY <1>1, <1>2, <1>3 DEF MayAct, Registered

\* Among assertions that may act, the type decides, and then the place.
LEMMA ActionableOrder ==
  ASSUME Registered, NEW a, NEW at, NEW j \in Actionable(a, at), NEW k \in Actionable(a, at)
  PROVE  /\ TypeRank(registry[j].type) \in 1 .. 3
         /\ TypeRank(registry[j].type) = 3 <=> registry[j].type = "VERIFIED"
         /\ Outranks(j, k, at) <=> \/ TypeRank(registry[j].type) > TypeRank(registry[k].type)
                                   \/ TypeRank(registry[j].type) = TypeRank(registry[k].type) /\ j < k
<1>1. registry[j].type \in {"VERIFIED", "RULE_INFERRED", "ML_INFERRED"}
  BY ActionableIs DEF Registered, Entry
<1>2. EffectiveState(registry[j], at) = "REVIEWED" /\ EffectiveState(registry[k], at) = "REVIEWED"
  BY ActionableIs
<1>3. Outranks(j, k, at) <=> \/ TypeRank(registry[j].type) > TypeRank(registry[k].type)
                             \/ TypeRank(registry[j].type) = TypeRank(registry[k].type) /\ j < k
  BY <1>2 DEF Outranks, ReviewRank
<1>4. /\ TypeRank(registry[j].type) \in 1 .. 3
      /\ TypeRank(registry[j].type) = 3 <=> registry[j].type = "VERIFIED"
  BY <1>1 DEF TypeRank
<1> QED
  BY <1>3, <1>4

\* An address has one best assertion at most, and the best is verified if any is.
LEMMA BestUnique ==
  ASSUME Registered, NEW a, NEW at, NEW j \in Best(Actionable(a, at), at), NEW k \in Best(Actionable(a, at), at)
  PROVE  j = k
<1> DEFINE S == Actionable(a, at)
<1>1. j \in S /\ k \in S /\ (j # k => Outranks(j, k, at) /\ Outranks(k, j, at))
  BY DEF Best
<1>2. j \in Nat /\ k \in Nat
  BY <1>1, ActionableIs
<1> HIDE DEF S
<1>3. /\ TypeRank(registry[j].type) \in 1 .. 3 /\ TypeRank(registry[k].type) \in 1 .. 3
      /\ Outranks(j, k, at) => \/ TypeRank(registry[j].type) > TypeRank(registry[k].type)
                               \/ TypeRank(registry[j].type) = TypeRank(registry[k].type) /\ j < k
      /\ Outranks(k, j, at) => \/ TypeRank(registry[k].type) > TypeRank(registry[j].type)
                               \/ TypeRank(registry[k].type) = TypeRank(registry[j].type) /\ k < j
  BY <1>1, ActionableOrder DEF S
<1> QED
  BY <1>1, <1>2, <1>3

LEMMA BestVerified ==
  ASSUME Registered, NEW a, NEW at, NEW k \in Actionable(a, at), registry[k].type = "VERIFIED"
  PROVE  \E b \in Best(Actionable(a, at), at) : registry[b].type = "VERIFIED"
<1> DEFINE S == Actionable(a, at)
           V == {j \in S : registry[j].type = "VERIFIED"}
<1>1. \A j \in S : j \in Nat
  BY ActionableIs
<1>2. PICK b \in V : \A j \in V : b <= j
  <2>1. k \in V /\ V \subseteq Nat
    BY <1>1
  <2> HIDE DEF V
  <2> QED
    BY <2>1, LeastNatural
<1>3. ASSUME NEW j \in S \ {b} PROVE Outranks(b, j, at)
  <2>1. /\ TypeRank(registry[b].type) = 3 /\ TypeRank(registry[j].type) \in 1 .. 3
        /\ TypeRank(registry[j].type) = 3 <=> registry[j].type = "VERIFIED"
        /\ Outranks(b, j, at) <=> \/ TypeRank(registry[b].type) > TypeRank(registry[j].type)
                                  \/ TypeRank(registry[b].type) = TypeRank(registry[j].type) /\ b < j
    BY <1>2, ActionableOrder
  <2>2. registry[j].type = "VERIFIED" => b < j
    BY <1>1, <1>2
  <2> HIDE DEF S, V
  <2> QED
    BY <2>1, <2>2
<1>4. b \in Best(S, at)
  BY <1>2, <1>3 DEF Best
<1> QED
  BY <1>2, <1>4

\* The group of an address: at most one entity, under which a reviewer has put it.
LEMMA GroupOfBacked ==
  ASSUME Registered, NEW a, NEW at
  PROVE  /\ \A e \in GroupOf(a, at) : Backed(a, e, Len(desk))
         /\ \A e, f \in GroupOf(a, at) : e = f
<1>1. \A e \in GroupOf(a, at) : \E k \in Best(Actionable(a, at), at) : e = registry[k].entity
  BY DEF GroupOf
<1>2. \A k \in Best(Actionable(a, at), at) : k \in Actionable(a, at)
  BY DEF Best
<1>3. ASSUME NEW k \in Actionable(a, at) PROVE Backed(a, registry[k].entity, Len(desk))
  BY ActionableIs DEF Backed
<1>4. \A e \in GroupOf(a, at) : Backed(a, e, Len(desk))
  BY <1>1, <1>2, <1>3
<1>5. \A e, f \in GroupOf(a, at) : e = f
  BY <1>1, BestUnique
<1> QED
  BY <1>4, <1>5

LEMMA AttributionsStart == Init => Attributions
<1> SUFFICES ASSUME Init PROVE Attributions
  OBVIOUS
<1>1. World /\ results = << >> /\ \A r \in Run : run[r].at = "idle"
  BY DEF Init, World
<1> QED
  BY <1>1, Runners DEF Attributions

\* What one run attributes is its own: x is the run after its step, and s and S are the
\* terminals and candidates of its result, if that is new.
LEMMA AttributionsCarried ==
  ASSUME CInv, Attributions, Kept, NEW r \in Run, NEW x,
         run'[r] = x, \A q \in Run \ {r} : run'[q] = run[q],
         x.at = "attributing" => /\ Attributed(x.terminals, x.candidates, Len(desk))'
                                 /\ Grouped(x.terminals, x.groups, x.candidates, x.next)',
         NEW new, DOMAIN results' \subseteq DOMAIN results \cup {new}, \A p \in DOMAIN results : results'[p] = results[p],
         NEW s, NEW S, NEW m,
         new \in DOMAIN results' \ DOMAIN results =>
           /\ results'[new].noted = m /\ m \in 0 .. Len(desk') /\ results'[new].snapshot.terminals = s
           /\ results'[new].snapshot.candidates = S /\ Attributed(s, S, m)'
  PROVE  Attributions'
<1>1. run'[r] = x /\ \A q \in Run \ {r} : run'[q] = run[q]
  OBVIOUS
<1>2. Runs' = Runs /\ Runs \subseteq Run
  BY Runners DEF Runs, CInv, Kept
<1>3. Len(desk) \in 0 .. Len(desk) /\ Len(desk') \in Nat /\ Len(desk) <= Len(desk')
  BY DEF Kept
<1>4. ASSUME NEW q \in Runs, run'[q].at = "attributing"
      PROVE  /\ Attributed(run[q].terminals, run[q].candidates, Len(desk))'
             /\ Grouped(run[q].terminals, run[q].groups, run[q].candidates, run[q].next)'
  <2>1. CASE q = r
    BY <1>1, <1>4, <2>1
  <2>2. CASE q # r
    <3>1. PICK z : z = run[q]
      OBVIOUS
    <3>2. run'[q] = z /\ Attributed(z.terminals, z.candidates, Len(desk)) /\ Grouped(z.terminals, z.groups, z.candidates, z.next)
      BY <1>1, <1>2, <1>4, <2>2, <3>1 DEF Attributions
    <3>3. Attributed(z.terminals, z.candidates, Len(desk))'
      BY <1>3, <3>2, AttributedStays
    <3>4. Grouped(z.terminals, z.groups, z.candidates, z.next)'
      BY <3>2, GroupedStays
    <3> QED
      BY <3>2, <3>3, <3>4
  <2> QED
    BY <2>1, <2>2
<1>5. ASSUME NEW p \in DOMAIN results'
      PROVE  /\ results'[p].noted \in 0 .. Len(desk')
             /\ Attributed(results[p].snapshot.terminals, results[p].snapshot.candidates, results[p].noted)'
  <2>1. CASE p \in DOMAIN results
    <3>1. PICK t, T, n : t = results[p].snapshot.terminals /\ T = results[p].snapshot.candidates /\ n = results[p].noted
      OBVIOUS
    <3>2. results'[p] = results[p] /\ n \in 0 .. Len(desk) /\ Attributed(t, T, n)
      BY <2>1, <3>1 DEF Attributions
    <3>3. n \in Nat /\ n <= Len(desk') /\ n <= n
      BY <1>3, <3>2
    <3>4. Attributed(t, T, n)'
      BY <3>2, <3>3, AttributedStays
    <3> QED
      BY <1>3, <3>1, <3>2, <3>3, <3>4
  <2>2. CASE p \notin DOMAIN results
    BY <1>5, <2>2
  <2> QED
    BY <2>1, <2>2
<1> QED
  BY <1>2, <1>4, <1>5 DEF Attributions

\* A run that has ended its inference has attributed nothing yet.
LEMMA AttributionsEndInference == ASSUME CInv, Attributions, Kept, NEW r \in Run, EndInference(r) PROVE Attributions'
<1>1. PICK x : /\ Set(r, x) /\ results' = results
               /\ x.groups = {} /\ x.candidates = {} /\ x.next = 1 /\ x.terminals = run[r].terminals
  <2> DEFINE y == run[r]
             x == [at |-> "attributing", base |-> y.base, allocations |-> y.allocations, terminals |-> y.terminals,
                   inferred |-> y.inferred, next |-> 1, groups |-> {}, candidates |-> {}]
  <2>1. Set(r, x) /\ results' = results
    BY DEF EndInference, tables
  <2>2. x.groups = {} /\ x.candidates = {} /\ x.next = 1 /\ x.terminals = run[r].terminals
    OBVIOUS
  <2> HIDE DEF x
  <2> QED
    BY <2>1, <2>2
<1>2. Grouped(x.terminals, x.groups, x.candidates, x.next)'
  BY <1>1 DEF Grouped
<1>3. Attributed(x.terminals, x.candidates, Len(desk))'
  <2>1. IsFiniteSet(x.candidates)
    BY <1>1, FS_EmptySet
  <2> DEFINE f == [c \in x.candidates |-> c.amount]
             g == AmountsOf(x.terminals)
             T == UNION {c.terminals : c \in x.candidates}
  <2>2. T = {}
    BY <1>1
  <2>3. Total(x.candidates, f) = 0
    BY <1>1, TotalZero
  <2>4. Total(T, g) = 0
    <3> HIDE DEF T, g
    <3> QED
      BY <2>2, TotalZero
  <2> QED
    BY <1>1, <2>1, <2>3, <2>4 DEF Attributed
<1> QED
  BY <1>1, <1>2, <1>3, OneRun, AttributionsCarried

\* A terminal is grouped under its entity.
LEMMA GroupTerminalEffect ==
  ASSUME Shapes, NEW r \in Run, GroupTerminal(r)
  PROVE  \E x : /\ Set(r, x) /\ x.at = "attributing" /\ run[r].at = "attributing" /\ run[r].next <= Len(run[r].terminals)
                /\ x.next = run[r].next + 1 /\ x.terminals = run[r].terminals /\ x.candidates = run[r].candidates
                /\ x.base = run[r].base
                /\ x.groups = run[r].groups \cup
                     {<<e, run[r].next>> : e \in GroupOf(run[r].terminals[run[r].next].address, ObservedAt(r))}
                /\ UNCHANGED <<scene, registry, results, desk>>
<1> DEFINE o == run[r]
           new == {<<e, o.next>> : e \in GroupOf(o.terminals[o.next].address, ObservedAt(r))}
           x == [o EXCEPT !.next = @ + 1, !.groups = @ \cup new]
<1>1. /\ Set(r, x) /\ o.at = "attributing" /\ o.next <= Len(o.terminals) /\ UNCHANGED <<scene, registry, results, desk>>
      /\ Shape(o)
  BY DEF GroupTerminal, tables, Shapes
<1> HIDE DEF new, o
<1>2. /\ x.at = "attributing" /\ x.next = o.next + 1 /\ x.terminals = o.terminals /\ x.candidates = o.candidates
      /\ x.base = o.base /\ x.groups = o.groups \cup new
  BY <1>1 DEF Shape
<1> HIDE DEF x
<1> QED
  BY <1>1, <1>2 DEF o, new

LEMMA AttributionsGroupTerminal ==
  ASSUME CInv, Shapes, Registered, Flows, Attributions, Kept, NEW r \in Runs, GroupTerminal(r) PROVE Attributions'
<1>0. PICK o, s, n : o = run[r] /\ s = o.terminals /\ n = o.next
  OBVIOUS
<1> DEFINE of == GroupOf(s[n].address, ObservedAt(r))
<1>1. PICK x : /\ Set(r, x) /\ x.at = "attributing" /\ o.at = "attributing" /\ n <= Len(s)
               /\ x.next = n + 1 /\ x.terminals = s /\ x.candidates = o.candidates
               /\ x.groups = o.groups \cup {<<e, n>> : e \in of}
               /\ UNCHANGED <<scene, registry, results, desk>>
  BY <1>0, Runners, GroupTerminalEffect DEF CInv
<1>2. r \in Run /\ Attributed(s, o.candidates, Len(desk)) /\ Grouped(s, o.groups, o.candidates, n)
  BY <1>0, <1>1, Runners DEF CInv, Attributions
<1>3. n \in DOMAIN s /\ n \in Nat /\ DOMAIN s \subseteq Nat /\ Len(s) \in Nat
  <2>1. Len(s) \in Nat /\ DOMAIN s = 1 .. Len(s)
    BY <1>0, <1>1, SequenceDomain, Zenon DEF Flows, Carrying, Booked, Stopped
  <2>2. n \in Nat \ {0}
    BY <1>2 DEF Grouped
  <2> QED
    BY <1>1, <2>1, <2>2
<1>4. (\A e \in of : Backed(s[n].address, e, Len(desk))) /\ \A e, f \in of : e = f
  BY GroupOfBacked
<1>5. PICK G : G = o.groups \cup {<<e, n>> : e \in of}
  OBVIOUS
<1>6. \A g \in G : g \in o.groups \/ \E e \in of : g = <<e, n>>
  BY <1>5
<1> HIDE DEF of
<1>7. o.candidates = {}
  BY <1>1, <1>2, <1>3 DEF Grouped
<1>8. Grouped(s, G, o.candidates, n + 1)
  <2>1. ASSUME NEW g \in G
        PROVE  /\ g = <<g[1], g[2]>> /\ g[2] \in DOMAIN s /\ g[2] < n + 1
               /\ Backed(s[g[2]].address, g[1], Len(desk))
    <3>1. CASE g \in o.groups
      <4>1. /\ g = <<g[1], g[2]>> /\ g[2] \in DOMAIN s /\ g[2] < n
            /\ Backed(s[g[2]].address, g[1], Len(desk))
        BY <1>2, <3>1 DEF Grouped
      <4>2. g[2] \in Nat
        BY <1>3, <4>1
      <4> QED
        BY <1>3, <4>1, <4>2
    <3>2. CASE g \notin o.groups
      <4>1. PICK e \in of : g = <<e, n>>
        BY <1>6, <3>2
      <4> QED
        BY <1>3, <1>4, <4>1
    <3> QED
      BY <3>1, <3>2
  <2>2. ASSUME NEW g \in G, NEW h \in G, g[2] = h[2] PROVE g = h
    <3>1. \A f \in o.groups : f[2] # n /\ f = <<f[1], f[2]>>
      BY <1>2, <1>3 DEF Grouped
    <3>2. CASE g \in o.groups /\ h \in o.groups
      BY <1>2, <2>2, <3>2 DEF Grouped
    <3>3. CASE g \notin o.groups \/ h \notin o.groups
      <4>1. (\E e \in of : g = <<e, n>>) /\ \E e \in of : h = <<e, n>>
        BY <1>6, <2>2, <3>1, <3>3
      <4> QED
        BY <1>4, <4>1
    <3> QED
      BY <3>2, <3>3
  <2>3. n + 1 \in Nat \ {0}
    BY <1>3
  <2> QED
    BY <1>7, <2>1, <2>2, <2>3 DEF Grouped
<1>9. Attributed(x.terminals, x.candidates, Len(desk))' /\ Grouped(x.terminals, x.groups, x.candidates, x.next)'
  <2>1. Len(desk) \in 0 .. Len(desk) /\ Len(desk) \in Nat /\ Len(desk) <= Len(desk')
    BY DEF Kept
  <2>2. PICK S : S = o.candidates
    OBVIOUS
  <2>3. Attributed(s, S, Len(desk))'
    BY <1>2, <2>1, <2>2, AttributedStays
  <2>4. Grouped(s, G, S, n + 1)'
    BY <1>8, <2>2, GroupedStays
  <2>5. x.terminals = s /\ x.candidates = S /\ x.next = n + 1 /\ x.groups = G
    BY <1>1, <1>5, <2>2
  <2> QED
    BY <2>3, <2>4, <2>5
<1> QED
  BY <1>1, <1>2, <1>9, OneRun, AttributionsCarried

\* The terminals of an entity's groups, and the candidate they make.
Mine(groups, e) == {h[2] : h \in {k \in groups : k[1] = e}}

EvidenceOf(terminals, groups, e) == EntityAssertions(e, {terminals[k].address : k \in Mine(groups, e)})

CandidateOf(terminals, groups, e) ==
  [entity |-> e, terminals |-> Mine(groups, e), evidence |-> EvidenceOf(terminals, groups, e),
   status |-> CandidateStatus(EvidenceOf(terminals, groups, e)),
   amount |-> Total(Mine(groups, e), AmountsOf(terminals))]

LEMMA BuildCandidateEffect ==
  ASSUME Shapes, NEW r \in Run, BuildCandidate(r)
  PROVE  \E x : \E g \in First(run[r].groups) :
           LET c == CandidateOf(run[r].terminals, run[r].groups, g[1]) IN
           /\ Set(r, x) /\ x.at = "attributing" /\ run[r].at = "attributing" /\ run[r].next > Len(run[r].terminals)
           /\ x.next = run[r].next /\ x.terminals = run[r].terminals /\ x.base = run[r].base
           /\ x.groups = {h \in run[r].groups : h[1] # g[1]}
           /\ x.candidates = IF c.status = "UNRESOLVED" THEN run[r].candidates ELSE run[r].candidates \cup {c}
           /\ UNCHANGED <<scene, registry, results, desk>>
<1> DEFINE o == run[r]
<1>1. /\ o.at = "attributing" /\ o.next > Len(o.terminals) /\ UNCHANGED <<scene, registry, results, desk>> /\ Shape(o)
  BY DEF BuildCandidate, tables, Shapes
<1>2. PICK g \in First(o.groups) :
        Set(r, [o EXCEPT !.groups = {h \in @ : h[1] # g[1]},
                         !.candidates = IF CandidateOf(o.terminals, o.groups, g[1]).status = "UNRESOLVED" THEN @
                                        ELSE @ \cup {CandidateOf(o.terminals, o.groups, g[1])}])
  BY Zenon DEF BuildCandidate, CandidateOf, EvidenceOf, Mine
<1> DEFINE c == CandidateOf(o.terminals, o.groups, g[1])
           G == {h \in o.groups : h[1] # g[1]}
           C == IF c.status = "UNRESOLVED" THEN o.candidates ELSE o.candidates \cup {c}
           x == [o EXCEPT !.groups = G, !.candidates = C]
<1>3. Set(r, x)
  BY <1>2
<1> HIDE DEF o, G, C
<1>4. /\ x.at = "attributing" /\ x.next = o.next /\ x.terminals = o.terminals /\ x.base = o.base
      /\ x.groups = G /\ x.candidates = C
  BY <1>1 DEF Shape
<1> HIDE DEF x
<1> QED
  BY <1>1, <1>2, <1>3, <1>4 DEF o, G, C

\* An assertion that counts for an entity is reviewed.
LEMMA EvidenceIs ==
  ASSUME Registered, NEW s, NEW G, NEW e, NEW k \in EvidenceOf(s, G, e)
  PROVE  /\ k \in DOMAIN registry /\ registry[k].entity = e /\ EffectiveState(registry[k], Today) = "REVIEWED"
         /\ Accepted(k, Len(desk)) /\ \E j \in Mine(G, e) : registry[k].address = s[j].address
<1>1. /\ k \in DOMAIN registry /\ registry[k].address \in {s[j].address : j \in Mine(G, e)} /\ registry[k].entity = e
      /\ EffectiveState(registry[k], Today) = "REVIEWED"
  BY DEF EvidenceOf, EntityAssertions, Where
<1>2. registry[k].state = "REVIEWED"
  BY <1>1 DEF EffectiveState
<1> QED
  BY <1>1, <1>2 DEF Registered

\* The amounts of the candidates grow by that of a new one.
LEMMA CandidateAdds ==
  ASSUME NEW S, NEW c, c \notin S, Summable(S, [d \in S |-> d.amount]), c.amount \in Nat
  PROVE  Total(S \cup {c}, [d \in S \cup {c} |-> d.amount]) = Total(S, [d \in S |-> d.amount]) + c.amount
<1> DEFINE a == [d \in S |-> d.amount]
           b == [d \in S \cup {c} |-> d.amount]
<1>1. Summable(S, a) /\ b[c] = c.amount /\ b[c] \in Nat /\ \A d \in S : a[d] = b[d]
  OBVIOUS
<1> HIDE DEF a, b
<1>2. Total(S \cup {c}, b) = Total(S, a) + b[c]
  BY <1>1, TotalGrows
<1> QED
  BY <1>1, <1>2 DEF a, b

\* The candidate of one entity joins the others.
LEMMA CandidateJoins ==
  ASSUME Registered, NEW s, NEW G, NEW S, NEW n, Summable(DOMAIN s, AmountsOf(s)),
         Attributed(s, S, Len(desk)), Grouped(s, G, S, n), NEW g \in G, n > Len(s), IsSequence(s),
         NEW c, c = CandidateOf(s, G, g[1])
  PROVE  /\ Attributed(s, S \cup {c}, Len(desk))
         /\ Grouped(s, {h \in G : h[1] # g[1]}, S \cup {c}, n)
<1> DEFINE e == g[1]
           mine == Mine(G, e)
<1>1. /\ c.entity = e /\ c.terminals = mine /\ c.amount = Total(mine, AmountsOf(s))
      /\ c.status = CandidateStatus(EvidenceOf(s, G, e))
  BY DEF CandidateOf
<1>2. ASSUME NEW j \in mine
      PROVE  j \in DOMAIN s /\ Backed(s[j].address, e, Len(desk)) /\ \A d \in S : j \notin d.terminals
  <2>1. PICK h \in G : h[1] = e /\ h[2] = j
    BY DEF Mine
  <2> QED
    BY <2>1 DEF Grouped
<1>3. \A d \in S : d.entity # e
  BY DEF Grouped
<1>4. c \notin S
  BY <1>1, <1>3
<1> HIDE DEF e, mine
<1>5. IsFiniteSet(S \cup {c})
  BY FS_AddElement DEF Attributed
<1>6. c.status = "VERIFIED" => \E j \in mine : Proved(s[j].address, e, Len(desk))
  <2>1. ASSUME c.status = "VERIFIED" PROVE \E k \in EvidenceOf(s, G, e) : registry[k].type = "VERIFIED"
    BY <1>1, <2>1 DEF CandidateStatus
  <2>2. ASSUME NEW k \in EvidenceOf(s, G, e), registry[k].type = "VERIFIED"
        PROVE  \E j \in mine : Proved(s[j].address, e, Len(desk))
    BY <2>2, EvidenceIs DEF Proved, mine
  <2> QED
    BY <2>1, <2>2
<1>7. ASSUME NEW d \in S \cup {c}
      PROVE  /\ d.terminals \subseteq DOMAIN s /\ d.amount = Total(d.terminals, AmountsOf(s))
             /\ \A j \in d.terminals : Backed(s[j].address, d.entity, Len(desk))
             /\ d.status = "VERIFIED" => \E j \in d.terminals : Proved(s[j].address, d.entity, Len(desk))
  <2>1. CASE d \in S
    BY <2>1 DEF Attributed
  <2>2. CASE d = c
    BY <1>1, <1>2, <1>6, <2>2
  <2> QED
    BY <2>1, <2>2
<1>8. ASSUME NEW d \in S \cup {c}, NEW f \in S \cup {c}, d # f PROVE d.terminals \cap f.terminals = {}
  <2>1. CASE d \in S /\ f \in S
    BY <1>8, <2>1 DEF Attributed
  <2>2. CASE d = c \/ f = c
    BY <1>1, <1>2, <1>8, <2>2
  <2> QED
    BY <2>1, <2>2
<1> DEFINE F == AmountsOf(s)
           T == UNION {d.terminals : d \in S}
           a == [d \in S |-> d.amount]
           b == [d \in S \cup {c} |-> d.amount]
<1>9. Total(S \cup {c}, b) = Total(UNION {d.terminals : d \in S \cup {c}}, F)
  <2>1. T \in SUBSET DOMAIN s /\ mine \in SUBSET DOMAIN s /\ T \cap mine = {}
    <3>1. \A d \in S : d.terminals \subseteq DOMAIN s
      BY DEF Attributed
    <3> QED
      BY <1>2, <3>1
  <2>2. UNION {d.terminals : d \in S \cup {c}} = T \cup mine
    BY <1>1
  <2> HIDE DEF F, T
  <2>3. Summable(T, F) /\ Summable(mine, F) /\ Total(mine, F) \in Nat
    BY <2>1, PartSummable DEF F
  <2>4. Total(T \cup mine, F) = Total(T, F) + Total(mine, F)
    BY <2>1, <2>3, TotalUnion
  <2>5. Summable(S, a)
    <3>1. \A d \in S : a[d] \in Nat
      <4>1. \A d \in S : d.amount = Total(d.terminals, F) /\ d.terminals \in SUBSET DOMAIN s
        BY DEF Attributed, F
      <4> QED
        BY <4>1, PartSummable DEF F
    <3>2. IsFiniteSet(S)
      BY DEF Attributed
    <3> HIDE DEF a
    <3> QED
      BY <3>1, <3>2, FiniteSummable
  <2>6. b[c] = Total(mine, F) /\ \A d \in S : a[d] = b[d]
    BY <1>1 DEF F
  <2>7. Total(S, a) = Total(T, F)
    BY DEF Attributed, F, T
  <2>8. Total(S \cup {c}, b) = Total(S, a) + c.amount
    <3>1. c.amount \in Nat
      BY <1>1, <2>3 DEF F
    <3> QED
      BY <1>4, <2>5, <3>1, CandidateAdds
  <2> QED
    BY <2>2, <2>4, <2>6, <2>7, <2>8
<1>10. Attributed(s, S \cup {c}, Len(desk))
  BY <1>5, <1>7, <1>8, <1>9 DEF Attributed
<1>11. Grouped(s, {h \in G : h[1] # g[1]}, S \cup {c}, n)
  <2>1. ASSUME NEW h \in G, h[1] # e PROVE c.entity # h[1] /\ h[2] \notin c.terminals
    <3>1. ASSUME h[2] \in mine PROVE FALSE
      <4>1. PICK f \in G : f[1] = e /\ f[2] = h[2]
        BY <3>1 DEF mine, Mine
      <4> QED
        BY <2>1, <4>1 DEF Grouped
    <3> QED
      BY <1>1, <2>1, <3>1
  <2>2. Len(s) < n
    BY SequenceDomain DEF Grouped
  <2>3. /\ n \in Nat \ {0}
        /\ \A h \in G :
             /\ h = <<h[1], h[2]>> /\ h[2] \in DOMAIN s /\ h[2] < n
             /\ Backed(s[h[2]].address, h[1], Len(desk))
             /\ \A d \in S : d.entity # h[1] /\ h[2] \notin d.terminals
        /\ \A f, h \in G : f[2] = h[2] => f = h
    BY DEF Grouped
  <2> QED
    BY <2>1, <2>2, <2>3 DEF Grouped, e
<1> QED
  BY <1>10, <1>11

LEMMA AttributionsBuildCandidate ==
  ASSUME CInv, Shapes, Registered, Flows, Attributions, Kept, NEW r \in Runs, BuildCandidate(r) PROVE Attributions'
<1>1. PICK o, s, G, S, n : o = run[r] /\ s = o.terminals /\ G = o.groups /\ S = o.candidates /\ n = o.next
  OBVIOUS
<1>2. r \in Run
  BY Runners DEF CInv
<1>3. PICK x : \E g \in First(G) :
        LET c == CandidateOf(s, G, g[1]) IN
        /\ Set(r, x) /\ x.at = "attributing" /\ o.at = "attributing" /\ n > Len(s)
        /\ x.next = n /\ x.terminals = s
        /\ x.groups = {h \in G : h[1] # g[1]}
        /\ x.candidates = IF c.status = "UNRESOLVED" THEN S ELSE S \cup {c}
        /\ UNCHANGED <<scene, registry, results, desk>>
  BY <1>1, <1>2, BuildCandidateEffect
<1>4. PICK g \in First(G) :
        LET c == CandidateOf(s, G, g[1]) IN
        /\ Set(r, x) /\ x.at = "attributing" /\ o.at = "attributing" /\ n > Len(s)
        /\ x.next = n /\ x.terminals = s
        /\ x.groups = {h \in G : h[1] # g[1]}
        /\ x.candidates = IF c.status = "UNRESOLVED" THEN S ELSE S \cup {c}
        /\ UNCHANGED <<scene, registry, results, desk>>
  BY <1>3
<1>5. PICK c, left : c = CandidateOf(s, G, g[1]) /\ left = {h \in G : h[1] # g[1]}
  OBVIOUS
<1>6. Attributed(s, S, Len(desk)) /\ Grouped(s, G, S, n) /\ g \in G
  BY <1>1, <1>4 DEF Attributions, First
<1>7. IsSequence(s) /\ Summable(DOMAIN s, AmountsOf(s))
  <2>1. Booked(Transfers(r), Evidence(r).root, o)
    BY <1>1, <1>4 DEF Flows, Carrying
  <2>2. Summable(DOMAIN o.terminals, AmountsOf(o.terminals))
    BY <1>2, <2>1, TerminalsSummable
  <2>3. IsSequence(o.terminals)
    BY <2>1 DEF Booked, Stopped
  <2> QED
    BY <1>1, <2>2, <2>3
<1>8. Attributed(s, S \cup {c}, Len(desk)) /\ Grouped(s, left, S \cup {c}, n)
  BY <1>4, <1>5, <1>6, <1>7, CandidateJoins, SMTT(20)
<1>9. Grouped(s, left, S, n)
  BY <1>5, <1>6 DEF Grouped
<1>10. PICK C : C = x.candidates /\ (C = S \/ C = S \cup {c})
  BY <1>4, <1>5
<1>11. Attributed(s, C, Len(desk)) /\ Grouped(s, left, C, n)
  BY <1>6, <1>8, <1>9, <1>10
<1>12. Attributed(s, C, Len(desk))' /\ Grouped(s, left, C, n)'
  <2>1. Len(desk) \in 0 .. Len(desk) /\ Len(desk) \in Nat /\ Len(desk) <= Len(desk')
    BY DEF Kept
  <2> QED
    BY <1>11, <2>1, AttributedStays, GroupedStays
<1>13. x.at = "attributing" /\ x.terminals = s /\ x.groups = left /\ x.next = n
  BY <1>4, <1>5
<1> QED
  BY <1>2, <1>4, <1>10, <1>12, <1>13, OneRun, AttributionsCarried

LEMMA AttributionsSaveResult == ASSUME CInv, Attributions, Kept, NEW r \in Runs, SaveResult(r) PROVE Attributions'
<1>1. r \in Run
  BY Runners DEF CInv
<1>2. PICK x : /\ Set(r, x) /\ x.at \notin Carrying /\ run[r].at = "attributing" /\ UNCHANGED <<registry, desk>>
               /\ \/ results' = results
                  \/ /\ DOMAIN results' = 1 .. Len(results) + 1 /\ DOMAIN results = 1 .. Len(results)
                     /\ \A p \in DOMAIN results' : p \in DOMAIN results \/ p = Len(results) + 1
                     /\ results'[Len(results) + 1] = SavedEntry(r)
                     /\ \A p \in DOMAIN results : results'[p] = results[p]
  BY <1>1, SaveResultEffect
<1>3. x.at # "attributing"
  BY <1>2 DEF Carrying
<1>4. CASE results' = results
  BY <1>1, <1>2, <1>3, <1>4, OneRun, AttributionsCarried
<1>5. CASE results' # results
  <2>1. PICK s, S, m, new : s = run[r].terminals /\ S = run[r].candidates /\ m = Len(desk) /\ new = Len(results) + 1
    OBVIOUS
  <2>2. m \in 0 .. Len(desk) /\ m \in Nat /\ m <= Len(desk') /\ m \in 0 .. Len(desk')
    BY <2>1 DEF Kept
  <2>3. Attributed(s, S, m)
    BY <1>2, <2>1 DEF Attributions
  <2>4. Attributed(s, S, m)'
    BY <2>2, <2>3, AttributedStays
  <2>5. results'[new].noted = m /\ results'[new].snapshot.terminals = s /\ results'[new].snapshot.candidates = S
    BY <1>2, <1>5, <2>1 DEF SavedEntry, Snapshot
  <2>6. DOMAIN results' \subseteq DOMAIN results \cup {new} /\ \A p \in DOMAIN results : results'[p] = results[p]
    BY <1>2, <1>5, <2>1
  <2> QED
    BY <1>1, <1>2, <1>3, <2>2, <2>4, <2>5, <2>6, OneRun, AttributionsCarried
<1> QED
  BY <1>4, <1>5

LEMMA AttributionsElsewhere == ASSUME CInv, Attributions, Kept, UNCHANGED <<results, run>> PROVE Attributions'
<1>1. CASE Runs = {}
  BY <1>1 DEF Attributions, CInv, Authors, Kept, Runs
<1>2. CASE Runs # {}
  <2>1. PICK r \in Runs : TRUE
    BY <1>2
  <2>2. PICK z : z = run[r]
    OBVIOUS
  <2>3. r \in Run /\ run'[r] = z /\ \A q \in Run \ {r} : run'[q] = run[q]
    BY <2>2, Runners DEF CInv
  <2>4. ASSUME z.at = "attributing"
        PROVE  Attributed(z.terminals, z.candidates, Len(desk))' /\ Grouped(z.terminals, z.groups, z.candidates, z.next)'
    <3>1. Attributed(z.terminals, z.candidates, Len(desk)) /\ Grouped(z.terminals, z.groups, z.candidates, z.next)
      BY <2>2, <2>4 DEF Attributions
    <3>2. Len(desk) \in 0 .. Len(desk) /\ Len(desk') \in Nat /\ Len(desk) <= Len(desk')
      BY DEF Kept
    <3> QED
      BY <3>1, <3>2, AttributedStays, GroupedStays
  <2> QED
    BY <2>3, <2>4, AttributionsCarried
<1> QED
  BY <1>1, <1>2

\* A run that attributes nothing.
LEMMA AttributionsIdle ==
  ASSUME CInv, Attributions, Kept, NEW r \in Run, NEW x, Set(r, x), UNCHANGED results, x.at # "attributing"
  PROVE  Attributions'
BY OneRun, AttributionsCarried

LEMMA AttributionsStep ==
  ASSUME CInv, Shapes, Registered, Flows, Attributions, Kept, [Next]_vars PROVE Attributions'
<1>1. ASSUME NEW r \in Runs, RunStep(r) PROVE Attributions'
  <2>1. r \in Run
    BY Runners DEF CInv
  <2>2. CASE StartRun(r)
    <3> DEFINE held == [a \in AddressesOf(Transfers(r)) |-> IF a = Evidence(r).root THEN Evidence(r).seed ELSE 0]
               x == [at |-> "tracing", next |-> 1, base |-> Len(desk), allocations |-> << >>, terminals |-> << >>,
                     held |-> held]
    <3>1. Set(r, x) /\ x.at = "tracing" /\ UNCHANGED results
      BY <2>2 DEF StartRun, tables
    <3> HIDE DEF x
    <3> QED
      BY <2>1, <3>1, AttributionsIdle
  <2>3. CASE TraceTransfer(r)
    BY <2>1, <2>3, TraceTransferEffect, AttributionsIdle, Zenon DEF TraceTransfer, tables
  <2>4. CASE Infers(r)
    BY <2>1, <2>4, InfersEffect, AttributionsIdle
  <2>5. CASE Finishes(r)
    BY <2>1, <2>5, FinishesEffect, AttributionsIdle DEF Carrying
  <2> QED
    BY <1>1, <2>1, <2>2, <2>3, <2>4, <2>5, AttributionsEndInference, AttributionsGroupTerminal,
       AttributionsBuildCandidate, AttributionsSaveResult DEF RunStep, Infers, Finishes
<1>2. CASE UNCHANGED <<results, run>>
  BY <1>2, AttributionsElsewhere
<1> QED
  BY <1>1, <1>2
  DEF Next, DeskStep, PostAssertion, ReviewAssertion, UpdateStatus, RegisterProfile, RequestStep, AskForDraft, SaveDraft, vars, tables

\* What the request for a candidate may name is covered.
LEMMA AttributionsReviewed == ASSUME Flows, Attributions PROVE RequestsReviewed
<1> SUFFICES ASSUME NEW p \in DOMAIN results
             PROVE  LET s == results[p].snapshot IN
                    /\ Total(s.candidates, [c \in s.candidates |-> c.amount]) <= Total(DOMAIN s.terminals, AmountsOf(s.terminals))
                    /\ \A c \in s.candidates :
                         LET of(a) == {k \in DOMAIN registry : registry[k].address = a /\ registry[k].entity = c.entity
                                                               /\ Accepted(k, results[p].noted)}
                             addresses == {s.terminals[j].address : j \in c.terminals}
                         IN  /\ \A a \in addresses : \E k \in of(a) : registry[k].role \in ActionableRoles
                             /\ MaximumRequestAmount(p, c) > 0 =>
                                  \E a \in addresses : \E k \in of(a) : registry[k].type = "VERIFIED"
  BY DEF RequestsReviewed
<1>1. PICK s, S, m : s = results[p].snapshot.terminals /\ S = results[p].snapshot.candidates /\ m = results[p].noted
  OBVIOUS
<1>2. Attributed(s, S, m) /\ Summable(DOMAIN s, AmountsOf(s))
  BY <1>1, TerminalsSummable DEF Attributions, Flows
<1>3. Total(S, [c \in S |-> c.amount]) <= Total(DOMAIN s, AmountsOf(s))
  <2> DEFINE T == UNION {c.terminals : c \in S}
  <2>1. T \in SUBSET DOMAIN s /\ Total(S, [c \in S |-> c.amount]) = Total(T, AmountsOf(s))
    BY <1>2 DEF Attributed
  <2> HIDE DEF T
  <2>2. Total(T, AmountsOf(s)) <= Total(DOMAIN s, AmountsOf(s))
    BY <1>2, <2>1, TotalPart
  <2> QED
    BY <2>1, <2>2
<1>4. ASSUME NEW c \in S, NEW j \in c.terminals
      PROVE  \E k \in DOMAIN registry : /\ registry[k].address = s[j].address /\ registry[k].entity = c.entity
                                        /\ Accepted(k, m) /\ registry[k].role \in ActionableRoles
  BY <1>2 DEF Attributed, Backed
<1>5. ASSUME NEW c \in S, MaximumRequestAmount(p, c) > 0
      PROVE  \E j \in c.terminals : \E k \in DOMAIN registry :
               /\ registry[k].address = s[j].address /\ registry[k].entity = c.entity
               /\ Accepted(k, m) /\ registry[k].type = "VERIFIED"
  <2>1. c.status = "VERIFIED"
    BY <1>5 DEF MaximumRequestAmount, Blocked
  <2> QED
    BY <1>2, <2>1 DEF Attributed, Proved
<1> QED
  BY <1>1, <1>3, <1>4, <1>5

-----------------------------------------------------------------------------
(* The endpoints *)

\* What excuses a terminal's being of no candidate: a is its address, n the last transfer.
\* A result's is told by the assertions it was saved with.
Unsettled(a, n, base) ==
  \/ Reconsidered(a, base, Len(desk))
  \/ \A k \in DOMAIN registry : registry[k].address = a => ~ Trusted(registry[k], n)
  \/ \E k \in DOMAIN registry : registry[k].address = a /\ registry[k].stale > n /\ registry[k].stale <= Today

\* A verified and reviewed assertion puts the address under the entity.
Settled(a, n, e) ==
  \E k \in DOMAIN registry :
    /\ registry[k].address = a /\ registry[k].entity = e /\ registry[k].type = "VERIFIED"
    /\ EffectiveState(registry[k], n) = "REVIEWED"

\* The terminals J are dealt with: each is excused, of a candidate, or of a group that
\* will become one.
Reaching(terminals, J, groups, candidates, n, base) ==
  /\ base \in 0 .. Len(desk)
  /\ \A j \in J : \/ Unsettled(terminals[j].address, n, base)
                  \/ \E c \in candidates : j \in c.terminals
                  \/ \E g \in groups : g[2] = j
  /\ \A g \in groups : Unsettled(terminals[g[2]].address, n, base) \/ Settled(terminals[g[2]].address, n, g[1])

Excused(e) ==
  /\ e.base \in Nat /\ e.noted \in 0 .. Len(desk)
  /\ \A j \in DOMAIN e.snapshot.terminals :
       LET a == e.snapshot.terminals[j].address
           n == Len(e.snapshot.transfers)
           known == {x \in Range(e.registry) : x.address = a}
       IN  \/ \E c \in e.snapshot.candidates : j \in c.terminals
           \/ Reconsidered(a, e.base, e.noted)
           \/ \A x \in known : ~ Trusted(x, n)
           \/ \E x \in known : x.stale > n /\ x.stale <= Today

Passed(terminals, next) == {j \in DOMAIN terminals : j < next}

Reached ==
  /\ \A r \in Runs : run[r].at \in Carrying => run[r].base \in 0 .. Len(desk)
  /\ \A r \in Runs : run[r].at = "attributing" =>
       Reaching(run[r].terminals, Passed(run[r].terminals, run[r].next), run[r].groups, run[r].candidates,
                ObservedAt(r), run[r].base)
  /\ \A p \in DOMAIN results : Excused(results[p])

LEMMA ExcusedStays == ASSUME Kept, NEW e, Excused(e) PROVE Excused(e)'
<1>1. e.base \in Nat /\ e.noted \in 0 .. Len(desk) /\ e.noted \in 0 .. Len(desk')
  BY DEF Excused, Kept
<1>2. \A a : Reconsidered(a, e.base, e.noted) => Reconsidered(a, e.base, e.noted)'
  BY <1>1, ReconsideredStays
<1> QED
  BY <1>1, <1>2 DEF Excused, Trusted, EffectiveState

\* What settles an address goes only by a decision on it.
LEMMA UnsettledStays ==
  ASSUME Kept, NEW a, NEW n, NEW m \in 0 .. Len(desk)
  PROVE  /\ Unsettled(a, n, m) => Unsettled(a, n, m)'
         /\ \A e : Settled(a, n, e) => Settled(a, n, e)' \/ Unsettled(a, n, m)'
<1>0. m \in Nat /\ Len(desk) \in 0 .. Len(desk) /\ Len(desk') \in Nat /\ Len(desk) <= Len(desk')
  BY DEF Kept
<1>1. CASE \E k \in DOMAIN registry' :
             /\ registry'[k].address = a
             /\ \/ k \in DOMAIN registry /\ registry'[k].state # registry[k].state
                \/ k \notin DOMAIN registry /\ registry'[k].type = "VERIFIED"
  BY <1>1, RulingReconsiders DEF Unsettled
<1>2. CASE \A k \in DOMAIN registry' :
             registry'[k].address = a =>
               IF k \in DOMAIN registry THEN registry'[k].state = registry[k].state ELSE registry'[k].type # "VERIFIED"
  <2>1. ASSUME NEW k \in DOMAIN registry, registry[k].address = a
        PROVE  /\ k \in DOMAIN registry' /\ registry'[k].address = a /\ registry'[k].entity = registry[k].entity
               /\ registry'[k].type = registry[k].type /\ registry'[k].stale = registry[k].stale
               /\ EffectiveState(registry'[k], n) = EffectiveState(registry[k], n)
               /\ Trusted(registry'[k], n) <=> Trusted(registry[k], n)
    BY <1>2, <2>1 DEF Kept, Trusted, EffectiveState
  <2>2. ASSUME Unsettled(a, n, m) PROVE Unsettled(a, n, m)'
    <3>1. CASE Reconsidered(a, m, Len(desk))
      <4>1. PICK u : u = Len(desk')
        OBVIOUS
      <4>2. Reconsidered(a, m, u)'
        BY <1>0, <3>1, <4>1, ReconsideredStays
      <4> QED
        BY <4>1, <4>2 DEF Unsettled, Reconsidered
    <3>2. CASE \A k \in DOMAIN registry : registry[k].address = a => ~ Trusted(registry[k], n)
      <4>1. ASSUME NEW k \in DOMAIN registry', registry'[k].address = a PROVE ~ Trusted(registry'[k], n)
        <5>1. CASE k \in DOMAIN registry
          <6>1. registry[k].address = a
            BY <4>1, <5>1 DEF Kept
          <6> QED
            BY <2>1, <3>2, <5>1, <6>1
        <5>2. CASE k \notin DOMAIN registry
          BY <1>2, <4>1, <5>2 DEF Trusted
        <5> QED
          BY <5>1, <5>2
      <4> QED
        BY <4>1 DEF Unsettled, Trusted, EffectiveState
    <3>3. CASE \E k \in DOMAIN registry : registry[k].address = a /\ registry[k].stale > n /\ registry[k].stale <= Today
      BY <2>1, <3>3 DEF Unsettled
    <3> QED
      BY <2>2, <3>1, <3>2, <3>3 DEF Unsettled
  <2>3. ASSUME NEW e, Settled(a, n, e) PROVE Settled(a, n, e)'
    <3>1. PICK k \in DOMAIN registry :
            /\ registry[k].address = a /\ registry[k].entity = e /\ registry[k].type = "VERIFIED"
            /\ EffectiveState(registry[k], n) = "REVIEWED"
      BY <2>3 DEF Settled
    <3>2. /\ k \in DOMAIN registry' /\ registry'[k].address = a /\ registry'[k].entity = e
          /\ registry'[k].type = "VERIFIED" /\ EffectiveState(registry'[k], n) = "REVIEWED"
      BY <2>1, <3>1
    <3> QED
      BY <3>2 DEF Settled, EffectiveState
  <2> QED
    BY <2>2, <2>3
<1> QED
  BY <1>1, <1>2

LEMMA ReachingStays ==
  ASSUME Kept, NEW s, NEW J, NEW G, NEW S, NEW n, NEW m, Reaching(s, J, G, S, n, m)
  PROVE  Reaching(s, J, G, S, n, m)'
<1>1. m \in 0 .. Len(desk) /\ m \in 0 .. Len(desk')
  BY DEF Kept, Reaching
<1>2. ASSUME NEW j \in J
      PROVE  Unsettled(s[j].address, n, m)' \/ (\E c \in S : j \in c.terminals) \/ \E g \in G : g[2] = j
  BY <1>1, UnsettledStays DEF Reaching
<1>3. ASSUME NEW g \in G PROVE Unsettled(s[g[2]].address, n, m)' \/ Settled(s[g[2]].address, n, g[1])'
  <2>1. Unsettled(s[g[2]].address, n, m) \/ Settled(s[g[2]].address, n, g[1])
    BY DEF Reaching
  <2> QED
    BY <1>1, <2>1, UnsettledStays
<1> QED
  BY <1>1, <1>2, <1>3 DEF Reaching

\* A terminal with a trusted assertion is grouped under an entity that a verified one names.
LEMMA GroupOfSettled ==
  ASSUME Registered, NEW a, NEW n, NEW m
  PROVE  /\ Unsettled(a, n, m) \/ GroupOf(a, n) # {}
         /\ \A e \in GroupOf(a, n) : Unsettled(a, n, m) \/ Settled(a, n, e)
<1> SUFFICES ASSUME NEW k \in DOMAIN registry, registry[k].address = a, Trusted(registry[k], n)
             PROVE  GroupOf(a, n) # {} /\ \A e \in GroupOf(a, n) : Settled(a, n, e)
  BY DEF Unsettled
<1>1. k \in Actionable(a, n) /\ registry[k].type = "VERIFIED"
  <2>1. EffectiveState(registry[k], n) = "REVIEWED" /\ registry[k].role \in ActionableRoles /\ registry[k].type = "VERIFIED"
    BY DEF Trusted
  <2>2. registry[k].state = "REVIEWED"
    BY <2>1 DEF EffectiveState
  <2>3. k \in Resolved(a)
    BY <2>2, ResolvedIs
  <2> QED
    BY <2>1, <2>3 DEF Actionable, MayAct
<1>2. PICK b \in Best(Actionable(a, n), n) : registry[b].type = "VERIFIED"
  BY <1>1, BestVerified
<1>3. b \in Actionable(a, n)
  BY <1>2 DEF Best
<1>4. registry[b].entity \in GroupOf(a, n) /\ Settled(a, n, registry[b].entity)
  BY <1>2, <1>3, ActionableIs DEF GroupOf, Settled
<1> QED
  BY <1>4, GroupOfBacked

\* What settles an address counts for its entity, unless it runs out before the run ends.
LEMMA SettledCounts ==
  ASSUME Registered, NEW s, NEW G, NEW h \in G, NEW n, NEW m, Settled(s[h[2]].address, n, h[1]), n \in Nat,
         ~ Unsettled(s[h[2]].address, n, m)
  PROVE  CandidateStatus(EvidenceOf(s, G, h[1])) = "VERIFIED"
<1>1. PICK k \in DOMAIN registry :
        /\ registry[k].address = s[h[2]].address /\ registry[k].entity = h[1] /\ registry[k].type = "VERIFIED"
        /\ EffectiveState(registry[k], n) = "REVIEWED"
  BY DEF Settled
<1>2. registry[k].state = "REVIEWED" /\ ~ (registry[k].stale <= n) /\ registry[k].stale \in Nat
  BY <1>1 DEF EffectiveState, Registered, Entry
<1>3. ~ (registry[k].stale <= Today)
  BY <1>1, <1>2 DEF Unsettled
<1>4. EffectiveState(registry[k], Today) = "REVIEWED"
  BY <1>2, <1>3 DEF EffectiveState
<1>5. registry[k].address \in {s[j].address : j \in Mine(G, h[1])}
  BY <1>1 DEF Mine
<1>6. k \in EvidenceOf(s, G, h[1])
  BY <1>1, <1>4, <1>5 DEF EvidenceOf, EntityAssertions, Where
<1> QED
  BY <1>1, <1>6 DEF CandidateStatus

LEMMA ReachedStart == Init => Reached
<1> SUFFICES ASSUME Init PROVE Reached
  OBVIOUS
<1>1. World /\ results = << >> /\ \A r \in Run : run[r].at = "idle"
  BY DEF Init, World
<1> QED
  BY <1>1, Runners DEF Reached, Carrying

\* What one run reaches is its own: x is the run after its step, new its result, if that is
\* new.
LEMMA ReachedCarried ==
  ASSUME CInv, Reached, Kept, NEW r \in Run, NEW x,
         run'[r] = x, \A q \in Run \ {r} : run'[q] = run[q],
         x.at \in Carrying => x.base \in 0 .. Len(desk'),
         x.at = "attributing" =>
           Reaching(x.terminals, Passed(x.terminals, x.next), x.groups, x.candidates, ObservedAt(r), x.base)',
         NEW new, DOMAIN results' \subseteq DOMAIN results \cup {new}, \A p \in DOMAIN results : results'[p] = results[p],
         NEW e, new \in DOMAIN results' \ DOMAIN results => results'[new] = e /\ Excused(e)'
  PROVE  Reached'
<1>1. run'[r] = x /\ \A q \in Run \ {r} : run'[q] = run[q]
  OBVIOUS
<1>2. Runs' = Runs /\ Runs \subseteq Run /\ \A q : ObservedAt(q)' = ObservedAt(q)
  BY Runners DEF Runs, CInv, Kept, ObservedAt, Transfers, Evidence
<1>3. Len(desk') \in Nat /\ Len(desk) \in Nat /\ Len(desk) <= Len(desk')
  BY DEF Kept
<1>4. ASSUME NEW q \in Runs, run'[q].at \in Carrying PROVE run'[q].base \in 0 .. Len(desk')
  <2>1. CASE q = r
    BY <1>1, <1>4, <2>1
  <2>2. CASE q # r
    <3>1. run[q].base \in 0 .. Len(desk)
      BY <1>1, <1>2, <1>4, <2>2 DEF Reached
    <3> QED
      BY <1>1, <1>2, <1>3, <2>2, <3>1
  <2> QED
    BY <2>1, <2>2
<1>5. ASSUME NEW q \in Runs, run'[q].at = "attributing"
      PROVE  Reaching(run[q].terminals, Passed(run[q].terminals, run[q].next), run[q].groups, run[q].candidates,
                      ObservedAt(q), run[q].base)'
  <2>1. CASE q = r
    BY <1>1, <1>2, <1>5, <2>1 DEF Passed
  <2>2. CASE q # r
    <3>1. PICK z, J, k, b : z = run[q] /\ J = Passed(z.terminals, z.next) /\ k = ObservedAt(q) /\ b = z.base
      OBVIOUS
    <3>2. run'[q] = z /\ Reaching(z.terminals, J, z.groups, z.candidates, k, b)
      BY <1>1, <1>2, <1>5, <2>2, <3>1 DEF Reached
    <3>3. Reaching(z.terminals, J, z.groups, z.candidates, k, b)'
      BY <3>2, ReachingStays
    <3>4. ObservedAt(q)' = k /\ J = Passed(run[q].terminals, run[q].next)'
      BY <1>2, <3>1, <3>2 DEF Passed
    <3> QED
      BY <3>1, <3>2, <3>3, <3>4
  <2> QED
    BY <2>1, <2>2
<1>6. ASSUME NEW p \in DOMAIN results'
      PROVE  Excused(results[p])'
  <2>1. CASE p \in DOMAIN results
    <3>1. PICK f : f = results[p]
      OBVIOUS
    <3>2. results'[p] = f /\ Excused(f)
      BY <2>1, <3>1 DEF Reached
    <3>3. Excused(f)'
      BY <3>2, ExcusedStays
    <3> QED
      BY <3>2, <3>3
  <2>2. CASE p \notin DOMAIN results
    BY <1>6, <2>2
  <2> QED
    BY <2>1, <2>2
<1> QED
  BY <1>2, <1>4, <1>5, <1>6 DEF Reached

\* A run that attributes nothing.
LEMMA ReachedIdle ==
  ASSUME CInv, Reached, Kept, NEW r \in Run, NEW x, Set(r, x), UNCHANGED results, x.at # "attributing",
         x.at \in Carrying => x.base \in 0 .. Len(desk')
  PROVE  Reached'
BY OneRun, ReachedCarried

LEMMA ReachedElsewhere == ASSUME CInv, Reached, Kept, UNCHANGED <<results, run>> PROVE Reached'
<1>1. CASE Runs = {}
  BY <1>1 DEF Reached, CInv, Authors, Kept, Runs
<1>2. CASE Runs # {}
  <2>1. PICK r \in Runs : TRUE
    BY <1>2
  <2>2. PICK z, J, k, b : z = run[r] /\ J = Passed(z.terminals, z.next) /\ k = ObservedAt(r) /\ b = z.base
    OBVIOUS
  <2>3. r \in Run /\ run'[r] = z /\ \A q \in Run \ {r} : run'[q] = run[q]
    BY <2>2, Runners DEF CInv
  <2>4. z.at \in Carrying => b \in 0 .. Len(desk')
    BY <2>2 DEF Reached, Kept
  <2>5. ASSUME z.at = "attributing"
        PROVE  Reaching(z.terminals, Passed(z.terminals, z.next), z.groups, z.candidates, ObservedAt(r), z.base)'
    <3>1. Reaching(z.terminals, J, z.groups, z.candidates, k, b)
      BY <2>2, <2>5 DEF Reached
    <3>2. Reaching(z.terminals, J, z.groups, z.candidates, k, b)'
      BY <3>1, ReachingStays
    <3>3. ObservedAt(r)' = k /\ J = Passed(z.terminals, z.next)' /\ z.base = b
      BY <2>2 DEF ObservedAt, Transfers, Evidence, Kept, Passed
    <3> QED
      BY <3>2, <3>3
  <2> QED
    BY <2>2, <2>3, <2>4, <2>5, ReachedCarried
<1> QED
  BY <1>1, <1>2

LEMMA ReachedGroupTerminal ==
  ASSUME CInv, Shapes, Registered, Flows, Attributions, Reached, Kept, NEW r \in Runs, GroupTerminal(r) PROVE Reached'
<1>1. PICK o, s, n, k, b : o = run[r] /\ s = o.terminals /\ n = o.next /\ k = ObservedAt(r) /\ b = o.base
  OBVIOUS
<1>2. PICK of : of = GroupOf(s[n].address, k)
  OBVIOUS
<1>3. r \in Run
  BY Runners DEF CInv
<1>4. PICK x : /\ Set(r, x) /\ x.at = "attributing" /\ o.at = "attributing" /\ n <= Len(s)
               /\ x.next = n + 1 /\ x.terminals = s /\ x.candidates = o.candidates /\ x.base = b
               /\ x.groups = o.groups \cup {<<e, n>> : e \in of}
               /\ UNCHANGED <<scene, registry, results, desk>>
  BY <1>1, <1>2, <1>3, GroupTerminalEffect
<1>5. Reaching(s, Passed(s, n), o.groups, o.candidates, k, b)
  BY <1>1, <1>4 DEF Reached
<1>6. Unsettled(s[n].address, k, b) \/ of # {}
  BY <1>2, GroupOfSettled
<1>7. \A e \in of : Unsettled(s[n].address, k, b) \/ Settled(s[n].address, k, e)
  BY <1>2, GroupOfSettled
<1>8. PICK G, J, S : G = o.groups \cup {<<e, n>> : e \in of} /\ J = Passed(s, n + 1) /\ S = o.candidates
  BY Zenon
<1>9. \A j \in J : j \in Passed(s, n) \/ j = n
  <2>1. IsSequence(s) /\ n \in Nat
    BY <1>1, <1>4, Zenon DEF Flows, Carrying, Booked, Stopped, Attributions, Grouped
  <2>2. DOMAIN s \subseteq Nat
    BY <2>1, SequenceDomain
  <2> QED
    BY <1>8, <2>1, <2>2 DEF Passed
<1>10. \A e \in of : <<e, n>> \in G /\ <<e, n>>[2] = n
  BY <1>8
<1>11. \A g \in G : g \in o.groups \/ \E e \in of : g = <<e, n>>
  BY <1>8
<1>12. Reaching(s, J, G, S, k, b)
  <2>1. ASSUME NEW j \in J
        PROVE  Unsettled(s[j].address, k, b) \/ (\E c \in S : j \in c.terminals) \/ \E g \in G : g[2] = j
    <3>1. CASE j \in Passed(s, n)
      BY <1>5, <1>8, <3>1 DEF Reaching
    <3>2. CASE j = n
      BY <1>6, <1>10, <3>2
    <3> QED
      BY <1>9, <3>1, <3>2
  <2>2. ASSUME NEW g \in G PROVE Unsettled(s[g[2]].address, k, b) \/ Settled(s[g[2]].address, k, g[1])
    BY <1>5, <1>7, <1>11 DEF Reaching
  <2> QED
    BY <1>5, <2>1, <2>2 DEF Reaching
<1>13. Reaching(s, J, G, S, k, b)'
  BY <1>12, ReachingStays
<1>14. /\ x.terminals = s /\ x.groups = G /\ x.candidates = S /\ x.base = b /\ ObservedAt(r)' = k
       /\ J = Passed(x.terminals, x.next)' /\ b \in 0 .. Len(desk')
  BY <1>1, <1>4, <1>5, <1>8 DEF ObservedAt, Transfers, Evidence, Passed, Reaching
<1> QED
  BY <1>3, <1>4, <1>13, <1>14, OneRun, ReachedCarried

\* An entity's terminals are its candidate's, or excused.
LEMMA CandidateReaches ==
  ASSUME Registered, NEW s, NEW J, NEW G, NEW S, NEW k \in Nat, NEW b, Reaching(s, J, G, S, k, b), NEW g \in G,
         NEW c, c = CandidateOf(s, G, g[1]), NEW C, C = IF c.status = "UNRESOLVED" THEN S ELSE S \cup {c}
  PROVE  Reaching(s, J, {h \in G : h[1] # g[1]}, C, k, b)
<1>1. c.terminals = Mine(G, g[1]) /\ c.status = CandidateStatus(EvidenceOf(s, G, g[1]))
  BY DEF CandidateOf
<1>2. ASSUME NEW j \in J
      PROVE  \/ Unsettled(s[j].address, k, b)
             \/ \E d \in C : j \in d.terminals
             \/ \E h \in {f \in G : f[1] # g[1]} : h[2] = j
  <2>1. CASE \E d \in S : j \in d.terminals
    BY <2>1
  <2>2. CASE \E h \in G : h[2] = j
    <3>1. PICK h \in G : h[2] = j
      BY <2>2
    <3>2. CASE h[1] = g[1] /\ c.status # "UNRESOLVED"
      <4>1. c \in C /\ j \in c.terminals
        BY <1>1, <3>1, <3>2 DEF Mine
      <4> QED
        BY <4>1
    <3>3. CASE h[1] = g[1] /\ c.status = "UNRESOLVED"
      <4>1. Unsettled(s[j].address, k, b) \/ Settled(s[j].address, k, h[1])
        BY <3>1 DEF Reaching
      <4>2. CandidateStatus(EvidenceOf(s, G, h[1])) # "VERIFIED"
        BY <1>1, <3>3
      <4> QED
        BY <3>1, <4>1, <4>2, SettledCounts
    <3>4. CASE h[1] # g[1]
      BY <3>1, <3>4
    <3> QED
      BY <3>2, <3>3, <3>4
  <2> QED
    BY <2>1, <2>2 DEF Reaching
<1>3. \A h \in {f \in G : f[1] # g[1]} : Unsettled(s[h[2]].address, k, b) \/ Settled(s[h[2]].address, k, h[1])
  BY DEF Reaching
<1> HIDE DEF Unsettled, Settled
<1> QED
  BY <1>2, <1>3 DEF Reaching

LEMMA ReachedBuildCandidate ==
  ASSUME CInv, Shapes, Registered, Reached, Kept, NEW r \in Runs, BuildCandidate(r) PROVE Reached'
<1>1. PICK o, s, G, n, k, b : o = run[r] /\ s = o.terminals /\ G = o.groups /\ n = o.next /\ k = ObservedAt(r) /\ b = o.base
  OBVIOUS
<1>2. r \in Run /\ k \in Nat
  BY <1>1, EvidenceType DEF CInv, ObservedAt
<1>3. PICK x : \E g \in First(G) :
        LET c == CandidateOf(s, G, g[1]) IN
        /\ Set(r, x) /\ x.at = "attributing" /\ o.at = "attributing"
        /\ x.next = n /\ x.terminals = s /\ x.base = b
        /\ x.groups = {h \in G : h[1] # g[1]}
        /\ x.candidates = IF c.status = "UNRESOLVED" THEN o.candidates ELSE o.candidates \cup {c}
        /\ UNCHANGED <<scene, registry, results, desk>>
  BY <1>1, <1>2, BuildCandidateEffect
<1>4. PICK g \in First(G) :
        LET c == CandidateOf(s, G, g[1]) IN
        /\ Set(r, x) /\ x.at = "attributing" /\ o.at = "attributing"
        /\ x.next = n /\ x.terminals = s /\ x.base = b
        /\ x.groups = {h \in G : h[1] # g[1]}
        /\ x.candidates = IF c.status = "UNRESOLVED" THEN o.candidates ELSE o.candidates \cup {c}
        /\ UNCHANGED <<scene, registry, results, desk>>
  BY <1>3
<1>5. PICK c, left, C, J : /\ c = CandidateOf(s, G, g[1]) /\ left = {h \in G : h[1] # g[1]}
                           /\ C = IF c.status = "UNRESOLVED" THEN o.candidates ELSE o.candidates \cup {c}
                           /\ J = Passed(s, n)
  OBVIOUS
<1>6. g \in G /\ Reaching(s, J, G, o.candidates, k, b)
  BY <1>1, <1>4, <1>5 DEF Reached, First
<1>7. Reaching(s, J, left, C, k, b)
  BY <1>2, <1>5, <1>6, CandidateReaches
<1>8. Reaching(s, J, left, C, k, b)'
  BY <1>7, ReachingStays
<1>9. /\ x.terminals = s /\ x.groups = left /\ x.candidates = C /\ x.base = b /\ ObservedAt(r)' = k
      /\ J = Passed(x.terminals, x.next)' /\ b \in 0 .. Len(desk')
  BY <1>1, <1>4, <1>5, <1>6 DEF ObservedAt, Transfers, Evidence, Passed, Reaching
<1> QED
  BY <1>2, <1>4, <1>8, <1>9, OneRun, ReachedCarried

\* A run that has ended its inference has reached nothing yet.
LEMMA ReachedEndInference == ASSUME CInv, Flows, Reached, Kept, NEW r \in Runs, EndInference(r) PROVE Reached'
<1>1. r \in Run
  BY Runners DEF CInv
<1>2. PICK x : /\ Set(r, x) /\ results' = results /\ x.groups = {} /\ x.next = 1 /\ x.terminals = run[r].terminals
               /\ x.base = run[r].base
  <2> DEFINE y == run[r]
             x == [at |-> "attributing", base |-> y.base, allocations |-> y.allocations, terminals |-> y.terminals,
                   inferred |-> y.inferred, next |-> 1, groups |-> {}, candidates |-> {}]
  <2>1. Set(r, x) /\ results' = results
    BY DEF EndInference, tables
  <2>2. x.groups = {} /\ x.next = 1 /\ x.terminals = run[r].terminals /\ x.base = run[r].base
    OBVIOUS
  <2> HIDE DEF x
  <2> QED
    BY <2>1, <2>2
<1>3. run[r].at \in Carrying
  BY DEF EndInference, Carrying
<1>4. x.base \in 0 .. Len(desk')
  BY <1>2, <1>3 DEF Reached, Kept
<1>5. Passed(x.terminals, x.next) = {}
  <2>1. DOMAIN x.terminals = 1 .. Len(x.terminals) /\ Len(x.terminals) \in Nat
    BY <1>2, <1>3, SequenceDomain, Zenon DEF Flows, Booked, Stopped
  <2> QED
    BY <1>2, <2>1 DEF Passed
<1>6. Passed(x.terminals, x.next)' = {}
  BY <1>5 DEF Passed
<1>7. Reaching(x.terminals, Passed(x.terminals, x.next), x.groups, x.candidates, ObservedAt(r), x.base)'
  BY <1>2, <1>4, <1>6 DEF Reaching
<1> QED
  BY <1>1, <1>2, <1>4, <1>7, OneRun, ReachedCarried

LEMMA ReachedSaveResult ==
  ASSUME CInv, Registered, Flows, Attributions, Reached, Kept, NEW r \in Runs, SaveResult(r) PROVE Reached'
<1>1. r \in Run
  BY Runners DEF CInv
<1>2. PICK x : /\ Set(r, x) /\ x.at \notin Carrying /\ run[r].at = "attributing" /\ UNCHANGED <<scene, registry, desk>>
               /\ run[r].groups = {} /\ run[r].next > Len(run[r].terminals)
               /\ \/ results' = results
                  \/ /\ DOMAIN results' = 1 .. Len(results) + 1 /\ DOMAIN results = 1 .. Len(results)
                     /\ \A p \in DOMAIN results' : p \in DOMAIN results \/ p = Len(results) + 1
                     /\ results'[Len(results) + 1] = SavedEntry(r)
                     /\ \A p \in DOMAIN results : results'[p] = results[p]
  BY <1>1, SaveResultEffect
<1>3. x.at # "attributing"
  BY <1>2 DEF Carrying
<1>4. CASE results' = results
  BY <1>1, <1>2, <1>3, <1>4, OneRun, ReachedCarried
<1>5. CASE results' # results
  <2>1. PICK s, J, S, k, b, new :
          /\ s = run[r].terminals /\ J = DOMAIN s /\ S = run[r].candidates /\ k = ObservedAt(r) /\ b = run[r].base
          /\ new = Len(results) + 1
    BY Zenon
  <2>2. J = Passed(s, run[r].next)
    <3>1. IsSequence(s) /\ run[r].next \in Nat
      BY <1>2, <2>1, Zenon DEF Flows, Carrying, Booked, Stopped, Attributions, Grouped
    <3>2. J = 1 .. Len(s) /\ Len(s) \in Nat
      BY <2>1, <3>1, SequenceDomain
    <3> QED
      BY <1>2, <2>1, <3>1, <3>2 DEF Passed
  <2>3. Reaching(s, J, {}, S, k, b)
    BY <1>2, <2>1, <2>2 DEF Reached
  <2>4. PICK e : e = SavedEntry(r)
    OBVIOUS
  <2>5. /\ e.base = b /\ e.noted = Len(desk) /\ e.registry = registry
        /\ e.snapshot.terminals = s /\ e.snapshot.candidates = S /\ Len(e.snapshot.transfers) = k
    BY <2>1, <2>4 DEF SavedEntry, Snapshot, ObservedAt
  <2>6. Excused(e)
    <3>1. b \in Nat /\ Len(desk) \in 0 .. Len(desk)
      BY <2>3 DEF Reaching, Kept
    <3>2. Range(registry) = {registry[i] : i \in DOMAIN registry}
      BY DEF Range
    <3>3. ASSUME NEW j \in DOMAIN s
          PROVE  \/ \E c \in S : j \in c.terminals
                 \/ Reconsidered(s[j].address, b, Len(desk))
                 \/ \A z \in Range(registry) : z.address = s[j].address => ~ Trusted(z, k)
                 \/ \E z \in Range(registry) : z.address = s[j].address /\ z.stale > k /\ z.stale <= Today
      BY <2>1, <2>3, <3>2 DEF Reaching, Unsettled
    <3> QED
      BY <2>5, <3>1, <3>3 DEF Excused
  <2>7. results'[new] = e /\ Excused(e)'
    BY <1>2, <1>5, <2>1, <2>4, <2>6, ExcusedStays
  <2>8. DOMAIN results' \subseteq DOMAIN results \cup {new} /\ \A p \in DOMAIN results : results'[p] = results[p]
    BY <1>2, <1>5, <2>1
  <2>9. run'[r] = x /\ \A q \in Run \ {r} : run'[q] = run[q]
    BY <1>1, <1>2, OneRun
  <2>10. x.at \notin Carrying
    BY <1>2
  <2> QED
    BY <1>1, <1>3, <2>7, <2>8, <2>9, <2>10, ReachedCarried
<1> QED
  BY <1>4, <1>5

LEMMA ReachedStep ==
  ASSUME CInv, Shapes, Registered, Flows, Attributions, Reached, Kept, [Next]_vars PROVE Reached'
<1>1. ASSUME NEW r \in Runs, RunStep(r) PROVE Reached'
  <2>1. r \in Run /\ Len(desk) \in Nat /\ Len(desk') \in Nat /\ Len(desk) <= Len(desk')
    BY Runners DEF CInv, Kept
  <2>2. CASE StartRun(r)
    <3> DEFINE held == [a \in AddressesOf(Transfers(r)) |-> IF a = Evidence(r).root THEN Evidence(r).seed ELSE 0]
               x == [at |-> "tracing", next |-> 1, base |-> Len(desk), allocations |-> << >>, terminals |-> << >>,
                     held |-> held]
    <3>1. Set(r, x) /\ x.at = "tracing" /\ x.base = Len(desk) /\ UNCHANGED results
      BY <2>2 DEF StartRun, tables
    <3> HIDE DEF x
    <3>2. x.base \in 0 .. Len(desk')
      BY <2>1, <3>1
    <3> QED
      BY <2>1, <3>1, <3>2, ReachedIdle
  <2>3. run[r].at \in Carrying => run[r].base \in 0 .. Len(desk')
    BY <2>1 DEF Reached
  <2>4. CASE TraceTransfer(r)
    <3>1. PICK x : Set(r, x) /\ x.at = "tracing" /\ x.base = run[r].base
      BY <2>1, <2>4, TraceTransferEffect, Zenon
    <3>2. run[r].at = "tracing" /\ UNCHANGED results
      BY <2>4, Zenon DEF TraceTransfer, tables
    <3> QED
      BY <2>1, <2>3, <3>1, <3>2, ReachedIdle DEF Carrying
  <2>5. CASE Infers(r)
    <3>1. PICK x : /\ Set(r, x) /\ x.at \in {"inferring", "asserting"} /\ run[r].at \in Carrying /\ x.base = run[r].base
                   /\ UNCHANGED results
      BY <2>1, <2>5, InfersEffect
    <3> QED
      BY <2>1, <2>3, <3>1, ReachedIdle
  <2>6. CASE Finishes(r)
    BY <2>1, <2>6, FinishesEffect, ReachedIdle DEF Carrying
  <2> QED
    BY <1>1, <2>2, <2>4, <2>5, <2>6, ReachedEndInference, ReachedGroupTerminal, ReachedBuildCandidate, ReachedSaveResult
    DEF RunStep, Infers, Finishes
<1>2. CASE UNCHANGED <<results, run>>
  BY <1>2, ReachedElsewhere
<1> QED
  BY <1>1, <1>2
  DEF Next, DeskStep, PostAssertion, ReviewAssertion, UpdateStatus, RegisterProfile, RequestStep, AskForDraft, SaveDraft, vars, tables

\* Every endpoint of a result is of one candidate, or excused.
LEMMA ReachedAttributed == ASSUME Flows, Attributions, Reached PROVE EndpointsAttributed
<1> SUFFICES ASSUME NEW p \in DOMAIN results, NEW j \in DOMAIN results[p].snapshot.terminals
             PROVE  LET s == results[p].snapshot
                        a == s.terminals[j].address
                        known == {x \in Range(results[p].registry) : x.address = a}
                    IN  \/ Cardinality({c \in s.candidates : j \in c.terminals}) = 1
                        \/ Reconsidered(a, results[p].base, results[p].noted)
                        \/ \A x \in known : ~ Trusted(x, Len(s.transfers))
                        \/ \E x \in known : x.stale > Len(s.transfers) /\ x.stale <= Today
  BY DEF EndpointsAttributed, Where
<1>1. PICK s, S : s = results[p].snapshot.terminals /\ S = results[p].snapshot.candidates
  OBVIOUS
<1>2. Excused(results[p])
  BY DEF Reached
<1>3. ASSUME NEW c \in S, j \in c.terminals PROVE Cardinality({d \in S : j \in d.terminals}) = 1
  <2>1. \A d \in S : j \in d.terminals => d = c
    BY <1>1, <1>3 DEF Attributions, Attributed
  <2>2. {d \in S : j \in d.terminals} = {c}
    BY <1>3, <2>1
  <2> QED
    BY <2>2, FS_Singleton
<1> QED
  BY <1>1, <1>2, <1>3 DEF Excused

-----------------------------------------------------------------------------
(* The inferences *)

\* What an inference rests on, and how much of the outflow is behind it.
Sent(i, to) ==
  Total(Where(i.transfers, LAMBDA t : t.source = i.address /\ t.destination \in to), AmountsOf(i.transfers))

Grounded(i) ==
  /\ \A k \in i.basis : k \in DOMAIN registry /\ registry[k].type = "VERIFIED" /\ Accepted(k, Len(desk))
  /\ \/ "outflow_concentration" \notin i.signals
     \/ 10 * Sent(i, {registry[k].address : k \in i.basis}) >= 9 * TotalOutflow(i.transfers, i.address)
     \/ \E k, l \in i.basis : k # l /\ registry[k].address = registry[l].address

Inferred ==
  /\ \A i \in inferences : Grounded(i)
  /\ \A r \in Runs : run[r].at \in {"inferring", "asserting"} => \A i \in Waits(run[r]) : Grounded(i)

LEMMA GroundedStays == ASSUME Kept, NEW i, Grounded(i) PROVE Grounded(i)'
<1>1. ASSUME NEW k \in i.basis
      PROVE  /\ k \in DOMAIN registry' /\ registry'[k].type = "VERIFIED" /\ Accepted(k, Len(desk))'
             /\ registry'[k].address = registry[k].address
  <2>1. k \in DOMAIN registry /\ registry[k].type = "VERIFIED" /\ Accepted(k, Len(desk))
    BY DEF Grounded
  <2>2. Len(desk) \in 0 .. Len(desk) /\ Len(desk') \in Nat /\ Len(desk) <= Len(desk')
    BY DEF Kept
  <2>3. Accepted(k, Len(desk))'
    BY <2>1, <2>2, AcceptedStays
  <2> QED
    BY <2>1, <2>3 DEF Kept
<1>2. {registry'[k].address : k \in i.basis} = {registry[k].address : k \in i.basis}
  BY <1>1
<1>3. PICK to : to = {registry[k].address : k \in i.basis}
  OBVIOUS
<1>4. \/ "outflow_concentration" \notin i.signals
      \/ 10 * Sent(i, to) >= 9 * TotalOutflow(i.transfers, i.address)
      \/ \E k, l \in i.basis : k # l /\ registry'[k].address = registry'[l].address
  BY <1>1, <1>3 DEF Grounded
<1> QED
  BY <1>1, <1>2, <1>3, <1>4 DEF Grounded

\* An inference of an address is one of an entity that gets some of its outflow.
InferredOf(i, ts, a, e, at) ==
  /\ i.address = a /\ i.basis = {p[2] : p \in Directed(ts, a, e, at)}
  /\ i.signals = Signals(ts, a, Directed(ts, a, e, at))
  /\ i.transfers = [n \in {m \in DOMAIN ts : a \in {ts[m].source, ts[m].destination}} |-> ts[n]]

LEMMA InferIs ==
  ASSUME NEW ts, NEW a, NEW at, NEW i \in Infer(ts, a, at)
  PROVE  \E e : InferredOf(i, ts, a, e, at)
<1> DEFINE own == [n \in {m \in DOMAIN ts : a \in {ts[m].source, ts[m].destination}} |-> ts[n]]
           inference(e) == [address |-> a, entity |-> e, transfers |-> own,
                            basis |-> {p[2] : p \in Directed(ts, a, e, at)},
                            signals |-> Signals(ts, a, Directed(ts, a, e, at))]
<1>1. PICK e : i = inference(e)
  BY DEF Infer, Where
<1> HIDE DEF own
<1>2. /\ i.address = a /\ i.basis = {p[2] : p \in Directed(ts, a, e, at)} /\ i.transfers = own
      /\ i.signals = Signals(ts, a, Directed(ts, a, e, at))
  BY <1>1
<1> QED
  BY <1>2 DEF own, InferredOf

\* The outflow of an address is among the transfers of its inference.
LEMMA OwnOutflow ==
  ASSUME NEW ts, NEW a, NEW own, own = [n \in {m \in DOMAIN ts : a \in {ts[m].source, ts[m].destination}} |-> ts[n]]
  PROVE  TotalOutflow(own, a) = TotalOutflow(ts, a)
<1> DEFINE S == {n \in DOMAIN own : own[n].source = a}
           T == {n \in DOMAIN ts : ts[n].source = a}
           f == AmountsOf(own)
           g == AmountsOf(ts)
<1>1. S = T
  OBVIOUS
<1>2. \A n \in T : f[n] = g[n]
  BY DEF AmountsOf
<1>3. TotalOutflow(own, a) = Total(S, f) /\ TotalOutflow(ts, a) = Total(T, g)
  BY DEF TotalOutflow, Where
<1> HIDE DEF S, T, f, g
<1>4. Total(T, f) = Total(T, g)
  BY <1>2, TotalSame
<1> QED
  BY <1>1, <1>3, <1>4

\* Unless an address has two trusted assertions, each transfer to the entity counts once.
LEMMA DirectedOnce ==
  ASSUME NEW ts, NEW n \in Nat, DOMAIN ts = 1 .. n, \A m \in DOMAIN ts : ts[m].amount \in Nat,
         NEW a, NEW e, NEW at, NEW i, InferredOf(i, ts, a, e, at), NEW D, D = Directed(ts, a, e, at),
         \A k, l \in i.basis : registry[k].address = registry[l].address => k = l
  PROVE  /\ TargetOutflow(ts, D) <= Sent(i, {registry[k].address : k \in i.basis})
         /\ TargetOutflow(ts, D) \in Nat /\ Sent(i, {registry[k].address : k \in i.basis}) \in Nat
<1>1. PICK own, targets : /\ own = i.transfers /\ targets = {registry[k].address : k \in i.basis}
                          /\ i.address = a /\ i.basis = {p[2] : p \in D}
                          /\ own = [k \in {m \in DOMAIN ts : a \in {ts[m].source, ts[m].destination}} |-> ts[k]]
  BY DEF InferredOf
<1> DEFINE T == {m \in DOMAIN own : own[m].source = a /\ own[m].destination \in targets}
           f == [p \in D |-> ts[p[1]].amount]
           g == AmountsOf(own)
           to == [p \in D |-> p[1]]
<1>2. TargetOutflow(ts, D) = Total(D, f) /\ Sent(i, targets) = Total(T, g)
  BY <1>1 DEF TargetOutflow, Sent, Where
<1>3. \A m \in T : m \in DOMAIN ts /\ g[m] = ts[m].amount /\ g[m] \in Nat
  BY <1>1 DEF AmountsOf
<1>4. ASSUME NEW p \in D PROVE p[1] \in T /\ p = <<p[1], p[2]>> /\ f[p] = g[p[1]] /\ p[2] \in i.basis
                               /\ registry[p[2]].address = ts[p[1]].destination
  <2>1. /\ p = <<p[1], p[2]>> /\ p[1] \in DOMAIN ts /\ ts[p[1]].source = a /\ p[2] \in i.basis
        /\ registry[p[2]].address = ts[p[1]].destination
    BY <1>1 DEF Directed
  <2>2. p[1] \in DOMAIN own /\ own[p[1]] = ts[p[1]]
    BY <1>1, <2>1
  <2>3. ts[p[1]].destination \in targets
    BY <1>1, <2>1
  <2> QED
    BY <2>1, <2>2, <2>3 DEF AmountsOf
<1>5. Summable(T, g)
  <2>1. IsFiniteSet(T)
    <3>1. T \subseteq DOMAIN ts
      BY <1>3
    <3>2. IsFiniteSet(1 .. n)
      <4>1. 1 \in Int /\ n \in Int
        OBVIOUS
      <4> QED
        BY <4>1, FS_Interval, Zenon
    <3> QED
      BY <3>1, <3>2, FS_Subset
  <2> HIDE DEF T, g
  <2> QED
    BY <1>3, <2>1, FiniteSummable
<1>6. \A p \in D : to[p] \in T /\ f[p] \in Nat /\ g[to[p]] \in Nat /\ f[p] <= g[to[p]]
  <2>1. \A p \in D : to[p] = p[1]
    OBVIOUS
  <2> HIDE DEF to, T, f, g
  <2> QED
    BY <1>3, <1>4, <2>1
<1>7. ASSUME NEW p \in D, NEW q \in D, to[p] = to[q] PROVE p = q
  <2>1. p[1] = q[1]
    BY <1>7
  <2>2. /\ p = <<p[1], p[2]>> /\ q = <<q[1], q[2]>> /\ p[2] \in i.basis /\ q[2] \in i.basis
        /\ registry[p[2]].address = registry[q[2]].address
    BY <1>4, <2>1
  <2>3. p[2] = q[2]
    BY <2>2
  <2> QED
    BY <2>1, <2>2, <2>3
<1> HIDE DEF T, f, g, to
<1>8. Summable(D, f) /\ Total(D, f) <= Total(T, g)
  BY <1>5, <1>6, <1>7, TotalInjected
<1>9. Total(D, f) \in Nat /\ Total(T, g) \in Nat
  BY <1>5, <1>8, TotalType
<1> QED
  BY <1>1, <1>2, <1>8, <1>9

\* What is inferred is grounded.
LEMMA InferGrounded ==
  ASSUME World, Registered, NEW r \in Runs, NEW a, NEW i \in Infer(Transfers(r), a, ObservedAt(r))
  PROVE  Grounded(i)
<1>1. PICK ts, at : ts = Transfers(r) /\ at = ObservedAt(r)
  OBVIOUS
<1>2. PICK e : InferredOf(i, ts, a, e, at)
  BY <1>1, InferIs
<1>3. PICK D : D = Directed(ts, a, e, at)
  OBVIOUS
<1>4. ASSUME NEW k \in i.basis PROVE k \in DOMAIN registry /\ registry[k].type = "VERIFIED" /\ Accepted(k, Len(desk))
  <2>1. k \in DOMAIN registry /\ Trusted(registry[k], at)
    BY <1>2 DEF Directed, InferredOf
  <2>2. registry[k].state = "REVIEWED"
    BY <2>1 DEF Trusted, EffectiveState
  <2> QED
    BY <2>1, <2>2 DEF Trusted, Registered
<1>5. ASSUME "outflow_concentration" \in i.signals, \A k, l \in i.basis : registry[k].address = registry[l].address => k = l
      PROVE  10 * Sent(i, {registry[k].address : k \in i.basis}) >= 9 * TotalOutflow(i.transfers, i.address)
  <2>1. 10 * TargetOutflow(ts, D) >= 9 * TotalOutflow(ts, a)
    BY <1>2, <1>3, <1>5 DEF Signals, Concentrated, InferredOf
  <2>2. Len(ts) \in Nat /\ DOMAIN ts = 1 .. Len(ts) /\ \A m \in DOMAIN ts : ts[m].amount \in Nat
    BY <1>1, EvidenceType DEF Transfer
  <2>3. /\ TargetOutflow(ts, D) <= Sent(i, {registry[k].address : k \in i.basis})
        /\ TargetOutflow(ts, D) \in Nat /\ Sent(i, {registry[k].address : k \in i.basis}) \in Nat
    BY <1>2, <1>3, <1>5, <2>2, DirectedOnce
  <2>4. TotalOutflow(i.transfers, i.address) = TotalOutflow(ts, a)
    BY <1>2, OwnOutflow DEF InferredOf
  <2>5. TotalOutflow(ts, a) \in Nat
    <3> DEFINE S == {m \in DOMAIN ts : ts[m].source = a}
               f == AmountsOf(ts)
    <3>1. TotalOutflow(ts, a) = Total(S, f) /\ \A m \in S : f[m] \in Nat
      BY <2>2 DEF TotalOutflow, Where, AmountsOf
    <3>2. IsFiniteSet(S)
      <4>1. IsFiniteSet(DOMAIN ts)
        BY <2>2, FS_Interval
      <4> QED
        BY <4>1, FS_Subset
    <3> HIDE DEF S, f
    <3> QED
      BY <3>1, <3>2, FiniteSummable, TotalType
  <2> HIDE DEF TargetOutflow, Sent, TotalOutflow
  <2> QED
    BY <2>1, <2>3, <2>4, <2>5
<1> QED
  BY <1>4, <1>5 DEF Grounded

LEMMA InferredStart == Init => Inferred
<1> SUFFICES ASSUME Init PROVE Inferred
  OBVIOUS
<1>1. World /\ inferences = {} /\ \A r \in Run : run[r].at = "idle"
  BY DEF Init, World
<1> QED
  BY <1>1, Runners DEF Inferred

\* What one run infers is its own: x is the run after its step.
LEMMA InferredCarried ==
  ASSUME CInv, Inferred, Kept, NEW r \in Run, NEW x,
         run'[r] = x, \A q \in Run \ {r} : run'[q] = run[q],
         x.at \in {"inferring", "asserting"} => \A i \in Waits(x) : Grounded(i),
         \A i \in inferences' : Grounded(i)
  PROVE  Inferred'
<1>1. run'[r] = x /\ \A q \in Run \ {r} : run'[q] = run[q]
  OBVIOUS
<1>2. Runs' = Runs /\ Runs \subseteq Run
  BY Runners DEF Runs, CInv, Kept
<1>3. ASSUME NEW q \in Runs, run'[q].at \in {"inferring", "asserting"}, NEW i \in Waits(run'[q]) PROVE Grounded(i)
  <2>1. CASE q = r
    BY <1>1, <1>3, <2>1
  <2>2. CASE q # r
    BY <1>1, <1>2, <1>3, <2>2 DEF Inferred
  <2> QED
    BY <2>1, <2>2
<1>4. ASSUME NEW q \in Runs, run'[q].at \in {"inferring", "asserting"}, NEW i \in Waits(run'[q]) PROVE Grounded(i)'
  BY <1>3, <1>4, GroundedStays
<1>5. \A i \in inferences' : Grounded(i)'
  BY GroundedStays
<1> QED
  BY <1>2, <1>4, <1>5 DEF Inferred, Waits

LEMMA InferredStep == ASSUME CInv, Shapes, Registered, Inferred, Kept, [Next]_vars PROVE Inferred'
<1>1. ASSUME NEW r \in Runs, RunStep(r) PROVE Inferred'
  <2>1. r \in Run
    BY Runners DEF CInv
  <2>2. CASE Infers(r)
    <3>1. PICK x :
           /\ Set(r, x)
           /\ \/ Waits(x) = {} /\ inferences' = inferences
              \/ /\ run[r].at \in {"inferring", "asserting"} /\ inferences' = inferences
                 /\ \E a : Waits(x) \subseteq Waits(run[r]) \cup Infer(Transfers(r), a, ObservedAt(r))
              \/ /\ run[r].at \in {"inferring", "asserting"} /\ Waits(x) \subseteq Waits(run[r])
                 /\ inferences' \subseteq inferences \cup Waits(run[r])
      BY <2>1, <2>2, InfersEffect
    <3>2. run[r].at \in {"inferring", "asserting"} => \A i \in Waits(run[r]) : Grounded(i)
      BY DEF Inferred
    <3>3. \A a : \A i \in Infer(Transfers(r), a, ObservedAt(r)) : Grounded(i)
      BY InferGrounded DEF CInv
    <3>4. \A i \in inferences : Grounded(i)
      BY DEF Inferred
    <3>5. (\A i \in Waits(x) : Grounded(i)) /\ \A i \in inferences' : Grounded(i)
      BY <3>1, <3>2, <3>3, <3>4
    <3> QED
      BY <2>1, <3>1, <3>5, OneRun, InferredCarried
  <2>3. ASSUME NEW x, Set(r, x), x.at \notin {"inferring", "asserting"}, inferences' = inferences PROVE Inferred'
    <3>1. \A i \in inferences' : Grounded(i)
      BY <2>3 DEF Inferred
    <3> QED
      BY <2>1, <2>3, <3>1, OneRun, InferredCarried
  <2>4. CASE StartRun(r)
    <3> DEFINE held == [a \in AddressesOf(Transfers(r)) |-> IF a = Evidence(r).root THEN Evidence(r).seed ELSE 0]
               x == [at |-> "tracing", next |-> 1, base |-> Len(desk), allocations |-> << >>, terminals |-> << >>,
                     held |-> held]
    <3>1. Set(r, x) /\ x.at = "tracing" /\ inferences' = inferences
      BY <2>4 DEF StartRun, tables
    <3> HIDE DEF x
    <3> QED
      BY <2>3, <3>1
  <2>5. CASE TraceTransfer(r)
    <3>1. PICK x : Set(r, x) /\ x.at = "tracing"
      BY <2>1, <2>5, TraceTransferEffect, Zenon
    <3>2. inferences' = inferences
      BY <2>5, Zenon DEF TraceTransfer, tables
    <3> QED
      BY <2>3, <3>1, <3>2
  <2>6. CASE EndInference(r) \/ GroupTerminal(r) \/ BuildCandidate(r)
    <3>1. \E x : Set(r, x) /\ x.at = "attributing"
      <4>1. CASE EndInference(r)
        <5>1. Set(r, [at |-> "attributing", base |-> run[r].base, allocations |-> run[r].allocations,
                      terminals |-> run[r].terminals, inferred |-> run[r].inferred, next |-> 1, groups |-> {},
                      candidates |-> {}])
          BY <4>1 DEF EndInference
        <5> QED
          BY <5>1
      <4>2. CASE GroupTerminal(r)
        BY <2>1, <4>2, GroupTerminalEffect
      <4>3. CASE BuildCandidate(r)
        <5>1. PICK x : \E g \in First(run[r].groups) : Set(r, x) /\ x.at = "attributing"
          BY <2>1, <4>3, BuildCandidateEffect, Zenon
        <5> QED
          BY <5>1
      <4> QED
        BY <2>6, <4>1, <4>2, <4>3
    <3>2. inferences' = inferences
      BY <2>6, Zenon DEF EndInference, GroupTerminal, BuildCandidate, tables
    <3> QED
      BY <2>3, <3>1, <3>2
  <2>7. CASE SaveResult(r)
    BY <2>1, <2>3, <2>7, SaveResultEffect DEF Carrying
  <2>8. CASE Finishes(r)
    <3>1. PICK x : Set(r, x) /\ x.at \notin Carrying
      BY <2>1, <2>8, FinishesEffect
    <3>2. inferences' = inferences
      BY <2>8 DEF Finishes, IndexCases, SaveConnection, RunLost, tables
    <3> QED
      BY <2>3, <3>1, <3>2 DEF Carrying
  <2> QED
    BY <1>1, <2>2, <2>4, <2>5, <2>6, <2>7, <2>8 DEF RunStep, Infers, Finishes
<1>2. CASE UNCHANGED <<inferences, run>>
  <2>1. CASE Runs = {}
    <3>1. \A i \in inferences : Grounded(i)'
      BY GroundedStays DEF Inferred
    <3> QED
      BY <1>2, <2>1, <3>1 DEF Inferred, Kept, Runs
  <2>2. CASE Runs # {}
    <3>1. PICK r \in Runs : TRUE
      BY <2>2
    <3>2. r \in Run /\ run'[r] = run[r] /\ \A q \in Run \ {r} : run'[q] = run[q]
      BY <1>2, Runners DEF CInv
    <3>3. /\ run[r].at \in {"inferring", "asserting"} => \A i \in Waits(run[r]) : Grounded(i)
          /\ \A i \in inferences' : Grounded(i)
      BY <1>2 DEF Inferred
    <3>4. PICK x : x = run[r]
      OBVIOUS
    <3> QED
      BY <3>2, <3>3, <3>4, InferredCarried
  <2> QED
    BY <2>1, <2>2
<1> QED
  BY <1>1, <1>2
  DEF Next, DeskStep, PostAssertion, ReviewAssertion, UpdateStatus, RegisterProfile, RequestStep, AskForDraft, SaveDraft, vars, tables

LEMMA InferredGrounded == ASSUME Registered, Inferred PROVE InferenceGrounded
<1>1. ASSUME NEW k \in DOMAIN registry, registry[k].state = "REVIEWED" PROVE Accepted(k, Len(desk))
  BY <1>1 DEF Registered
<1>2. ASSUME NEW i \in inferences
      PROVE  LET sent(to) == Total(Where(i.transfers, LAMBDA t : t.source = i.address /\ t.destination \in to),
                                   AmountsOf(i.transfers))
                 targets == {registry[k].address : k \in i.basis}
             IN  /\ \A k \in i.basis : registry[k].type = "VERIFIED" /\ Accepted(k, Len(desk))
                 /\ \/ "outflow_concentration" \notin i.signals
                    \/ 10 * sent(targets) >= 9 * TotalOutflow(i.transfers, i.address)
                    \/ \E k, l \in i.basis : k # l /\ registry[k].address = registry[l].address
  <2>1. Grounded(i)
    BY DEF Inferred
  <2> QED
    BY <2>1 DEF Grounded, Sent, Where
<1> QED
  BY <1>1, <1>2 DEF InferenceGrounded

-----------------------------------------------------------------------------
(* The drafts *)

\* A draft is of a candidate of a result, with the transfers that led to it.
Drawn(d) ==
  /\ d.result \in DOMAIN results /\ d.candidate \in results[d.result].snapshot.candidates
  /\ d.transfers = TransfersFor(results[d.result].snapshot, d.candidate)

Drafted ==
  /\ DOMAIN request = Request
  /\ \A d \in drafts : Drawn(d)
  /\ \A q \in Request : request[q].at = "drafted" => Drawn(request[q].draft)

LEMMA DraftedStart == Init => Drafted
BY DEF Init, Drafted

\* Results are never taken back.
LEMMA ResultsGrow ==
  ASSUME CInv, [Next]_vars
  PROVE  DOMAIN results \subseteq DOMAIN results' /\ \A p \in DOMAIN results : results'[p] = results[p]
<1>1. ASSUME NEW r \in Runs, SaveResult(r)
      PROVE  DOMAIN results \subseteq DOMAIN results' /\ \A p \in DOMAIN results : results'[p] = results[p]
  <2>1. r \in Run
    BY Runners DEF CInv
  <2>2. \/ results' = results
        \/ /\ DOMAIN results = 1 .. Len(results) /\ DOMAIN results' = 1 .. Len(results) + 1 /\ Len(results) \in Nat
           /\ \A p \in DOMAIN results : results'[p] = results[p]
    BY <1>1, <2>1, SaveResultEffect
  <2> QED
    BY <2>2
<1>2. ASSUME NEW r \in Runs, RunStep(r), ~ SaveResult(r) PROVE results' = results
  BY <1>2, Zenon DEF RunStep, StartRun, TraceTransfer, EndTrace, InferAddress, SaveInference, AssertInference, EndInference,
         GroupTerminal, BuildCandidate, IndexCases, SaveConnection, RunLost, tables
<1>3. ASSUME DeskStep PROVE results' = results
  BY <1>3 DEF DeskStep, PostAssertion, ReviewAssertion, UpdateStatus, RegisterProfile
<1>4. ASSUME NEW q \in Request, RequestStep(q) PROVE results' = results
  BY <1>4 DEF RequestStep, AskForDraft, SaveDraft, tables
<1>5. CASE UNCHANGED vars
  BY <1>5 DEF vars, tables
<1> QED
  BY <1>1, <1>2, <1>3, <1>4, <1>5 DEF Next

LEMMA DraftedStep == ASSUME CInv, Drafted, [Next]_vars PROVE Drafted'
<1>1. ASSUME NEW d, Drawn(d) PROVE Drawn(d)'
  BY <1>1, ResultsGrow DEF Drawn
<1>2. CASE UNCHANGED <<drafts, request>>
  <2>1. PICK D, R : D = drafts /\ R = request
    OBVIOUS
  <2>2. /\ DOMAIN R = Request /\ \A d \in D : Drawn(d)
        /\ \A q \in Request : R[q].at = "drafted" => Drawn(R[q].draft)
    BY <2>1 DEF Drafted
  <2>3. (\A d \in D : Drawn(d)') /\ \A q \in Request : R[q].at = "drafted" => Drawn(R[q].draft)'
    BY <1>1, <2>2
  <2> QED
    BY <1>2, <2>1, <2>2, <2>3 DEF Drafted
<1>3. ASSUME NEW q \in Request, NEW p \in DOMAIN results, NEW k \in results[p].snapshot.candidates, AskForDraft(q, p, k)
      PROVE  Drafted'
  <2>1. PICK x : /\ request' = [request EXCEPT ![q] = x] /\ UNCHANGED drafts
                 /\ x.at = "drafted" => x.draft = [result |-> p, candidate |-> k,
                                                   transfers |-> TransfersFor(results[p].snapshot, k)]
    <3> DEFINE draft == [result |-> p, candidate |-> k, transfers |-> TransfersFor(results[p].snapshot, k)]
               refused == [at |-> "refused"]
               drafted == [at |-> "drafted", draft |-> draft]
    <3>1. /\ request' = [request EXCEPT ![q] = refused] \/ request' = [request EXCEPT ![q] = drafted]
          /\ UNCHANGED drafts
      BY <1>3 DEF AskForDraft, tables
    <3>2. refused.at # "drafted" /\ drafted.draft = draft
      OBVIOUS
    <3> HIDE DEF refused, drafted
    <3> QED
      BY <3>1, <3>2
  <2>2. ASSUME x.at = "drafted" PROVE Drawn(x.draft)
    BY <2>1, <2>2 DEF Drawn
  <2>3. \A d \in drafts' : Drawn(d)'
    BY <1>1, <2>1 DEF Drafted
  <2>4. ASSUME NEW w \in Request, request'[w].at = "drafted" PROVE Drawn(request'[w].draft)
    <3>1. CASE w = q
      BY <2>1, <2>2, <2>4, <3>1 DEF Drafted
    <3>2. CASE w # q
      BY <2>1, <2>4, <3>2 DEF Drafted
    <3> QED
      BY <3>1, <3>2
  <2>5. ASSUME NEW w \in Request, request'[w].at = "drafted" PROVE Drawn(request[w].draft)'
    <3>1. PICK d : d = request'[w].draft
      OBVIOUS
    <3>2. Drawn(d)'
      BY <1>1, <2>4, <2>5, <3>1
    <3> QED
      BY <3>1, <3>2
  <2> QED
    BY <2>1, <2>3, <2>5 DEF Drafted
<1>4. ASSUME NEW q \in Request, SaveDraft(q) PROVE Drafted'
  <2>1. /\ request[q].at = "drafted" /\ drafts' = drafts \cup {request[q].draft}
        /\ request' = [request EXCEPT ![q] = [at |-> "saved"]]
    BY <1>4 DEF SaveDraft
  <2>2. \A d \in drafts' : Drawn(d)
    BY <2>1 DEF Drafted
  <2>3. \A d \in drafts' : Drawn(d)'
    BY <1>1, <2>2
  <2>4. ASSUME NEW w \in Request, request'[w].at = "drafted" PROVE Drawn(request[w].draft)'
    <3>1. w # q /\ request'[w] = request[w]
      BY <2>1, <2>4 DEF Drafted
    <3>2. PICK d : d = request[w].draft /\ Drawn(d)
      BY <2>4, <3>1 DEF Drafted
    <3>3. Drawn(d)'
      BY <1>1, <3>2
    <3> QED
      BY <3>1, <3>2, <3>3
  <2> QED
    BY <2>1, <2>3, <2>4 DEF Drafted
<1>5. ASSUME NEW r \in Runs, RunStep(r) PROVE UNCHANGED <<drafts, request>>
  BY <1>5, Zenon DEF RunStep, StartRun, TraceTransfer, EndTrace, InferAddress, SaveInference, AssertInference, EndInference,
         GroupTerminal, BuildCandidate, SaveResult, IndexCases, SaveConnection, RunLost, tables
<1>6. DeskStep => UNCHANGED <<drafts, request>>
  BY DEF DeskStep, PostAssertion, ReviewAssertion, UpdateStatus, RegisterProfile
<1> QED
  BY <1>2, <1>3, <1>4, <1>5, <1>6 DEF Next, RequestStep, vars, tables

\* The lineage of an allocation holds the allocation and what funds its members, and
\* nothing else: each of its other members funds one.
LEMMA LineageHolds ==
  ASSUME NEW ts, NEW root, NEW al, Allocated(ts, root, al), NEW k \in DOMAIN al
  PROVE  /\ k \in Lineage(al, k) /\ Lineage(al, k) \subseteq DOMAIN al
         /\ \A i \in Lineage(al, k) : al[i].parents \subseteq Lineage(al, k)
         /\ \A i \in Lineage(al, k) : i # k => \E j \in Lineage(al, k) : i \in al[j].parents
<1> DEFINE L == Lineage(al, k)
           Closed(S) == k \in S /\ \A i \in S : al[i].parents \subseteq S
<1>1. L = {j \in DOMAIN al : \A S \in SUBSET DOMAIN al : Closed(S) => j \in S}
  BY DEF Lineage
<1> HIDE DEF L
<1>2. \A i \in DOMAIN al : al[i].parents \subseteq DOMAIN al
  <2>1. DOMAIN al = 1 .. Len(al) /\ Len(al) \in Nat
    BY SequenceDomain DEF Allocated
  <2>2. \A i \in DOMAIN al : \A j \in al[i].parents : j \in 1 .. i - 1
    BY DEF Allocated
  <2> QED
    BY <2>1, <2>2
<1>3. k \in L /\ L \subseteq DOMAIN al
  BY <1>1
<1>4. \A i \in L : al[i].parents \subseteq L
  BY <1>1, <1>2, <1>3
<1>5. ASSUME NEW i \in L, i # k, \A j \in L : i \notin al[j].parents PROVE FALSE
  <2> DEFINE S == L \ {i}
  <2>1. S \in SUBSET DOMAIN al /\ Closed(S)
    BY <1>3, <1>4, <1>5
  <2> HIDE DEF S, Closed
  <2>2. i \in S
    BY <1>1, <2>1
  <2> QED
    BY <2>2 DEF S
<1> QED
  BY <1>3, <1>4, <1>5 DEF L

\* The lineage of a terminal goes back to the root, and on to the terminal.
LEMMA LineageLeads ==
  ASSUME NEW ts, NEW root, NEW al, Allocated(ts, root, al), NEW k \in DOMAIN al, NEW n \in Lineage(al, k)
  PROVE  /\ n \in DOMAIN al
         /\ \/ ts[al[n].transfer].source = root
            \/ \E j \in Lineage(al, k) : /\ al[j].transfer < al[n].transfer
                                         /\ ts[al[j].transfer].destination = ts[al[n].transfer].source
         /\ \/ n = k
            \/ \E j \in Lineage(al, k) : /\ al[n].transfer < al[j].transfer
                                         /\ ts[al[n].transfer].destination = ts[al[j].transfer].source
<1>1. n \in DOMAIN al /\ al[n].parents \subseteq Lineage(al, k) /\ Lineage(al, k) \subseteq DOMAIN al
  BY LineageHolds
<1>2. ASSUME NEW i \in DOMAIN al, NEW j \in al[i].parents
      PROVE  j \in DOMAIN al /\ al[j].transfer < al[i].transfer
             /\ ts[al[j].transfer].destination = ts[al[i].transfer].source
  <2>1. DOMAIN al = 1 .. Len(al) /\ Len(al) \in Nat
    BY SequenceDomain DEF Allocated
  <2>2. j \in 1 .. i - 1 /\ ts[al[j].transfer].destination = ts[al[i].transfer].source
    BY DEF Allocated
  <2>3. j \in DOMAIN al /\ j < i
    BY <2>1, <2>2
  <2> QED
    BY <2>2, <2>3 DEF Allocated
<1>3. ASSUME al[n].parents = {} PROVE ts[al[n].transfer].source = root
  BY <1>1, <1>3 DEF Allocated
<1>4. ASSUME al[n].parents # {}
      PROVE  \E j \in Lineage(al, k) : /\ al[j].transfer < al[n].transfer
                                       /\ ts[al[j].transfer].destination = ts[al[n].transfer].source
  BY <1>1, <1>2, <1>4
<1>5. ASSUME n # k
      PROVE  \E j \in Lineage(al, k) : /\ al[n].transfer < al[j].transfer
                                       /\ ts[al[n].transfer].destination = ts[al[j].transfer].source
  <2>1. PICK j \in Lineage(al, k) : n \in al[j].parents
    BY <1>5, LineageHolds
  <2> QED
    BY <1>1, <1>2, <2>1
<1> QED
  BY <1>1, <1>3, <1>4, <1>5 DEF Allocated

\* The transfers T bring an amount to the targets, from the root.
Brings(ts, root, T, targets, amount) ==
  LET final == {i \in T : ts[i].destination \in targets} IN
  /\ \A a \in targets : \E i \in final : ts[i].destination = a
  /\ \A i \in T :
       /\ \/ ts[i].source = root
          \/ \E j \in T : j < i /\ ts[j].destination = ts[i].source
       /\ \/ i \in final
          \/ \E j \in T : i < j /\ ts[i].destination = ts[j].source
  /\ Total(final, AmountsOf(ts)) >= amount

\* The transfers of a candidate bring its amount to its addresses, from the root.
LEMMA WayShown ==
  ASSUME NEW ts, NEW m \in Nat, DOMAIN ts = 1 .. m, \A i \in DOMAIN ts : ts[i].amount \in Nat, NEW root,
         NEW s, Booked(ts, root, s), NEW c, c.terminals \subseteq DOMAIN s.terminals,
         c.amount = Total(c.terminals, AmountsOf(s.terminals)),
         NEW T, T = TransfersFor(s, c), NEW targets, targets = {s.terminals[j].address : j \in c.terminals}
  PROVE  Brings(ts, root, T, targets, c.amount)
<1>0. PICK final : final = {i \in T : ts[i].destination \in targets}
  OBVIOUS
<1>1. PICK al, end : al = s.allocations /\ end = s.terminals /\ Allocated(ts, root, al) /\ Stopped(ts, al, end)
  BY DEF Booked
<1>2. T = {al[k].transfer : k \in UNION {Lineage(al, end[j].parent) : j \in c.terminals}}
  BY <1>1 DEF TransfersFor
<1>3. ASSUME NEW j \in c.terminals
      PROVE  /\ end[j].parent \in DOMAIN al /\ end[j].address = ts[al[end[j].parent].transfer].destination
             /\ end[j].address \in targets /\ end[j].amount = al[end[j].parent].amount
             /\ al[end[j].parent].transfer \in final
             /\ \A k \in Lineage(al, end[j].parent) : al[k].transfer \in T
  <2>1. /\ end[j].parent \in DOMAIN al /\ end[j].address = ts[al[end[j].parent].transfer].destination
        /\ end[j].amount = al[end[j].parent].amount
    BY <1>1, Zenon DEF Stopped
  <2>2. end[j].parent \in Lineage(al, end[j].parent)
    BY <1>1, <2>1, LineageHolds, Zenon
  <2>3. \A k \in Lineage(al, end[j].parent) : al[k].transfer \in T
    BY <1>2
  <2>4. end[j].address \in targets
    BY <1>1
  <2>5. al[end[j].parent].transfer \in final
    BY <1>0, <2>1, <2>2, <2>3, <2>4, Zenon
  <2> QED
    BY <2>1, <2>3, <2>4, <2>5, Zenon
<1>4. \A a \in targets : \E i \in final : ts[i].destination = a
  <2>1. ASSUME NEW a \in targets PROVE \E i \in final : ts[i].destination = a
    <3>1. PICK j \in c.terminals : a = end[j].address
      BY <1>1
    <3>2. al[end[j].parent].transfer \in final /\ ts[al[end[j].parent].transfer].destination = a
      BY <1>3, <3>1
    <3> QED
      BY <3>2
  <2> QED
    BY <2>1
<1>5. ASSUME NEW i \in T
      PROVE  /\ \/ ts[i].source = root
                \/ \E j \in T : j < i /\ ts[j].destination = ts[i].source
             /\ \/ i \in final
                \/ \E j \in T : i < j /\ ts[i].destination = ts[j].source
  <2>1. PICK j \in c.terminals : \E k \in Lineage(al, end[j].parent) : i = al[k].transfer
    BY <1>2
  <2>2. PICK k \in Lineage(al, end[j].parent) : i = al[k].transfer
    BY <2>1
  <2>3. PICK top : top = end[j].parent /\ top \in DOMAIN al
    BY <1>3
  <2>7. k \in Lineage(al, top) /\ Allocated(ts, root, al)
    BY <1>1, <2>2, <2>3
  <2>4. /\ \/ ts[al[k].transfer].source = root
           \/ \E n \in Lineage(al, top) : /\ al[n].transfer < al[k].transfer
                                          /\ ts[al[n].transfer].destination = ts[al[k].transfer].source
        /\ \/ k = top
           \/ \E n \in Lineage(al, top) : /\ al[k].transfer < al[n].transfer
                                          /\ ts[al[k].transfer].destination = ts[al[n].transfer].source
    BY <2>3, <2>7, LineageLeads
  <2>5. \A n \in Lineage(al, top) : al[n].transfer \in T
    BY <1>3, <2>3
  <2>6. k = top => i \in final
    BY <1>3, <2>2, <2>3
  <2> QED
    BY <2>2, <2>4, <2>5, <2>6
<1>6. Total(final, AmountsOf(ts)) >= c.amount
  <2> DEFINE to == [j \in c.terminals |-> al[end[j].parent].transfer]
             f == AmountsOf(end)
             g == AmountsOf(ts)
  <2>1. ASSUME NEW k \in DOMAIN al
        PROVE  al[k].transfer \in DOMAIN ts /\ al[k].amount \in Nat /\ al[k].amount <= ts[al[k].transfer].amount
    BY <1>1 DEF Allocated
  <2>2. \A i \in final : i \in DOMAIN ts
    <3>1. ASSUME NEW i \in T PROVE i \in DOMAIN ts
      <4>1. PICK j \in c.terminals : \E k \in Lineage(al, end[j].parent) : i = al[k].transfer
        BY <1>2
      <4>2. Lineage(al, end[j].parent) \subseteq DOMAIN al
        BY DEF Lineage
      <4> QED
        BY <2>1, <4>1, <4>2
    <3> QED
      BY <1>0, <3>1
  <2>3. \A i \in final : g[i] = ts[i].amount /\ g[i] \in Nat
    BY <2>2 DEF AmountsOf
  <2>4. Summable(final, g)
    <3>1. IsFiniteSet(1 .. m)
      BY FS_Interval
    <3>2. IsFiniteSet(final)
      BY <2>2, <3>1, FS_Subset
    <3> HIDE DEF g
    <3> QED
      BY <2>3, <3>2, FiniteSummable
  <2>5. ASSUME NEW j \in c.terminals
        PROVE  to[j] \in final /\ f[j] \in Nat /\ g[to[j]] \in Nat /\ f[j] <= g[to[j]]
    <3>1. to[j] = al[end[j].parent].transfer /\ to[j] \in final
      BY <1>3
    <3>2. f[j] = al[end[j].parent].amount
      BY <1>1, <1>3, Zenon DEF AmountsOf
    <3>3. g[to[j]] = ts[to[j]].amount /\ g[to[j]] \in Nat
      BY <2>3, <3>1, Zenon
    <3> HIDE DEF f, g, to
    <3> QED
      BY <1>3, <2>1, <3>1, <3>2, <3>3, Zenon
  <2>6. ASSUME NEW i \in c.terminals, NEW j \in c.terminals, to[i] = to[j] PROVE i = j
    <3>1. end[i].parent \in DOMAIN al /\ end[j].parent \in DOMAIN al
          /\ al[end[i].parent].transfer = al[end[j].parent].transfer
      BY <1>3, <2>6
    <3>2. end[i].parent = end[j].parent
      <4>1. DOMAIN al \subseteq Nat
        BY <1>1, SequenceDomain DEF Allocated
      <4>2. \A k, n \in DOMAIN al : k < n => al[k].transfer < al[n].transfer
        BY <1>1 DEF Allocated
      <4>3. \A k \in DOMAIN al : al[k].transfer \in Nat
        BY <2>1
      <4> QED
        BY <3>1, <4>1, <4>2, <4>3
    <3> QED
      BY <1>1, <3>2, Zenon DEF Stopped
  <2> HIDE DEF to, f, g
  <2>7. Summable(c.terminals, f) /\ Total(c.terminals, f) <= Total(final, g)
    BY <2>4, <2>5, <2>6, TotalInjected
  <2>8. Total(c.terminals, f) \in Nat /\ Total(final, g) \in Nat
    BY <2>4, <2>7, TotalType
  <2> QED
    BY <1>1, <2>7, <2>8 DEF f, g
<1> QED
  BY <1>0, <1>4, <1>5, <1>6 DEF Brings

LEMMA DraftedShows == ASSUME CInv, Flows, Attributions, Drafted PROVE DraftShowsWay
<1> SUFFICES ASSUME NEW d \in drafts, NEW p, p = results[d.result]
             PROVE  Brings(p.snapshot.transfers, Evidence(p.by).root, d.transfers,
                           {p.snapshot.terminals[j].address : j \in d.candidate.terminals}, d.candidate.amount)
  BY Zenon DEF DraftShowsWay, Brings
<1>1. PICK s, c, T : s = p.snapshot /\ c = d.candidate /\ T = d.transfers
  OBVIOUS
<1>2. d.result \in DOMAIN results /\ c \in s.candidates /\ T = TransfersFor(s, c)
  BY <1>1 DEF Drafted, Drawn
<1>3. PICK r \in Runs : r = p.by
  BY <1>1, <1>2 DEF CInv, Authors
<1>4. PICK ts, root : ts = s.transfers /\ root = Evidence(r).root /\ ts = Transfers(r) /\ Booked(ts, root, s)
  BY <1>1, <1>2, <1>3 DEF Flows
<1>5. c.terminals \subseteq DOMAIN s.terminals /\ c.amount = Total(c.terminals, AmountsOf(s.terminals))
  BY <1>1, <1>2 DEF Attributions, Attributed
<1>6. Len(ts) \in Nat /\ DOMAIN ts = 1 .. Len(ts) /\ \A i \in DOMAIN ts : ts[i].amount \in Nat
  BY <1>4, EvidenceType DEF CInv, Transfer
<1>7. PICK targets : targets = {s.terminals[j].address : j \in c.terminals}
  OBVIOUS
<1>8. Brings(ts, root, T, targets, c.amount)
  BY <1>2, <1>4, <1>5, <1>6, <1>7, WayShown
<1> QED
  BY <1>1, <1>3, <1>4, <1>7, <1>8, Zenon

-----------------------------------------------------------------------------
(* The theorems *)

ConclusionsInv == CInv /\ Shapes /\ Registered /\ Flows /\ Attributions /\ Reached /\ Inferred /\ Drafted

\* What is known of the registry, of each run and of each result holds at every step of
\* the runs, the reviewers and the requests (investigation_v2.py, attribution_v2.py,
\* deposit_inference.py, results_v2.py, request_export_v2.py).
THEOREM ConclusionsInvariant == Spec => []ConclusionsInv
<1>1. Init => ConclusionsInv
  BY ConnectedStart, ShapesStart, RegisteredStart, FlowsStart, AttributionsStart, ReachedStart, InferredStart, DraftedStart
  DEF ConclusionsInv
<1>2. ConclusionsInv /\ [Next]_vars => ConclusionsInv'
  <2> SUFFICES ASSUME ConclusionsInv, [Next]_vars PROVE ConclusionsInv'
    OBVIOUS
  <2>1. CInv /\ Shapes /\ Registered /\ Flows /\ Attributions /\ Reached /\ Inferred /\ Drafted
    BY DEF ConclusionsInv
  <2>2. CInv' /\ Shapes'
    BY <2>1, ConnectedNext, ShapesStep
  <2>3. Registered' /\ Kept
    BY <2>1, RegistryStep DEF CInv
  <2>4. Flows'
    BY <2>1, FlowsStep
  <2>5. Attributions' /\ Reached'
    BY <2>1, <2>3, AttributionsStep, ReachedStep
  <2>6. Inferred' /\ Drafted'
    BY <2>1, <2>3, InferredStep, DraftedStep
  <2> QED
    BY <2>2, <2>3, <2>4, <2>5, <2>6 DEF ConclusionsInv
<1> QED
  BY <1>1, <1>2, PTL DEF Spec

\* What a request may ask for rests on reviewers, whoever reviewed what while runs were
\* under way, and no amount is attributed twice (attribution_v2.py; actionability_v2.py,
\* _candidate).
THEOREM RequestsRestOnReviews == Spec => []RequestsReviewed
<1>1. ConclusionsInv => RequestsReviewed
  BY AttributionsReviewed DEF ConclusionsInv
<1> QED
  BY <1>1, ConclusionsInvariant, PTL

\* The money that stopped at a VASP is one candidate's, unless the address has no trusted
\* assertion left, was reviewed while the run was under way, or has an assertion that runs
\* out between the last transfer and today (investigation_v2.py, _terminal_reason;
\* attribution_v2.py, build and _candidate).
THEOREM EndpointsAreAttributed == Spec => []EndpointsAttributed
<1>1. ConclusionsInv => EndpointsAttributed
  BY ReachedAttributed DEF ConclusionsInv
<1> QED
  BY <1>1, ConclusionsInvariant, PTL

\* An inference rests on verified assertions that reviewers accepted, on as much of the
\* outflow as it says, and is never accepted but by a reviewer (deposit_inference.py, infer
\* and persist_unreviewed_inference).
THEOREM InferencesAreGrounded == Spec => []InferenceGrounded
<1>1. ConclusionsInv => InferenceGrounded
  BY InferredGrounded DEF ConclusionsInv
<1> QED
  BY <1>1, ConclusionsInvariant, PTL

\* A draft shows the money's whole way from the seed to the candidate's addresses
\* (request_export_v2.py, _transfer_ids_for_candidate and _lineage).
THEOREM DraftsShowTheWay == Spec => []DraftShowsWay
<1>1. ConclusionsInv => DraftShowsWay
  BY DraftedShows DEF ConclusionsInv
<1> QED
  BY <1>1, ConclusionsInvariant, PTL

=============================================================================
