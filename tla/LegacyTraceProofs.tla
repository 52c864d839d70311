-------------------------- MODULE LegacyTraceProofs --------------------------
(***************************************************************************)
(* The v1 trace for any number of coroutines on one client, any ledger and *)
(* any request.  Four arguments.  The client's lock is held from the pause *)
(* to the end of the request, so that the requests are spaced.  A saved run*)
(* has a role for every wallet its transfers reached, so that a later run  *)
(* of another case finds it.  What a collection has left behind is still   *)
(* ahead of it, so that an answer that claims to be complete is; and on the*)
(* collections rests the invariant of the search, from which the           *)
(* candidates, the graph and the frontiers follow.  The allocation is a    *)
(* recursive function over the transfers in their order, whose laws are    *)
(* proved by induction over the naturals.                                  *)
(***************************************************************************)
EXTENDS LegacyTrace, AmountsProofs, SequenceTheorems

-----------------------------------------------------------------------------
(* The request lock *)

\* Who paces or waits for an answer of an EVM explorer holds the lock, and who waits
\* sent the request in time: only the holder's own request sets the clock back.
Lock ==
  /\ idle \in Nat
  /\ DOMAIN fetch = Caller /\ \A c \in Caller : "at" \in DOMAIN fetch[c]
  /\ scene.client = "evm" => \A c \in Caller :
       /\ fetch[c].at \in {"pacing", "sent"} => holder = c
       /\ fetch[c].at = "sent" => idle >= MinInterval

LEMMA LockAnswerRefused == ASSUME Lock, NEW c \in Caller, AnswerRefused(c) PROVE Lock'
BY PagesAssumption DEF Lock, AnswerRefused, Refused, EndRequest

LEMMA LockAnswerInvalid == ASSUME Lock, NEW c \in Caller, AnswerInvalid(c) PROVE Lock'
BY PagesAssumption DEF Lock, AnswerInvalid, EndRequest

LEMMA LockBackoffEnds == ASSUME Lock, NEW c \in Caller, BackoffEnds(c) PROVE Lock'
BY PagesAssumption DEF Lock, BackoffEnds

\* The clock only nears MinInterval.
LEMMA LockTick == ASSUME Lock, Tick PROVE Lock'
BY PagesAssumption DEF Lock, Tick, Least

LEMMA LockConfirm == ASSUME Lock, Confirm PROVE Lock'
BY DEF Lock, Confirm

\* A collection begins, or its answer is taken: neither holds up a request.
LEMMA LockRetrieve == ASSUME Lock, NEW c \in Caller, NEW w, NEW limit, Retrieve(c, w, limit) PROVE Lock'
BY DEF Lock, Retrieve, Result, Begin

LEMMA LockTaken ==
  ASSUME Lock, NEW c \in Caller, fetch' = [fetch EXCEPT ![c] = NoFetch],
         UNCHANGED <<scene, holder, idle>>
  PROVE  Lock'
BY DEF Lock, NoFetch

LEMMA LockStart == PagesInit => Lock
BY PagesAssumption DEF PagesInit, Lock, NoFetch

LEMMA LockTakeLock == ASSUME Lock, NEW c \in Caller, TakeLock(c) PROVE Lock'
BY PagesAssumption DEF Lock, TakeLock

LEMMA LockSend == ASSUME Lock, NEW c \in Caller, Send(c) PROVE Lock'
BY PagesAssumption DEF Lock, Send

LEMMA LockAnswerPage == ASSUME Lock, NEW c \in Caller, AnswerPage(c) PROVE Lock'
<1> PICK page, cursor : Receive(c, page, cursor)
  BY DEF AnswerPage
<1>1. DOMAIN fetch' = Caller /\ \A d \in Caller \ {c} : fetch'[d] = fetch[d]
  BY DEF Lock, Receive, Finish
<1>2. "at" \in DOMAIN fetch'[c] /\ fetch'[c].at \in {"ask", "done"}
  <2> DEFINE f == fetch[c]
             got == f.got \o AcceptedOf(f.wallet, page)
             more == [f EXCEPT !.at = "ask", !.pages = @ + 1, !.attempt = 1, !.got = got,
                               !.cursor = IF page = << >> THEN @ ELSE Last(page)]
             result == Result(f.wallet, got, Coverage(f, page, cursor, Len(got)), f.asof, f.pages + 1, FALSE)
  <2>1. "at" \in DOMAIN more /\ more.at = "ask"
    BY DEF Lock
  <2>2. "at" \in DOMAIN result /\ result.at = "done"
    BY DEF Result
  <2>3. fetch'[c] \in {more, result}
    <3>1. fetch' \in {[fetch EXCEPT ![c] = more], [fetch EXCEPT ![c] = result]}
      BY DEF Receive, Finish
    <3> HIDE DEF more, result
    <3> QED
      BY <3>1 DEF Lock
  <2> HIDE DEF more, result
  <2> QED
    BY <2>1, <2>2, <2>3
<1>3. scene' = scene /\ fetch[c].at = "sent"
  BY DEF AnswerPage
<1> QED
  BY <1>1, <1>2, <1>3, PagesAssumption DEF Lock, AnswerPage, EndRequest

LEMMA LockAnswerMisread == ASSUME Lock, NEW c \in Caller, AnswerMisread(c) PROVE Lock'
<1>1. PICK g : g = Result(fetch[c].wallet, fetch[c].got, Coverage(fetch[c], << >>, FALSE, Len(fetch[c].got)),
                          fetch[c].asof, fetch[c].pages + 1, TRUE)
  OBVIOUS
<1>2. "at" \in DOMAIN g /\ g.at = "done"
  BY <1>1 DEF Result
<1>3. fetch' = [fetch EXCEPT ![c] = g] /\ scene' = scene
  BY <1>1 DEF AnswerMisread, Finish
<1> QED
  BY <1>2, <1>3, PagesAssumption DEF Lock, AnswerMisread, EndRequest

-----------------------------------------------------------------------------
(* The roles of a trace and the saved runs *)

World == scene \in Scenes

\* The labels stay labels: no change makes a "suspect" of an address.
Labels == \A a \in DOMAIN labels : labels[a] \in Seq(Label)

\* A sequence, whatever its elements are.
ElementsOf(s) == {s[k] : k \in DOMAIN s}
IsSequence(s) == s \in Seq(ElementsOf(s))
Grown(s, e, t) == t = Append(s, e)

Fields == {"at", "hop", "frontier", "next", "visited", "queried", "transfers", "pending",
           "roles", "candidates", "events", "upto"}

\* What a trace collected has roles, and the suspect's wallet alone is the suspect's.
Roled(t, root) ==
  /\ DOMAIN t = Fields
  /\ IsSequence(t.transfers)
  /\ \A k \in DOMAIN t.transfers : Rec(t.transfers[k]).destination \in DOMAIN t.roles
  /\ \A a \in DOMAIN t.roles : t.roles[a] = "suspect" => a = root

Traces == DOMAIN trace = Caller /\ \A c \in Tracing : Roled(trace[c], Ask(c).root)

\* A saved run has the roles of a trace that is done, and so changes no more.
Saved ==
  /\ IsSequence(runs)
  /\ \A k \in DOMAIN runs : /\ runs[k].by \in Tracing /\ trace[runs[k].by].at = "done"
                            /\ runs[k].roles = trace[runs[k].by].roles

\* Two runs of different cases are linked by every wallet with a role in both that is
\* not a suspect's.
RolesLinked ==
  \A o \in DOMAIN runs : \A p \in 1 .. o - 1 :
    runs[p].case # runs[o].case =>
      \A a \in Infrastructure(runs[o].roles) \cap Infrastructure(runs[p].roles) :
        \E l \in runs[o].alerts : l.run = p /\ a \in l.shared

RInv == World /\ Labels /\ Traces /\ Saved /\ RolesLinked

LEMMA Askers == ASSUME World PROVE Tracing \subseteq Caller
BY LegacyAssumption DEF World, Tracing

LEMMA NoneIsSequence == IsSequence(<< >>)
BY DEF IsSequence, ElementsOf

LEMMA RolesStart == Init => RInv
<1> SUFFICES ASSUME Init PROVE RInv
  OBVIOUS
<1>1. World /\ Tracing \subseteq Caller
  BY Askers DEF Init, PagesInit, World
<1>2. Labels
  BY LegacyAssumption DEF Init, Labels
<1>3. Traces
  <2>1. DOMAIN trace = Caller
    BY DEF Init
  <2>2. ASSUME NEW c \in Tracing PROVE Roled(trace[c], Ask(c).root)
    <3> DEFINE t == [at |-> "QUEUED", hop |-> 1, frontier |-> <<Ask(c).root>>, next |-> << >>,
             visited |-> {Ask(c).root}, queried |-> 0, transfers |-> << >>, pending |-> << >>,
             roles |-> [a \in {Ask(c).root} |-> "suspect"], candidates |-> << >>, events |-> << >>,
             upto |-> 0]
    <3>1. trace[c] = t
      BY <1>1 DEF Init
    <3>2. DOMAIN t = Fields /\ t.transfers = << >> /\ t.roles = [a \in {Ask(c).root} |-> "suspect"]
      BY DEF Fields
    <3> HIDE DEF t
    <3> QED
      BY <3>1, <3>2, NoneIsSequence DEF Roled
  <2> QED
    BY <2>1, <2>2 DEF Traces
<1> QED
  BY <1>1, <1>2, <1>3, NoneIsSequence DEF Init, RInv, Saved, RolesLinked

\* A label that is found says what kind of service the address is, never the suspect.
LEMMA FindLabelKind == ASSUME Labels, NEW a PROVE FindLabel(a) \in EntityKind \cup {"none"}
<1>1. CASE a \in DOMAIN labels /\ Newest(a) # {}
  <2>1. (CHOOSE i \in Newest(a) : TRUE) \in DOMAIN labels[a]
    BY <1>1 DEF Newest
  <2>2. labels[a] \in Seq(Label)
    BY <1>1 DEF Labels
  <2>3. labels[a][CHOOSE i \in Newest(a) : TRUE] \in Label
    BY <2>1, <2>2
  <2> QED
    BY <2>3 DEF FindLabel, Label
<1>2. CASE ~(a \in DOMAIN labels /\ Newest(a) # {})
  BY <1>2 DEF FindLabel
<1> QED
  BY <1>1, <1>2

\* A sequence stays one when it grows.
LEMMA Appended ==
  ASSUME NEW s, IsSequence(s), NEW e, NEW t, Grown(s, e, t)
  PROVE  /\ IsSequence(t) /\ Len(s) \in Nat /\ DOMAIN s = 1 .. Len(s) /\ DOMAIN t = 1 .. Len(s) + 1
         /\ t[Len(s) + 1] = e /\ \A k \in 1 .. Len(s) : t[k] = s[k]
         /\ \A k \in DOMAIN t : k = Len(s) + 1 \/ k \in 1 .. Len(s)
<1> DEFINE n == Len(s)
           old == ElementsOf(s)
<1>1. s \in Seq(old) /\ n \in Nat /\ DOMAIN s = 1 .. n
  BY DEF IsSequence
<1>2. s \in [1 .. n -> old \cup {e}]
  <2> HIDE DEF old, n
  <2> QED
    BY <1>1 DEF n
<1>3. s \in Seq(old \cup {e})
  <2> HIDE DEF old
  <2> QED
    BY <1>1, <1>2
<1>4. /\ t \in Seq(old \cup {e}) /\ DOMAIN t = 1 .. n + 1
      /\ t[n + 1] = e /\ \A k \in 1 .. n : t[k] = s[k]
  <2> HIDE DEF old
  <2> QED
    BY <1>1, <1>3 DEF Grown
<1>5. IsSequence(t)
  <2>1. t = [k \in 1 .. n + 1 |-> t[k]]
    <3> DEFINE elements == old \cup {e}
    <3>1. t \in Seq(elements) /\ DOMAIN t = 1 .. n + 1
      BY <1>4
    <3> HIDE DEF elements, n
    <3> QED
      BY <3>1
  <2>2. \A k \in 1 .. n + 1 : t[k] \in ElementsOf(t)
    BY <1>4 DEF ElementsOf
  <2>3. t \in [1 .. n + 1 -> ElementsOf(t)]
    BY <2>1, <2>2
  <2>4. n + 1 \in Nat
    BY <1>1
  <2>5. ASSUME NEW m \in Nat, NEW S, t \in [1 .. m -> S] PROVE t \in Seq(S)
    BY <2>5
  <2> HIDE DEF n
  <2> QED
    BY <2>3, <2>4, <2>5 DEF IsSequence
<1>6. \A k \in 1 .. n + 1 : k = n + 1 \/ k \in 1 .. n
  BY <1>1
<1> QED
  BY <1>1, <1>4, <1>5, <1>6

\* A step of a trace that is not done, and saves no run, keeps what the roles promise if
\* the trace's own roles do.
LEMMA RolesStep ==
  ASSUME RInv, NEW c \in Tracing, trace[c].at # "done", NEW t, Roled(t, Ask(c).root), Set(c, t),
         UNCHANGED <<scene, labels, runs>>
  PROVE  RInv'
<1>1. Tracing \subseteq Caller /\ Tracing' = Tracing /\ \A d : Ask(d)' = Ask(d)
  BY Askers DEF RInv, Tracing, Ask
<1>2. DOMAIN trace' = Caller /\ trace'[c] = t /\ \A d \in Caller \ {c} : trace'[d] = trace[d]
  BY <1>1 DEF RInv, Traces, Set
<1>3. World' /\ Labels' /\ RolesLinked'
  BY DEF RInv, World, Labels, RolesLinked, Infrastructure
<1>4. ASSUME NEW r, NEW root, Roled(r, root) PROVE Roled(r, root)'
  BY <1>4 DEF Roled, Rec
<1>5. Traces'
  BY <1>1, <1>2, <1>4 DEF RInv, Traces
<1>6. Saved'
  BY <1>1, <1>2 DEF RInv, Saved
<1> QED
  BY <1>3, <1>5, <1>6 DEF RInv

\* What a trace is after the steps that leave its transfers and its roles alone.
LEMMA RoledKept ==
  ASSUME NEW s, NEW t, NEW root, Roled(s, root),
         DOMAIN t = DOMAIN s, t.transfers = s.transfers, t.roles = s.roles
  PROVE  Roled(t, root)
BY DEF Roled

LEMMA RoledHere == ASSUME RInv, NEW c \in Tracing PROVE Roled(trace[c], Ask(c).root) /\ DOMAIN trace[c] = Fields
BY DEF RInv, Traces, Roled

LEMMA RolesStartTrace == ASSUME RInv, NEW c \in Tracing, StartTrace(c) PROVE RInv'
<1> DEFINE t == [trace[c] EXCEPT !.at = "query"]
<1>1. Roled(t, Ask(c).root)
  <2>1. Roled(trace[c], Ask(c).root) /\ DOMAIN trace[c] = Fields
    BY RoledHere
  <2>2. DOMAIN t = DOMAIN trace[c] /\ t.transfers = trace[c].transfers /\ t.roles = trace[c].roles
    BY <2>1 DEF Fields
  <2> HIDE DEF t
  <2> QED
    BY <2>1, <2>2, RoledKept
<1> QED
  BY <1>1, RolesStep DEF StartTrace, pageVars

LEMMA RolesEndHop == ASSUME RInv, NEW c \in Tracing, EndHop(c) PROVE RInv'
<1> DEFINE t == [trace[c] EXCEPT !.hop = @ + 1, !.frontier = trace[c].next, !.next = << >>]
<1>1. Roled(t, Ask(c).root)
  <2>1. Roled(trace[c], Ask(c).root) /\ DOMAIN trace[c] = Fields
    BY RoledHere
  <2>2. DOMAIN t = DOMAIN trace[c] /\ t.transfers = trace[c].transfers /\ t.roles = trace[c].roles
    BY <2>1 DEF Fields
  <2> HIDE DEF t
  <2> QED
    BY <2>1, <2>2, RoledKept
<1>2. trace[c].at = "query" /\ Set(c, t)
  BY DEF EndHop, HopEnded
<1> HIDE DEF t
<1> QED
  BY <1>1, <1>2, RolesStep DEF EndHop, pageVars

LEMMA RolesSaveFails == ASSUME RInv, NEW c \in Tracing, SaveFails(c) PROVE RInv'
<1> DEFINE t == [trace[c] EXCEPT !.at = "raised"]
<1>1. Roled(t, Ask(c).root)
  <2>1. Roled(trace[c], Ask(c).root) /\ DOMAIN trace[c] = Fields
    BY RoledHere
  <2>2. DOMAIN t = DOMAIN trace[c] /\ t.transfers = trace[c].transfers /\ t.roles = trace[c].roles
    BY <2>1 DEF Fields
  <2> HIDE DEF t
  <2> QED
    BY <2>1, <2>2, RoledKept
<1>2. trace[c].at = "query" /\ Set(c, t)
  BY DEF SaveFails, SearchEnded, HopEnded
<1> HIDE DEF t
<1> QED
  BY <1>1, <1>2, RolesStep DEF SaveFails, pageVars

LEMMA RolesBreakOff == ASSUME RInv, NEW c \in Tracing, BreakOff(c) PROVE RInv'
<1> DEFINE event == [address |-> Head(trace[c].frontier), status |-> "LIMIT_REACHED"]
           t == [trace[c] EXCEPT !.frontier = << >>, !.events = Append(@, event)]
<1>1. Roled(t, Ask(c).root)
  <2>1. Roled(trace[c], Ask(c).root) /\ DOMAIN trace[c] = Fields
    BY RoledHere
  <2>2. DOMAIN t = DOMAIN trace[c] /\ t.transfers = trace[c].transfers /\ t.roles = trace[c].roles
    BY <2>1 DEF Fields
  <2> HIDE DEF t
  <2> QED
    BY <2>1, <2>2, RoledKept
<1>2. trace[c].at = "query" /\ Set(c, t)
  BY DEF BreakOff
<1> HIDE DEF t
<1> QED
  BY <1>1, <1>2, RolesStep DEF BreakOff, pageVars

LEMMA RolesQueryWallet == ASSUME RInv, NEW c \in Tracing, QueryWallet(c) PROVE RInv'
<1> DEFINE t == [trace[c] EXCEPT !.at = "fetching", !.queried = @ + 1]
<1>1. Roled(t, Ask(c).root)
  <2>1. Roled(trace[c], Ask(c).root) /\ DOMAIN trace[c] = Fields
    BY RoledHere
  <2>2. DOMAIN t = DOMAIN trace[c] /\ t.transfers = trace[c].transfers /\ t.roles = trace[c].roles
    BY <2>1 DEF Fields
  <2> HIDE DEF t
  <2> QED
    BY <2>1, <2>2, RoledKept
<1>2. trace[c].at = "query" /\ Set(c, t) /\ scene' = scene
  BY DEF QueryWallet, Retrieve
<1> HIDE DEF t
<1> QED
  BY <1>1, <1>2, RolesStep DEF QueryWallet

LEMMA RolesQueryFails == ASSUME RInv, NEW c \in Tracing, QueryFails(c) PROVE RInv'
<1> DEFINE raised == [trace[c] EXCEPT !.at = "raised"]
           passed == PassedOver(trace[c])
<1>1. Roled(trace[c], Ask(c).root) /\ DOMAIN trace[c] = Fields
  BY RoledHere
<1>2. Roled(passed, Ask(c).root)
  <2>1. DOMAIN passed = DOMAIN trace[c] /\ passed.transfers = trace[c].transfers /\ passed.roles = trace[c].roles
    BY <1>1 DEF Fields, PassedOver
  <2> HIDE DEF passed
  <2> QED
    BY <1>1, <2>1, RoledKept
<1>3. Roled(raised, Ask(c).root)
  <2>1. DOMAIN raised = DOMAIN trace[c] /\ raised.transfers = trace[c].transfers /\ raised.roles = trace[c].roles
    BY <1>1 DEF Fields
  <2> HIDE DEF raised
  <2> QED
    BY <1>1, <2>1, RoledKept
<1>4. trace[c].at = "fetching" /\ (Set(c, raised) \/ Set(c, passed))
  BY DEF QueryFails
<1>5. UNCHANGED <<scene, labels, runs>>
  BY DEF QueryFails
<1> HIDE DEF raised, passed
<1> QED
  BY <1>2, <1>3, <1>4, <1>5, RolesStep

LEMMA RolesQueryReturns == ASSUME RInv, NEW c \in Tracing, QueryReturns(c) PROVE RInv'
<1> DEFINE event == [address |-> Head(trace[c].frontier), status |-> "CONFIRMED"]
           t == [trace[c] EXCEPT !.at = "taking",
                      !.pending = At(fetch[c].got, {k \in DOMAIN fetch[c].got : InsideWindow(c, fetch[c].got[k])}),
                      !.events = Append(@, event)]
<1>1. Roled(t, Ask(c).root)
  <2>1. Roled(trace[c], Ask(c).root) /\ DOMAIN trace[c] = Fields
    BY RoledHere
  <2>2. DOMAIN t = DOMAIN trace[c] /\ t.transfers = trace[c].transfers /\ t.roles = trace[c].roles
    BY <2>1 DEF Fields
  <2> HIDE DEF t
  <2> QED
    BY <2>1, <2>2, RoledKept
<1>2. trace[c].at = "fetching" /\ Set(c, t)
  BY DEF QueryReturns
<1> HIDE DEF t
<1> QED
  BY <1>1, <1>2, RolesStep DEF QueryReturns

LEMMA RolesEndWallet == ASSUME RInv, NEW c \in Tracing, EndWallet(c) PROVE RInv'
<1> DEFINE t == [trace[c] EXCEPT !.at = "query", !.frontier = Tail(@)]
<1>1. Roled(t, Ask(c).root)
  <2>1. Roled(trace[c], Ask(c).root) /\ DOMAIN trace[c] = Fields
    BY RoledHere
  <2>2. DOMAIN t = DOMAIN trace[c] /\ t.transfers = trace[c].transfers /\ t.roles = trace[c].roles
    BY <2>1 DEF Fields
  <2> HIDE DEF t
  <2> QED
    BY <2>1, <2>2, RoledKept
<1>2. trace[c].at = "taking" /\ Set(c, t)
  BY DEF EndWallet
<1> HIDE DEF t
<1> QED
  BY <1>1, <1>2, RolesStep DEF EndWallet, pageVars

\* The transfer's destination has a role from then on, and no role becomes a suspect's.
LEMMA RolesTakeTransfer == ASSUME RInv, NEW c \in Tracing, TakeTransfer(c) PROVE RInv'
<1> DEFINE s == trace[c]
           i == Head(s.pending)
           a == Rec(i).destination
           kind == FindLabel(a)
           taken == [s EXCEPT !.pending = Tail(@), !.transfers = Append(@, i)]
           paid == [taken EXCEPT
                      !.roles = [x \in DOMAIN @ \cup {a} |-> IF x = a THEN "vasp" ELSE @[x]],
                      !.candidates = Append(@, [address |-> a, hop |-> s.hop, place |-> Len(s.transfers) + 1])]
           seen == [taken EXCEPT
                      !.roles = [x \in DOMAIN @ \cup {a} |-> IF x \in DOMAIN @ THEN @[x]
                                                             ELSE IF kind = "none" THEN "observed" ELSE kind],
                      !.visited = IF Enters(s, c, a) THEN @ \cup {a} ELSE @,
                      !.next = IF Enters(s, c, a) THEN Append(@, a) ELSE @]
<1>1. Roled(s, Ask(c).root) /\ DOMAIN s = Fields
  BY RoledHere
<1>2. kind # "suspect"
  BY FindLabelKind DEF RInv, EntityKind
<1>3. s.at = "taking" /\ Set(c, IF kind = "vasp" THEN paid ELSE seen)
  BY DEF TakeTransfer
<1>4. ASSUME NEW t, DOMAIN t = Fields, t.transfers = Append(s.transfers, i),
             DOMAIN t.roles = DOMAIN s.roles \cup {a},
             \A x \in DOMAIN t.roles : t.roles[x] = "suspect" => x \in DOMAIN s.roles /\ s.roles[x] = "suspect"
      PROVE  Roled(t, Ask(c).root)
  <2> DEFINE n == Len(s.transfers)
  <2>1. IsSequence(s.transfers)
    BY <1>1 DEF Roled
  <2>2. /\ IsSequence(t.transfers) /\ DOMAIN s.transfers = 1 .. n
        /\ t.transfers[n + 1] = i /\ \A k \in 1 .. n : t.transfers[k] = s.transfers[k]
        /\ \A k \in DOMAIN t.transfers : k = n + 1 \/ k \in 1 .. n
    <3> DEFINE w == t.transfers
    <3>1. Grown(s.transfers, i, w)
      BY <1>4 DEF Grown
    <3> HIDE DEF w
    <3>2. /\ IsSequence(w) /\ DOMAIN s.transfers = 1 .. n /\ w[n + 1] = i
          /\ \A k \in 1 .. n : w[k] = s.transfers[k]
          /\ \A k \in DOMAIN w : k = n + 1 \/ k \in 1 .. n
      BY <2>1, <3>1, Appended
    <3> QED
      BY <3>2 DEF w
  <2>3. \A k \in DOMAIN t.transfers : Rec(t.transfers[k]).destination \in DOMAIN t.roles
    <3>1. \A k \in 1 .. n : Rec(s.transfers[k]).destination \in DOMAIN s.roles
      BY <1>1, <2>2 DEF Roled
    <3> QED
      BY <1>4, <2>2, <3>1
  <2>4. \A x \in DOMAIN t.roles : t.roles[x] = "suspect" => x = Ask(c).root
    BY <1>1, <1>4 DEF Roled
  <2> QED
    BY <1>4, <2>2, <2>3, <2>4 DEF Roled
<1>5. DOMAIN taken = Fields /\ taken.transfers = Append(s.transfers, i) /\ taken.roles = s.roles
  BY <1>1 DEF Fields
<1> HIDE DEF s, i, a, kind, taken
<1>6. Roled(paid, Ask(c).root)
  <2>1. DOMAIN paid = Fields /\ paid.transfers = taken.transfers
        /\ paid.roles = [x \in DOMAIN taken.roles \cup {a} |-> IF x = a THEN "vasp" ELSE taken.roles[x]]
    BY <1>5 DEF Fields
  <2> HIDE DEF paid
  <2> QED
    BY <1>4, <1>5, <2>1
<1>7. Roled(seen, Ask(c).root)
  <2>1. DOMAIN seen = Fields /\ seen.transfers = taken.transfers
        /\ seen.roles = [x \in DOMAIN taken.roles \cup {a} |->
                           IF x \in DOMAIN taken.roles THEN taken.roles[x]
                           ELSE IF kind = "none" THEN "observed" ELSE kind]
    BY <1>5 DEF Fields
  <2> HIDE DEF seen
  <2> QED
    BY <1>2, <1>4, <1>5, <2>1
<1>8. UNCHANGED <<scene, labels, runs>>
  BY DEF TakeTransfer, pageVars
<1> HIDE DEF paid, seen
<1>9. PICK t : t = IF kind = "vasp" THEN paid ELSE seen
  OBVIOUS
<1>10. Roled(t, Ask(c).root) /\ Set(c, t)
  BY <1>3, <1>6, <1>7, <1>9
<1>11. trace[c].at # "done"
  BY <1>3 DEF s
<1> QED
  BY <1>8, <1>10, <1>11, RolesStep

\* A run is saved: its trace is done, and it links itself to the runs before.
LEMMA RolesConclude == ASSUME RInv, NEW c \in Tracing, Conclude(c) PROVE RInv'
<1> DEFINE s == trace[c]
           t == [s EXCEPT !.at = "done", !.upto = Len(changed)]
           run == [by |-> c, case |-> Ask(c).case, roles |-> s.roles, alerts |-> Links(s.roles, Ask(c).case)]
           n == Len(runs)
<1>1. Roled(s, Ask(c).root) /\ DOMAIN s = Fields
  BY RoledHere
<1>2. DOMAIN t = DOMAIN s /\ t.transfers = s.transfers /\ t.roles = s.roles /\ t.at = "done"
  BY <1>1 DEF Fields
<1>3. trace' = [trace EXCEPT ![c] = t] /\ s.at # "done" /\ runs' = Append(runs, run)
  BY DEF Conclude, Set, SearchEnded, HopEnded
<1>4. UNCHANGED <<scene, labels>>
  BY DEF Conclude, pageVars
<1> HIDE DEF t
<1>5. Tracing \subseteq Caller /\ Tracing' = Tracing /\ \A d : Ask(d)' = Ask(d)
  BY <1>4, Askers DEF RInv, Tracing, Ask
<1>6. DOMAIN trace' = Caller /\ trace'[c] = t /\ \A d \in Caller \ {c} : trace'[d] = trace[d]
  BY <1>3, <1>5 DEF RInv, Traces
<1>7. World' /\ Labels'
  BY <1>4 DEF RInv, World, Labels
<1>8. Traces'
  <2>1. Roled(t, Ask(c).root)
    BY <1>1, <1>2, RoledKept
  <2>2. ASSUME NEW r, NEW root, Roled(r, root) PROVE Roled(r, root)'
    BY <1>4, <2>2 DEF Roled, Rec
  <2> QED
    BY <1>5, <1>6, <2>1, <2>2 DEF RInv, Traces
<1>9. /\ run.by = c /\ run.case = Ask(c).case /\ run.roles = s.roles
      /\ run.alerts = Links(s.roles, Ask(c).case)
  OBVIOUS
<1> HIDE DEF run, s
<1>10. IsSequence(runs)
  BY DEF RInv, Saved
<1>11. /\ IsSequence(runs') /\ n \in Nat /\ DOMAIN runs = 1 .. n /\ DOMAIN runs' = 1 .. n + 1
       /\ runs'[n + 1] = run /\ \A k \in 1 .. n : runs'[k] = runs[k]
       /\ \A k \in DOMAIN runs' : k = n + 1 \/ k \in 1 .. n
  <2>1. Grown(runs, run, runs')
    BY <1>3 DEF Grown
  <2> QED
    BY <1>10, <2>1, Appended
<1>12. Saved'
  <2>1. ASSUME NEW k \in DOMAIN runs'
        PROVE  /\ runs'[k].by \in Tracing /\ trace'[runs'[k].by].at = "done"
               /\ runs'[k].roles = trace'[runs'[k].by].roles
    <3>1. CASE k = n + 1
      BY <1>2, <1>6, <1>9, <1>11, <3>1 DEF s
    <3>2. CASE k \in 1 .. n
      <4>1. /\ runs[k].by \in Tracing /\ trace[runs[k].by].at = "done"
            /\ runs[k].roles = trace[runs[k].by].roles
        BY <1>11, <3>2 DEF RInv, Saved
      <4> QED
        BY <1>3, <1>5, <1>6, <1>11, <3>2, <4>1 DEF s
    <3> QED
      BY <1>11, <3>1, <3>2
  <2>2. IsSequence(runs)'
    BY <1>11 DEF IsSequence, ElementsOf
  <2> QED
    BY <1>5, <2>1, <2>2 DEF Saved
<1>13. RolesLinked'
  <2>1. ASSUME NEW o \in DOMAIN runs', NEW p \in 1 .. o - 1, runs'[p].case # runs'[o].case,
               NEW a \in Infrastructure(runs'[o].roles) \cap Infrastructure(runs'[p].roles)
        PROVE  \E l \in runs'[o].alerts : l.run = p /\ a \in l.shared
    <3>1. o \in 1 .. n + 1 /\ p \in 1 .. n
      BY <1>11
    <3>2. runs'[p] = runs[p]
      BY <1>11, <3>1
    <3>3. CASE o \in 1 .. n
      <4>1. runs'[o] = runs[o] /\ o \in DOMAIN runs
        BY <1>11, <3>3
      <4> QED
        BY <2>1, <3>2, <4>1 DEF RInv, RolesLinked
    <3>4. CASE o = n + 1
      <4>1. a \in Infrastructure(s.roles) \cap Infrastructure(runs[p].roles) /\ runs[p].case # Ask(c).case
        BY <1>9, <1>11, <2>1, <3>2, <3>4
      <4> DEFINE shared == Infrastructure(s.roles) \cap Infrastructure(runs[p].roles)
                 link == [run |-> p, shared |-> shared]
      <4>2. link \in Links(s.roles, Ask(c).case)
        BY <1>11, <3>1, <4>1 DEF Links
      <4>3. link.run = p /\ a \in link.shared
        BY <4>1
      <4> HIDE DEF link
      <4> QED
        BY <1>9, <1>11, <3>4, <4>2, <4>3
    <3> QED
      BY <1>11, <3>3, <3>4
  <2>2. ASSUME NEW roles PROVE Infrastructure(roles)' = Infrastructure(roles)
    BY DEF Infrastructure
  <2> QED
    BY <2>1, <2>2 DEF RolesLinked, Infrastructure
<1> QED
  BY <1>7, <1>8, <1>12, <1>13 DEF RInv

\* The labels of an address change, in one of three ways, and stay labels.
LEMMA ChangesLabels ==
  ASSUME Labels, LabelsChange
  PROVE  \E a : \E new \in Seq(Label) : ChangeLabels(a, new)
<1>1. ASSUME NEW a \in DOMAIN labels, NEW i \in DOMAIN labels[a], LabelExpires(a, i)
      PROVE  \E new \in Seq(Label) : ChangeLabels(a, new)
  <2>1. labels[a] \in Seq(Label) /\ labels[a][i] \in Label
    BY DEF Labels
  <2>2. [labels[a][i] EXCEPT !.expiry = "past"] \in Label
    BY <2>1 DEF Label, Expiry
  <2> DEFINE l == [labels[a][i] EXCEPT !.expiry = "past"]
  <2>3. ChangeLabels(a, [labels[a] EXCEPT ![i] = l])
    BY <1>1 DEF LabelExpires
  <2> HIDE DEF l
  <2>4. [labels[a] EXCEPT ![i] = l] \in Seq(Label)
    BY <2>1, <2>2 DEF l
  <2> QED
    BY <2>3, <2>4
<1>2. ASSUME NEW a \in DOMAIN labels, NEW i \in DOMAIN labels[a], NEW status \in {"APPROVED", "REJECTED"},
             ReviewLabel(a, i, status)
      PROVE  \E new \in Seq(Label) : ChangeLabels(a, new)
  <2>1. labels[a] \in Seq(Label) /\ labels[a][i] \in Label
    BY DEF Labels
  <2>2. [labels[a][i] EXCEPT !.status = status] \in Label
    BY <2>1 DEF Label
  <2> DEFINE l == [labels[a][i] EXCEPT !.status = status]
  <2>3. ChangeLabels(a, [labels[a] EXCEPT ![i] = l])
    BY <1>2 DEF ReviewLabel
  <2> HIDE DEF l
  <2>4. [labels[a] EXCEPT ![i] = l] \in Seq(Label)
    BY <2>1, <2>2 DEF l
  <2> QED
    BY <2>3, <2>4
<1>3. ASSUME NEW p \in PostedLabels, NEW status \in {"APPROVED", "CONFLICT"}, AddLabel(p, status)
      PROVE  \E new \in Seq(Label) : ChangeLabels(p.address, new)
  <2> DEFINE old == LabelsOf(p.address)
             l == [status |-> status, kind |-> p.kind, expiry |-> p.expiry]
  <2>1. old \in Seq(Label)
    BY DEF Labels, LabelsOf
  <2>2. l \in Label
    BY LegacyAssumption DEF Label
  <2>3. ChangeLabels(p.address, <<l>> \o old)
    BY <1>3 DEF AddLabel
  <2> HIDE DEF old, l
  <2>4. <<l>> \o old \in Seq(Label)
    BY <2>1, <2>2
  <2> QED
    BY <2>3, <2>4
<1> QED
  BY <1>1, <1>2, <1>3 DEF LabelsChange

LEMMA RolesChange == ASSUME RInv, LabelsChange PROVE RInv'
<1>1. PICK a : \E new \in Seq(Label) : ChangeLabels(a, new)
  BY ChangesLabels DEF RInv
<1>2. PICK new \in Seq(Label) : ChangeLabels(a, new)
  BY <1>1
<1>3. labels' = [x \in DOMAIN labels \cup {a} |-> IF x = a THEN new ELSE labels[x]]
  BY <1>2 DEF ChangeLabels
<1>4. Labels'
  BY <1>3 DEF RInv, Labels
<1>5. UNCHANGED <<scene, trace, runs>>
  BY <1>2 DEF ChangeLabels, pageVars
<1>6. World' /\ Traces' /\ Saved' /\ RolesLinked'
  BY <1>5 DEF RInv, World, Traces, Saved, RolesLinked, Roled, Rec, Tracing, Ask, Infrastructure
<1> QED
  BY <1>4, <1>6 DEF RInv

\* A step that is of no trace.
LEMMA RolesElsewhere == ASSUME RInv, UNCHANGED <<scene, labels, trace, runs>> PROVE RInv'
BY DEF RInv, World, Labels, Traces, Saved, RolesLinked, Roled, Rec, Tracing, Ask, Infrastructure

LEMMA SceneStays == ASSUME NEW c, FetchStep(c) \/ Tick \/ Confirm PROVE scene' = scene
BY DEF FetchStep, TakeLock, Send, AnswerPage, AnswerMisread, AnswerRefused, AnswerInvalid, BackoffEnds, Tick, Confirm

LEMMA RolesNext == ASSUME RInv, [Next]_traceVars PROVE RInv'
<1>1. ASSUME NEW c \in Tracing, TraceStep(c) PROVE RInv'
  BY <1>1, RolesStartTrace, RolesEndHop, RolesConclude, RolesSaveFails, RolesBreakOff, RolesQueryWallet,
     RolesQueryFails, RolesQueryReturns, RolesTakeTransfer, RolesEndWallet DEF TraceStep
<1>2. ASSUME NEW c \in Tracing, FetchOf(c) PROVE RInv'
  BY <1>2, RolesElsewhere, SceneStays DEF FetchOf
<1>3. CASE TimePasses \/ Confirms
  BY <1>3, RolesElsewhere, SceneStays DEF TimePasses, Confirms
<1>4. CASE UNCHANGED traceVars
  BY <1>4, RolesElsewhere DEF traceVars, pageVars
<1> QED
  BY <1>1, <1>2, <1>3, <1>4, RolesChange DEF Next

LEMMA RolesTell == RInv => RunsLinked
<1> SUFFICES ASSUME RInv,
                    NEW o \in DOMAIN runs, NEW p \in 1 .. o - 1, runs[p].case # runs[o].case,
                    NEW a \in (Reached(runs[o].by) \cap Reached(runs[p].by))
                                \ {Ask(runs[o].by).root, Ask(runs[p].by).root}
             PROVE  \E l \in runs[o].alerts : l.run = p /\ a \in l.shared
  BY DEF RunsLinked
<1>1. p \in DOMAIN runs
  BY DEF RInv, Saved, IsSequence
<1>2. ASSUME NEW k \in DOMAIN runs, a \in Reached(runs[k].by), a # Ask(runs[k].by).root
      PROVE  a \in Infrastructure(runs[k].roles)
  <2>1. runs[k].by \in Tracing /\ runs[k].roles = trace[runs[k].by].roles
    BY DEF RInv, Saved
  <2>2. Roled(trace[runs[k].by], Ask(runs[k].by).root)
    BY <2>1 DEF RInv, Traces
  <2> QED
    BY <1>2, <2>1, <2>2 DEF Reached, Roled, Infrastructure
<1>3. a \in Infrastructure(runs[o].roles) \cap Infrastructure(runs[p].roles)
  BY <1>1, <1>2
<1> QED
  BY <1>3 DEF RInv, RolesLinked

-----------------------------------------------------------------------------
(* The theorems *)

LEMMA LockNext == ASSUME Lock, RInv, [Next]_traceVars PROVE Lock'
<1>1. Tracing \subseteq Caller
  BY Askers DEF RInv
<1>2. ASSUME NEW c \in Tracing, TraceStep(c) PROVE Lock'
  <2>1. CASE QueryWallet(c)
    BY <1>1, <2>1, LockRetrieve DEF QueryWallet
  <2>2. CASE QueryFails(c) \/ QueryReturns(c)
    BY <1>1, <2>2, LockTaken DEF QueryFails, QueryReturns
  <2>3. CASE StartTrace(c) \/ EndHop(c) \/ Conclude(c) \/ SaveFails(c) \/ BreakOff(c) \/ TakeTransfer(c) \/ EndWallet(c)
    <3>1. UNCHANGED pageVars
      BY <2>3 DEF StartTrace, EndHop, Conclude, SaveFails, BreakOff, TakeTransfer, EndWallet
    <3> QED
      BY <3>1 DEF Lock, pageVars
  <2> QED
    BY <1>2, <2>1, <2>2, <2>3 DEF TraceStep
<1>3. ASSUME NEW c \in Tracing, FetchOf(c) PROVE Lock'
  BY <1>1, <1>3, LockTakeLock, LockSend, LockAnswerPage, LockAnswerMisread, LockAnswerRefused, LockAnswerInvalid,
     LockBackoffEnds
     DEF FetchOf, FetchStep
<1>4. CASE TimePasses \/ Confirms
  BY <1>4, LockTick, LockConfirm DEF TimePasses, Confirms
<1>5. CASE LabelsChange \/ UNCHANGED traceVars
  <2>1. UNCHANGED pageVars
    BY <1>5 DEF LabelsChange, LabelExpires, ReviewLabel, AddLabel, ChangeLabels, traceVars
  <2> QED
    BY <2>1 DEF Lock, pageVars
<1> QED
  BY <1>2, <1>3, <1>4, <1>5 DEF Next

LEMMA TraceInvariant == Spec => [](Lock /\ RInv)
<1>1. Init => Lock /\ RInv
  BY LockStart, RolesStart DEF Init
<1>2. Lock /\ RInv /\ [Next]_traceVars => (Lock /\ RInv)'
  BY LockNext, RolesNext
<1> QED
  BY <1>1, <1>2, PTL DEF Spec

\* Whatever the number of coroutines on an EVM client, and however their requests end,
\* two requests are never under way at once, and one is sent only when MinInterval has
\* passed since the last one ended (ethereum.py, _get_page).
THEOREM RequestsPaced == Spec => []Paced
<1>1. Lock => Paced
  BY DEF Lock, Paced
<1> QED
  BY <1>1, TraceInvariant, PTL

\* For any ledger, requests and changes of labels: the later of two saved runs of different cases
\* alerts to every wallet, but the suspects', that transfers of both reached
\* (cross_case.py, find_links; tracing.py, trace_case).
THEOREM RunsAreLinked == Spec => []RunsLinked
<1> QED
  BY RolesTell, TraceInvariant, PTL

-----------------------------------------------------------------------------
(* Listings *)

\* A strict total order of a finite set, given by what comes before each member.
Orders(before) ==
  LET S == DOMAIN before IN
  /\ IsFiniteSet(S)
  /\ \A i \in S : before[i] \subseteq S \ {i} /\ \A j \in before[i] : before[j] \subseteq before[i]
  /\ \A i, j \in S : i = j \/ i \in before[j] \/ j \in before[i]

\* o has every member of the order once, in its place.
Lists(o, before) ==
  LET S == DOMAIN before
      n == Cardinality(S)
  IN  /\ n \in Nat /\ o \in [1 .. n -> S]
      /\ \A k \in 1 .. n : Cardinality(before[o[k]]) = k - 1
      /\ \A i \in S : Cardinality(before[i]) + 1 \in 1 .. n /\ o[Cardinality(before[i]) + 1] = i
      /\ \A k, l \in 1 .. n : o[k] \in before[o[l]] <=> k < l

LEMMA ListingLists == ASSUME NEW before, Orders(before) PROVE Lists(Listing(before), before)
<1> DEFINE S == DOMAIN before
           n == Cardinality(S)
           rank == [i \in S |-> Cardinality(before[i])]
           ranks == 0 .. n - 1
<1>1. IsFiniteSet(S) /\ n \in Nat
  BY FS_CardinalityType DEF Orders
<1>2. ASSUME NEW i \in S
      PROVE  IsFiniteSet(before[i]) /\ rank[i] \in ranks
  <2>1. before[i] \in SUBSET (S \ {i})
    BY DEF Orders
  <2>2. IsFiniteSet(S \ {i}) /\ Cardinality(S \ {i}) = n - 1
    BY <1>1, FS_RemoveElement
  <2>3. IsFiniteSet(before[i]) /\ Cardinality(before[i]) <= n - 1
    BY <2>1, <2>2, FS_Subset
  <2>4. Cardinality(before[i]) \in Nat
    BY <2>3, FS_CardinalityType
  <2> QED
    BY <1>1, <2>3, <2>4
<1>3. ASSUME NEW i \in S, NEW j \in S, i \in before[j]
      PROVE  rank[i] < rank[j]
  <2>1. before[i] \in SUBSET before[j] /\ before[i] # before[j]
    BY <1>3 DEF Orders
  <2>2. IsFiniteSet(before[j]) /\ rank[i] \in ranks /\ rank[j] \in ranks
    BY <1>2
  <2>3. Cardinality(before[i]) <= Cardinality(before[j]) /\ Cardinality(before[i]) # Cardinality(before[j])
    BY <2>1, <2>2, FS_Subset
  <2> QED
    BY <1>1, <2>2, <2>3
<1>4. \A i, j \in S : rank[i] = rank[j] => i = j
  <2> SUFFICES ASSUME NEW i \in S, NEW j \in S, rank[i] = rank[j], i # j PROVE FALSE
    OBVIOUS
  <2>1. rank[i] < rank[j] \/ rank[j] < rank[i]
    BY <1>3 DEF Orders
  <2>2. rank[i] \in Nat /\ rank[j] \in Nat
    BY <1>2
  <2> QED
    BY <2>1, <2>2
<1>5. rank \in Surjection(S, ranks)
  <2>1. rank \in [S -> ranks]
    BY <1>2
  <2>2. IsFiniteSet(ranks) /\ Cardinality(ranks) = n
    <3>1. 0 \in Int /\ n - 1 \in Int
      BY <1>1
    <3>2. IsFiniteSet(ranks) /\ Cardinality(ranks) = IF 0 > n - 1 THEN 0 ELSE (n - 1) - 0 + 1
      BY <3>1, FS_Interval, Zenon
    <3> QED
      BY <1>1, <3>2
  <2> HIDE DEF rank, ranks, n, S
  <2>3. rank \in Injection(S, ranks)
    BY <1>4, <2>1 DEF Injection, IsInjective
  <2> QED
    BY <1>1, <2>2, <2>3, FS_Injection DEF n
<1>6. ASSUME NEW k \in 1 .. n
      PROVE  /\ Listing(before)[k] \in S /\ Cardinality(before[Listing(before)[k]]) = k - 1
  <2>1. k - 1 \in ranks
    BY <1>1
  <2>2. \E i \in S : rank[i] = k - 1
    BY <1>5, <2>1 DEF Surjection
  <2>3. Listing(before)[k] = CHOOSE i \in S : Cardinality(before[i]) = k - 1
    BY DEF Listing
  <2> QED
    BY <2>2, <2>3
<1>7. Listing(before) \in [1 .. n -> S]
  BY <1>6 DEF Listing
<1>8. PICK o : o = Listing(before)
  OBVIOUS
<1>9. ASSUME NEW i \in S PROVE Cardinality(before[i]) + 1 \in 1 .. n /\ o[Cardinality(before[i]) + 1] = i
  <2>1. rank[i] + 1 \in 1 .. n /\ rank[i] \in Nat
    BY <1>1, <1>2
  <2>2. o[rank[i] + 1] \in S /\ rank[o[rank[i] + 1]] = rank[i]
    BY <1>6, <1>8, <2>1
  <2> QED
    BY <1>4, <2>1, <2>2
<1>10. ASSUME NEW k \in 1 .. n, NEW l \in 1 .. n
       PROVE  o[k] \in before[o[l]] <=> k < l
  <2>1. o[k] \in S /\ o[l] \in S /\ rank[o[k]] = k - 1 /\ rank[o[l]] = l - 1
    BY <1>6, <1>8
  <2>2. k < l => ~ (rank[o[l]] < rank[o[k]]) /\ o[k] # o[l]
    BY <2>1
  <2>3. o[k] \in before[o[l]] => rank[o[k]] < rank[o[l]]
    BY <1>3, <2>1
  <2> QED
    BY <1>1, <1>3, <2>1, <2>2, <2>3 DEF Orders
<1> QED
  BY <1>1, <1>6, <1>7, <1>8, <1>9, <1>10 DEF Lists

\* A listing of numbers in descending order.
Descends(o, S) ==
  LET n == Cardinality(S) IN
  /\ n \in Nat /\ o \in Seq(S) /\ Len(o) = n
  /\ \A k, l \in 1 .. n : k < l => o[k] > o[l]
  /\ \A k \in 1 .. n : Cardinality({j \in S : j > o[k]}) = k - 1
  /\ \A i \in S : Cardinality({j \in S : j > i}) + 1 \in 1 .. n /\ o[Cardinality({j \in S : j > i}) + 1] = i

LEMMA NewestFirstDescends ==
  ASSUME NEW S \in SUBSET Nat, IsFiniteSet(S)
  PROVE  Descends(NewestFirst(S), S)
<1> DEFINE before == [i \in S |-> {j \in S : j > i}]
<1>2. DOMAIN before = S /\ \A i \in S : before[i] = {j \in S : j > i}
  OBVIOUS
<1> HIDE DEF before
<1>1. Orders(before)
  <2>1. \A i \in S : i \in Nat
    OBVIOUS
  <2>2. \A i, j \in S : i \in before[j] <=> i > j
    BY <1>2
  <2>3. \A i \in S : before[i] \subseteq S
    BY <1>2
  <2>4. ASSUME NEW i \in S
        PROVE  before[i] \subseteq S \ {i} /\ \A j \in before[i] : before[j] \subseteq before[i]
    <3>1. ASSUME NEW j \in before[i], NEW k \in before[j] PROVE k \in before[i]
      <4>1. j \in S /\ k \in S
        BY <2>3
      <4>2. i \in Nat /\ j \in Nat /\ k \in Nat
        BY <2>1, <4>1
      <4>3. j > i /\ k > j
        BY <2>2, <4>1
      <4>4. k > i
        BY <4>2, <4>3
      <4> QED
        BY <2>2, <4>1, <4>4
    <3>2. before[i] \subseteq S
      BY <2>3
    <3>3. i \notin before[i]
      <4>1. i \in Nat /\ ~(i > i)
        BY <2>1
      <4> QED
        BY <2>2, <4>1
    <3> QED
      BY <3>1, <3>2, <3>3
  <2>5. \A i, j \in S : i = j \/ i \in before[j] \/ j \in before[i]
    BY <2>1, <2>2
  <2> QED
    BY <1>2, <2>4, <2>5 DEF Orders
<1>3. PICK o, n : o = Listing(before) /\ n = Cardinality(S)
  OBVIOUS
<1>4. Lists(o, before)
  BY <1>1, <1>3, ListingLists
<1>5. n \in Nat /\ o \in [1 .. n -> S]
  BY <1>2, <1>3, <1>4 DEF Lists
<1>6. o \in Seq(S) /\ Len(o) = n
  BY <1>5
<1>7. ASSUME NEW k \in 1 .. n, NEW l \in 1 .. n, k < l PROVE o[k] > o[l]
  <2>1. o[k] \in before[o[l]]
    BY <1>2, <1>3, <1>4, <1>7 DEF Lists
  <2> QED
    BY <1>2, <1>5, <2>1
<1>8. ASSUME NEW k \in 1 .. n PROVE Cardinality({j \in S : j > o[k]}) = k - 1
  BY <1>2, <1>3, <1>4, <1>5 DEF Lists
<1>9. ASSUME NEW i \in S
      PROVE  Cardinality({j \in S : j > i}) + 1 \in 1 .. n /\ o[Cardinality({j \in S : j > i}) + 1] = i
  BY <1>2, <1>3, <1>4 DEF Lists
<1>10. NewestFirst(S) = o
  BY <1>3 DEF NewestFirst, before
<1> QED
  BY <1>3, <1>5, <1>6, <1>7, <1>8, <1>9, <1>10 DEF Descends

\* p has the numbers of S in ascending order.
Ascends(p, n, S) ==
  /\ n \in Nat /\ p \in [1 .. n -> S]
  /\ \A i \in S : \E k \in 1 .. n : p[k] = i
  /\ \A k, l \in 1 .. n : k < l => p[k] < p[l]

LEMMA AtAscends ==
  ASSUME NEW s, NEW S \in SUBSET Nat, IsFiniteSet(S)
  PROVE  \E n, p : Ascends(p, n, S) /\ At(s, S) = [k \in 1 .. n |-> s[p[k]]]
<1> DEFINE before == [i \in S |-> {j \in S : j < i}]
<1>2. DOMAIN before = S /\ \A i \in S : before[i] = {j \in S : j < i}
  OBVIOUS
<1> HIDE DEF before
<1>1. Orders(before)
  <2>1. \A i \in S : i \in Nat
    OBVIOUS
  <2>2. \A i, j \in S : i \in before[j] <=> i < j
    BY <1>2
  <2>3. \A i \in S : before[i] \subseteq S
    BY <1>2
  <2>4. ASSUME NEW i \in S
        PROVE  before[i] \subseteq S \ {i} /\ \A j \in before[i] : before[j] \subseteq before[i]
    <3>1. ASSUME NEW j \in before[i], NEW k \in before[j] PROVE k \in before[i]
      <4>1. j \in S /\ k \in S
        BY <2>3
      <4>2. i \in Nat /\ j \in Nat /\ k \in Nat
        BY <2>1, <4>1
      <4>3. j < i /\ k < j
        BY <2>2, <4>1
      <4>4. k < i
        BY <4>2, <4>3
      <4> QED
        BY <2>2, <4>1, <4>4
    <3>2. before[i] \subseteq S
      BY <2>3
    <3>3. i \notin before[i]
      <4>1. i \in Nat /\ ~(i < i)
        BY <2>1
      <4> QED
        BY <2>2, <4>1
    <3> QED
      BY <3>1, <3>2, <3>3
  <2>5. \A i, j \in S : i = j \/ i \in before[j] \/ j \in before[i]
    BY <2>1, <2>2
  <2> QED
    BY <1>2, <2>4, <2>5 DEF Orders
<1>3. PICK p, n : p = Listing(before) /\ n = Cardinality(S)
  OBVIOUS
<1>4. Lists(p, before)
  BY <1>1, <1>3, ListingLists
<1>5. n \in Nat /\ p \in [1 .. n -> S]
  BY <1>2, <1>3, <1>4 DEF Lists
<1>6. \A i \in S : \E k \in 1 .. n : p[k] = i
  BY <1>2, <1>3, <1>4 DEF Lists
<1>7. ASSUME NEW k \in 1 .. n, NEW l \in 1 .. n, k < l PROVE p[k] < p[l]
  <2>1. p[k] \in before[p[l]]
    BY <1>2, <1>3, <1>4, <1>7 DEF Lists
  <2> QED
    BY <1>2, <1>5, <2>1
<1>8. Ascends(p, n, S)
  BY <1>5, <1>6, <1>7 DEF Ascends
<1>9. At(s, S) = [k \in 1 .. n |-> s[p[k]]]
  <2>1. At(s, S) = [k \in DOMAIN p |-> s[p[k]]]
    BY <1>3 DEF At, before
  <2> QED
    BY <1>5, <2>1
<1> QED
  BY <1>8, <1>9

Distinct(s) == \A k, l \in DOMAIN s : s[k] = s[l] => k = l
Has(s, x) == \E k \in DOMAIN s : s[k] = x

\* A selection of a sequence has what was selected, and nothing twice that was there once.
Selects(t, s, S) ==
  /\ t \in Seq(ElementsOf(s))
  /\ \A k \in DOMAIN t : \E i \in S : t[k] = s[i]
  /\ \A i \in S : Has(t, s[i])
  /\ Distinct(s) => Distinct(t)

LEMMA AtSelects ==
  ASSUME NEW V, NEW s \in Seq(V), NEW S \in SUBSET DOMAIN s
  PROVE  Selects(At(s, S), s, S)
<1>1. S \in SUBSET Nat /\ IsFiniteSet(S)
  <2> DEFINE n == Len(s)
             all == 1 .. n
  <2>1. n \in Nat /\ S \in SUBSET all
    OBVIOUS
  <2>2. 1 \in Int /\ n \in Int
    BY <2>1
  <2>3. IsFiniteSet(all)
    BY <2>2, FS_Interval, Zenon
  <2>4. IsFiniteSet(S)
    BY <2>1, <2>3, FS_Subset, Zenon
  <2> QED
    BY <2>1, <2>4
<1>2. PICK n, p : Ascends(p, n, S) /\ At(s, S) = [k \in 1 .. n |-> s[p[k]]]
  BY <1>1, AtAscends
<1>3. PICK t : t = At(s, S)
  OBVIOUS
<1>4. DOMAIN t = 1 .. n /\ n \in Nat /\ \A k \in 1 .. n : t[k] = s[p[k]] /\ p[k] \in S
  BY <1>2, <1>3 DEF Ascends
<1>5. t \in [1 .. n -> ElementsOf(s)]
  <2>1. \A k \in 1 .. n : s[p[k]] \in ElementsOf(s)
    BY <1>4 DEF ElementsOf
  <2> QED
    BY <1>2, <1>3, <2>1
<1>6. t \in Seq(ElementsOf(s))
  BY <1>4, <1>5
<1>7. ASSUME NEW i \in S PROVE Has(t, s[i])
  <2>1. PICK k \in 1 .. n : p[k] = i
    BY <1>2 DEF Ascends
  <2>2. k \in DOMAIN t /\ t[k] = s[i]
    BY <1>4, <2>1
  <2> QED
    BY <2>2 DEF Has
<1>8. ASSUME Distinct(s), NEW k \in 1 .. n, NEW l \in 1 .. n, t[k] = t[l] PROVE k = l
  <2>1. p[k] = p[l]
    BY <1>4, <1>8 DEF Distinct
  <2>2. p[k] \in Nat /\ p[l] \in Nat
    BY <1>1, <1>4
  <2> QED
    BY <1>2, <1>4, <2>1, <2>2 DEF Ascends
<1>9. Distinct(s) => Distinct(t)
  BY <1>4, <1>8 DEF Distinct
<1> QED
  BY <1>3, <1>4, <1>6, <1>7, <1>9 DEF Selects

-----------------------------------------------------------------------------
(* Pages *)

Above(S, i) == {j \in S : j > i}

\* A page of up to m numbers of S, behind the skip greatest: what is neither among those
\* nor on the page is behind a full page.
PageOf(page, S, skip, m) ==
  /\ page \in Seq(S) /\ Len(page) <= m /\ Distinct(page)
  /\ Len(page) = m => Cardinality(S) >= skip + m
  /\ \A k \in DOMAIN page : page[k] >= page[Len(page)]
  /\ \A i \in S : Cardinality(Above(S, i)) \in Nat /\ Cardinality(Above(S, i)) < Cardinality(S)
  /\ \A i \in S : Cardinality(Above(S, i)) >= skip /\ ~Has(page, i) =>
       /\ Len(page) = m /\ Cardinality(Above(S, i)) >= skip + m
       /\ i < page[Len(page)]

LEMMA SlicePage ==
  ASSUME NEW S \in SUBSET Nat, NEW o, Descends(o, S), NEW skip \in Nat, NEW m \in Nat \ {0}
  PROVE  PageOf(SubSeq(o, skip + 1, Least(Len(o), skip + m)), S, skip, m)
<1>1. PICK n, above : n = Cardinality(S) /\ above = [i \in S |-> Cardinality({j \in S : j > i})]
  OBVIOUS
<1>2. n \in Nat /\ o \in Seq(S) /\ Len(o) = n /\ DOMAIN o = 1 .. n
  BY <1>1 DEF Descends
<1>3. \A k \in 1 .. n : o[k] \in S /\ above[o[k]] = k - 1
  BY <1>1, <1>2 DEF Descends
<1>4. \A i \in S : above[i] + 1 \in 1 .. n /\ o[above[i] + 1] = i
  BY <1>1 DEF Descends
<1>5. \A k, l \in 1 .. n : k < l => o[k] > o[l]
  BY <1>1 DEF Descends
<1>6. \A i \in S : above[i] \in Nat /\ above[i] < n
  <2>1. \A i \in S : Cardinality({j \in S : j > i}) \in Int
    <3>1. \A i \in S : {j \in S : j > i} \in SUBSET S
      OBVIOUS
    <3>2. IsFiniteSet(S)
      <4>1. o \in Surjection(1 .. n, S)
        BY <1>2, <1>3, <1>4 DEF Surjection
      <4>2. 1 \in Int /\ n \in Int
        BY <1>2
      <4>3. IsFiniteSet(1 .. n)
        BY <4>2, FS_Interval, Zenon
      <4> QED
        BY <4>1, <4>3, FS_Surjection
    <3>3. \A i \in S : IsFiniteSet({j \in S : j > i})
      BY <3>1, <3>2, FS_Subset
    <3> QED
      BY <3>3, FS_CardinalityType
  <2> QED
    BY <1>1, <1>2, <1>4, <2>1
<1> DEFINE first == skip + 1
           last == Least(Len(o), skip + m)
<1>7. /\ first = skip + 1 /\ first \in Int /\ last \in Int /\ last <= n /\ last <= skip + m
      /\ last = n \/ last = skip + m
  BY <1>2 DEF Least
<1> HIDE DEF first, last
<1>8. PICK page : page = SubSeq(o, first, last)
  OBVIOUS
<1>9. PICK size : size = IF first <= last THEN last - first + 1 ELSE 0
  OBVIOUS
<1>10. page \in Seq(S) /\ Len(page) = size /\ \A k \in 1 .. last - first + 1 : page[k] = o[first + k - 1]
  <2>1. \A k \in first .. last : k \in 1 .. n
    BY <1>2, <1>7
  <2>2. \A k \in first .. last : o[k] \in S
    BY <1>3, <2>1
  <2> QED
    BY <1>7, <1>8, <1>9, <2>2, SubSeqProperties
<1>11. size \in Nat /\ size <= m /\ DOMAIN page = 1 .. size /\ (size > 0 => last = skip + size) /\ (size < m => last = n)
  <2>1. size \in Nat /\ size <= m /\ (size > 0 => last = skip + size) /\ (size < m => last = n)
    BY <1>2, <1>7, <1>9
  <2>2. DOMAIN page = 1 .. size
    BY <1>10
  <2> QED
    BY <2>1, <2>2
<1>12. \A k \in 1 .. size : page[k] = o[skip + k] /\ skip + k \in 1 .. n
  <2>1. ASSUME NEW k \in 1 .. size PROVE page[k] = o[skip + k] /\ skip + k \in 1 .. n
    <3>1. k \in 1 .. last - first + 1 /\ first + k - 1 = skip + k
      BY <1>7, <1>9
    <3>2. page[k] = o[first + k - 1]
      BY <1>10, <3>1
    <3> QED
      BY <1>2, <1>7, <1>9, <3>1, <3>2
  <2> QED
    BY <2>1
<1>13. Distinct(page)
  <2>1. ASSUME NEW k \in 1 .. size, NEW l \in 1 .. size, page[k] = page[l] PROVE k = l
    <3>1. above[o[skip + k]] = skip + k - 1 /\ above[o[skip + l]] = skip + l - 1
      BY <1>3, <1>12
    <3> QED
      BY <1>11, <1>12, <2>1, <3>1
  <2> QED
    BY <1>11, <2>1 DEF Distinct
<1>14. size = m => n >= skip + m
  BY <1>7, <1>11
<1>15. ASSUME NEW i \in S, above[i] >= skip, ~Has(page, i)
       PROVE  size = m /\ above[i] >= skip + m /\ i < page[size]
  <2> DEFINE k == above[i] + 1 - skip
  <2>1. k \in Nat /\ k >= 1 /\ skip + k = above[i] + 1
    BY <1>6, <1>15
  <2>2. ~ (k \in 1 .. size)
    <3>1. ASSUME k \in 1 .. size PROVE FALSE
      <4>1. page[k] = o[above[i] + 1]
        BY <1>12, <2>1, <3>1
      <4>2. page[k] = i
        BY <1>4, <4>1
      <4> HIDE DEF k
      <4> QED
        BY <1>11, <1>15, <3>1, <4>2 DEF Has
    <3> QED
      BY <3>1
  <2>3. k > size
    BY <1>11, <2>1, <2>2
  <2>4. size = m
    BY <1>2, <1>4, <1>6, <1>7, <1>9, <1>11, <2>1, <2>3
  <2>5. page[size] = o[skip + size] /\ skip + size \in 1 .. n
    BY <1>11, <1>12, <2>4
  <2>6. above[i] + 1 \in 1 .. n /\ skip + size < above[i] + 1
    BY <1>4, <1>11, <2>1, <2>3
  <2>7. o[skip + size] > i
    BY <1>4, <1>5, <2>5, <2>6
  <2>8. page[size] \in Nat /\ i \in Nat
    BY <1>3, <2>5
  <2> QED
    BY <1>6, <1>11, <2>1, <2>3, <2>4, <2>5, <2>7, <2>8
<1>16. \A k \in DOMAIN page : page[k] >= page[Len(page)]
  <2>1. ASSUME NEW k \in 1 .. size PROVE page[k] >= page[size]
    <3>1. page[k] = o[skip + k] /\ page[size] = o[skip + size] /\ skip + k \in 1 .. n /\ skip + size \in 1 .. n
      BY <1>11, <1>12
    <3>2. k = size \/ o[skip + k] > o[skip + size]
      BY <1>5, <1>11, <3>1
    <3>3. o[skip + k] \in Nat /\ o[skip + size] \in Nat
      BY <1>3, <3>1
    <3> QED
      BY <3>1, <3>2, <3>3
  <2> QED
    BY <1>10, <1>11, <2>1
<1> QED
  BY <1>1, <1>6, <1>8, <1>10, <1>11, <1>13, <1>14, <1>15, <1>16 DEF PageOf, Above, first, last

-----------------------------------------------------------------------------
(* The collections *)

\* The explorer knows a part of the ledger.
Explored == World /\ known \in 0 .. Len(scene.ledger)

\* An EVM wallet has as many records as a first page takes, so that its pages may overlap.
Overlaps(w, limit) == scene.client = "evm" /\ Cardinality(Listed(w)) >= Least(PageCap, limit)

\* What was kept of a wallet's records is money it sent, each once unless pages overlapped.
Gathered(w, limit, got) ==
  /\ got \in Seq(Nat)
  /\ \A k \in DOMAIN got : got[k] \in 1 .. known /\ Accepted(w, got[k])
  /\ Distinct(got) \/ Overlaps(w, limit)

\* What an answer that claims to be complete holds, if no error was taken for a page.
Answered(w, r) == r.coverage = "COMPLETE" /\ ~r.misread => \A i \in 1 .. r.asof : Accepted(w, i) => Has(r.got, i)

Holds(w, limit, r) == Gathered(w, limit, r.got) /\ Answered(w, r)

Part(w, limit) ==
  [at : {"ask", "pacing", "sent", "backoff"}, wallet : {w}, limit : {limit}, pages : Nat, attempt : Nat,
   got : Seq(Nat), cursor : Nat, asof : 0 .. known]

\* What a collection under way has left behind is still ahead of it: an EVM page is asked
\* for by its number, and a page that shrinks begins sooner; TronGrid's cursor is the
\* oldest record seen.
Underway(f, w, limit) ==
  /\ f \in Part(w, limit)
  /\ Gathered(w, limit, f.got) /\ Len(f.got) < limit
  /\ IF scene.client = "evm"
     THEN /\ (f.pages = 0 /\ f.got = << >>) \/ Overlaps(w, limit)
          /\ \A i \in 1 .. f.asof : Accepted(w, i) /\ ~Has(f.got, i) =>
               Cardinality(Above(Listed(w), i)) >= f.pages * Offset(f)
     ELSE /\ Distinct(f.got) /\ \A k \in DOMAIN f.got : f.got[k] >= f.cursor
          /\ \A i \in 1 .. f.asof : Accepted(w, i) /\ i >= f.cursor => Has(f.got, i)

Collecting(f, w, limit) ==
  \/ f = [at |-> "raised"]
  \/ f.at = "done" /\ f.wallet = w /\ Holds(w, limit, f)
  \/ Underway(f, w, limit)

Limits == Nat \ {0}

Collects(f) == f = NoFetch \/ \E w \in Address : \E limit \in Limits : Collecting(f, w, limit)

Entry(r) == {"got", "coverage", "asof", "misread"} \subseteq DOMAIN r

Cached(entries) ==
  \A w \in Address : \A limit \in Limits :
    <<w, limit>> \in DOMAIN entries => Entry(entries[<<w, limit>>]) /\ Holds(w, limit, entries[<<w, limit>>])

Collections ==
  /\ Explored
  /\ DOMAIN fetch = Caller /\ \A c \in Caller : Collects(fetch[c])
  /\ Cached(cache)

\* The ledger's records, and a wallet's.
LEMMA Ledger ==
  ASSUME Explored
  PROVE  /\ Len(scene.ledger) \in Nat /\ known \in Nat
         /\ \A i \in 1 .. known : Rec(i) \in Record
<1>1. scene.ledger \in Seq(Record) /\ known \in 0 .. Len(scene.ledger)
  BY PagesAssumption DEF Explored, World
<1> QED
  BY <1>1 DEF Rec

LEMMA ListedFinite ==
  ASSUME Explored, NEW w
  PROVE  Listed(w) \in SUBSET (1 .. known) /\ Listed(w) \in SUBSET Nat /\ IsFiniteSet(Listed(w))
<1>1. known \in Nat
  BY Ledger
<1>2. Listed(w) \in SUBSET (1 .. known)
  BY DEF Listed
<1>3. 1 \in Int /\ known \in Int
  BY <1>1
<1>4. IsFiniteSet(1 .. known)
  BY <1>3, FS_Interval, Zenon
<1>5. IsFiniteSet(Listed(w))
  BY <1>2, <1>4, FS_Subset
<1> QED
  BY <1>1, <1>2, <1>5

\* The explorer only comes to know more: the records above one grow.
LEMMA Grows ==
  ASSUME Explored, scene' = scene, known' \in known .. Len(scene.ledger), NEW w
  PROVE  /\ Explored' /\ Listed(w) \in SUBSET Listed(w)'
         /\ Cardinality(Listed(w)) <= Cardinality(Listed(w)')
         /\ \A i : Cardinality(Above(Listed(w), i)) <= Cardinality(Above(Listed(w)', i))
         /\ Cardinality(Listed(w)) \in Nat /\ Cardinality(Listed(w)') \in Nat
         /\ \A i : Cardinality(Above(Listed(w), i)) \in Nat /\ Cardinality(Above(Listed(w)', i)) \in Nat
<1>1. known \in Nat /\ known' \in Nat /\ known <= known' /\ Explored'
  BY Ledger DEF Explored, World
<1>2. Listed(w) \in SUBSET Listed(w)'
  BY <1>1 DEF Listed, Rec
<1>3. PICK A, B : A = Listed(w) /\ B = Listed(w)'
  OBVIOUS
<1>4. IsFiniteSet(B)
  <2>1. B \in SUBSET (1 .. known')
    BY <1>3 DEF Listed
  <2>2. 1 \in Int /\ known' \in Int
    BY <1>1
  <2>3. IsFiniteSet(1 .. known')
    BY <2>2, FS_Interval, Zenon
  <2> QED
    BY <2>1, <2>3, FS_Subset
<1>5. A \in SUBSET B
  BY <1>2, <1>3
<1>6. IsFiniteSet(A) /\ Cardinality(A) <= Cardinality(B) /\ Cardinality(A) \in Nat /\ Cardinality(B) \in Nat
  BY <1>4, <1>5, FS_Subset, FS_CardinalityType
<1>7. ASSUME NEW i
      PROVE  /\ Cardinality(Above(A, i)) <= Cardinality(Above(B, i))
             /\ Cardinality(Above(A, i)) \in Nat /\ Cardinality(Above(B, i)) \in Nat
  <2>1. Above(A, i) \in SUBSET Above(B, i) /\ Above(B, i) \in SUBSET B
    BY <1>5 DEF Above
  <2>2. IsFiniteSet(Above(B, i))
    BY <1>4, <2>1, FS_Subset
  <2> QED
    BY <2>1, <2>2, FS_Subset, FS_CardinalityType
<1> QED
  BY <1>1, <1>2, <1>3, <1>6, <1>7

\* A collection stays what it is while the explorer learns of more records.
LEMMA StaysGathered ==
  ASSUME Explored, scene' = scene, known' \in known .. Len(scene.ledger),
         NEW w, NEW limit \in Limits, NEW got, Gathered(w, limit, got)
  PROVE  Gathered(w, limit, got)'
<1>1. known \in Nat /\ known <= known' /\ known' \in Nat
  BY Ledger
<1>2. PageCap \in Nat /\ limit \in Nat
  BY PagesAssumption DEF Limits
<1>3. Overlaps(w, limit) => Overlaps(w, limit)'
  BY <1>2, Grows DEF Overlaps, Least
<1>4. \A k \in DOMAIN got : got[k] \in 1 .. known' /\ Accepted(w, got[k])'
  BY <1>1 DEF Gathered, Accepted, Rec
<1> QED
  BY <1>3, <1>4 DEF Gathered

LEMMA StaysHeld ==
  ASSUME Explored, scene' = scene, known' \in known .. Len(scene.ledger),
         NEW w, NEW limit \in Limits, NEW r, Holds(w, limit, r)
  PROVE  Holds(w, limit, r)'
<1>1. PICK got : got = r.got
  OBVIOUS
<1>2. Gathered(w, limit, got)'
  BY <1>1, StaysGathered DEF Holds
<1>3. Answered(w, r)'
  BY DEF Holds, Answered, Accepted, Rec
<1> QED
  BY <1>1, <1>2, <1>3 DEF Holds

\* What the proofs use of a collection's record.
LEMMA PartFields ==
  ASSUME NEW w, NEW limit \in Limits, NEW f, Underway(f, w, limit), Explored
  PROVE  /\ f.wallet = w /\ f.limit = limit /\ limit \in Nat /\ f.pages \in Nat /\ f.attempt \in Nat
         /\ f.got \in Seq(Nat) /\ f.cursor \in Nat /\ f.asof \in 0 .. known /\ f.asof \in Nat
         /\ Len(f.got) \in Nat /\ f.at \in {"ask", "pacing", "sent", "backoff"}
         /\ Offset(f) \in Nat \ {0} /\ Offset(f) = Least(PageCap, limit - Len(f.got))
         /\ f.at # "done" /\ f # NoFetch
<1>1. f \in Part(w, limit) /\ Len(f.got) < limit
  BY DEF Underway
<1>2. f.wallet = w /\ f.limit = limit /\ f.pages \in Nat /\ f.attempt \in Nat /\ f.got \in Seq(Nat) /\ f.cursor \in Nat
      /\ f.asof \in 0 .. known /\ f.at \in {"ask", "pacing", "sent", "backoff"}
  BY <1>1 DEF Part
<1>3. known \in Nat
  BY Ledger
<1>4. f.at # "idle" /\ NoFetch.at = "idle" /\ f.at # "done"
  BY <1>2 DEF NoFetch
<1>5. limit \in Nat /\ Len(f.got) \in Nat /\ PageCap \in Nat \ {0}
  BY <1>2, PagesAssumption DEF Limits
<1>6. Offset(f) = Least(PageCap, limit - Len(f.got))
  BY <1>2 DEF Offset
<1>7. Offset(f) \in Nat \ {0}
  BY <1>1, <1>5, <1>6 DEF Least
<1> QED
  BY <1>2, <1>3, <1>4, <1>5, <1>6, <1>7

LEMMA StaysUnderway ==
  ASSUME Explored, scene' = scene, known' \in known .. Len(scene.ledger),
         NEW w, NEW limit \in Limits, NEW f, Underway(f, w, limit)
  PROVE  Underway(f, w, limit)'
<1>1. known \in Nat /\ known <= known' /\ known' \in Nat
  BY Ledger
<1>2. f \in Part(w, limit)'
  BY <1>1 DEF Underway, Part
<1>3. PICK got : got = f.got
  OBVIOUS
<1>4. Gathered(w, limit, got)'
  BY <1>3, StaysGathered DEF Underway
<1>5. Overlaps(w, limit) => Overlaps(w, limit)'
  <2>1. PageCap \in Nat /\ limit \in Nat
    BY PagesAssumption DEF Limits
  <2> QED
    BY <2>1, Grows DEF Overlaps, Least
<1>6. PICK behind : behind = f.pages * Offset(f)
  OBVIOUS
<1>7. behind \in Nat
  <2>1. f.pages \in Nat /\ Offset(f) \in Nat
    BY PartFields
  <2> QED
    BY <1>6, <2>1
<1>8. ASSUME NEW i, Cardinality(Above(Listed(w), i)) >= behind
      PROVE  Cardinality(Above(Listed(w)', i)) >= behind
  BY <1>7, <1>8, Grows
<1>9. Offset(f)' = Offset(f)
  BY DEF Offset
<1>10. Above(Listed(w), 0)' = Above(Listed(w)', 0) /\ \A i : Accepted(w, i)' = Accepted(w, i)
  BY DEF Above, Accepted, Rec
<1>11. CASE scene.client = "evm"
  <2>1. (f.pages = 0 /\ f.got = << >>) \/ Overlaps(w, limit)'
    BY <1>5, <1>11 DEF Underway
  <2>2. ASSUME NEW i \in 1 .. f.asof, Accepted(w, i), ~Has(f.got, i)
        PROVE  Cardinality(Above(Listed(w)', i)) >= f.pages * Offset(f)
    BY <1>6, <1>8, <1>11, <2>2 DEF Underway
  <2> QED
    BY <1>2, <1>3, <1>4, <1>9, <1>10, <1>11, <2>1, <2>2 DEF Underway, Above
<1>12. CASE scene.client # "evm"
  BY <1>2, <1>3, <1>4, <1>10, <1>12 DEF Underway
<1> QED
  BY <1>11, <1>12

LEMMA StaysCollecting ==
  ASSUME Explored, scene' = scene, known' \in known .. Len(scene.ledger),
         NEW w, NEW limit \in Limits, NEW f, Collecting(f, w, limit)
  PROVE  Collecting(f, w, limit)'
BY StaysUnderway, StaysHeld DEF Collecting

-----------------------------------------------------------------------------
(* A page comes *)

Skip(f) == IF scene.client = "evm" THEN f.pages * Offset(f) ELSE 0

LEMMA PageIs ==
  ASSUME Explored, NEW w, NEW limit \in Limits, NEW f, Underway(f, w, limit)
  PROVE  PageOf(Page(f), Paged(f), Skip(f), Offset(f)) /\ Skip(f) \in Nat /\ Paged(f) \in SUBSET Listed(w)
<1>1. PICK S, o, skip, m : S = Paged(f) /\ o = NewestFirst(S) /\ skip = Skip(f) /\ m = Offset(f)
  OBVIOUS
<1>2. m \in Nat \ {0} /\ f.pages \in Nat /\ f.wallet = w
  BY <1>1, PartFields
<1>3. skip \in Nat
  BY <1>1, <1>2 DEF Skip
<1>4. S \in SUBSET Listed(w)
  BY <1>1, <1>2 DEF Paged
<1>5. S \in SUBSET Nat /\ IsFiniteSet(S)
  BY <1>4, ListedFinite, FS_Subset
<1>6. Descends(o, S)
  BY <1>1, <1>5, NewestFirstDescends
<1>7. PageOf(SubSeq(o, skip + 1, Least(Len(o), skip + m)), S, skip, m)
  BY <1>2, <1>3, <1>5, <1>6, SlicePage
<1>8. Page(f) = SubSeq(o, skip + 1, Least(Len(o), skip + m))
  BY <1>1 DEF Page, Skip
<1> QED
  BY <1>1, <1>3, <1>4, <1>7, <1>8

\* What is kept of a page: all of it that counts.
Keeps(w, page, kept) ==
  /\ kept \in Seq(Nat)
  /\ \A k \in DOMAIN kept : Has(page, kept[k]) /\ Accepted(w, kept[k])
  /\ \A i : Has(page, i) /\ Accepted(w, i) => Has(kept, i)
  /\ Distinct(page) => Distinct(kept)

LEMMA AcceptedKeeps ==
  ASSUME NEW w, NEW page \in Seq(Nat)
  PROVE  Keeps(w, page, AcceptedOf(w, page))
<1>1. PICK K, kept : K = {k \in DOMAIN page : Accepted(w, page[k])} /\ kept = At(page, K)
  OBVIOUS
<1>2. Selects(kept, page, K)
  BY <1>1, AtSelects
<1>3. kept \in Seq(Nat)
  <2>1. ElementsOf(page) \subseteq Nat
    BY DEF ElementsOf
  <2>2. kept \in Seq(ElementsOf(page))
    BY <1>2 DEF Selects
  <2> QED
    BY <2>1, <2>2
<1>4. ASSUME NEW k \in DOMAIN kept PROVE Has(page, kept[k]) /\ Accepted(w, kept[k])
  <2>1. PICK i \in K : kept[k] = page[i]
    BY <1>2 DEF Selects
  <2>2. i \in DOMAIN page /\ Accepted(w, page[i])
    BY <1>1
  <2> QED
    BY <2>1, <2>2 DEF Has
<1>5. ASSUME NEW i, Has(page, i), Accepted(w, i) PROVE Has(kept, i)
  <2>1. PICK k \in DOMAIN page : page[k] = i
    BY <1>5 DEF Has
  <2>2. k \in K
    BY <1>1, <1>5, <2>1
  <2> QED
    BY <1>2, <2>1, <2>2 DEF Selects
<1> QED
  BY <1>1, <1>2, <1>3, <1>4, <1>5 DEF Keeps, Selects, AcceptedOf

\* Two sequences, one after the other.
LEMMA Joined ==
  ASSUME NEW s \in Seq(Nat), NEW t \in Seq(Nat), NEW u, u = s \o t
  PROVE  /\ u \in Seq(Nat)
         /\ \A i : Has(u, i) <=> Has(s, i) \/ Has(t, i)
         /\ \A k \in DOMAIN u : Has(s, u[k]) \/ Has(t, u[k])
         /\ Distinct(s) /\ Distinct(t) /\ (\A i : ~(Has(s, i) /\ Has(t, i))) => Distinct(u)
         /\ s = << >> => u = t
<1>1. u \in Seq(Nat) /\ Len(u) = Len(s) + Len(t) /\ Len(s) \in Nat /\ Len(t) \in Nat
  OBVIOUS
<1>2. PICK m, n : m = Len(s) /\ n = Len(t)
  OBVIOUS
<1>3. DOMAIN s = 1 .. m /\ DOMAIN t = 1 .. n /\ DOMAIN u = 1 .. m + n /\ m \in Nat /\ n \in Nat
  BY <1>1, <1>2
<1>4. /\ \A k \in 1 .. m : k \in 1 .. m + n /\ u[k] = s[k]
      /\ \A k \in 1 .. n : m + k \in 1 .. m + n /\ u[m + k] = t[k]
  BY <1>1, <1>2
<1>5. \A k \in 1 .. m + n : k \in 1 .. m \/ (k - m \in 1 .. n /\ m + (k - m) = k)
  BY <1>3
<1>6. \A k \in DOMAIN u : (k \in 1 .. m /\ u[k] = s[k]) \/ (k - m \in 1 .. n /\ u[k] = t[k - m])
  BY <1>3, <1>4, <1>5
<1>7. \A k \in DOMAIN u : Has(s, u[k]) \/ Has(t, u[k])
  BY <1>3, <1>6 DEF Has
<1>8. \A i : Has(u, i) <=> Has(s, i) \/ Has(t, i)
  <2> SUFFICES ASSUME NEW i PROVE Has(u, i) <=> Has(s, i) \/ Has(t, i)
    OBVIOUS
  <2>1. Has(u, i) => Has(s, i) \/ Has(t, i)
    BY <1>7 DEF Has
  <2>2. Has(s, i) => Has(u, i)
    BY <1>3, <1>4 DEF Has
  <2>3. Has(t, i) => Has(u, i)
    BY <1>3, <1>4 DEF Has
  <2> QED
    BY <2>1, <2>2, <2>3
<1>9. ASSUME Distinct(s), Distinct(t), \A i : ~(Has(s, i) /\ Has(t, i)) PROVE Distinct(u)
  <2> SUFFICES ASSUME NEW k \in DOMAIN u, NEW l \in DOMAIN u, u[k] = u[l] PROVE k = l
    BY DEF Distinct
  <2>1. CASE k \in 1 .. m /\ u[k] = s[k] /\ l \in 1 .. m /\ u[l] = s[l]
    BY <1>3, <1>9, <2>1 DEF Distinct
  <2>2. CASE k - m \in 1 .. n /\ u[k] = t[k - m] /\ l - m \in 1 .. n /\ u[l] = t[l - m]
    <3>1. k - m = l - m
      BY <1>3, <1>9, <2>2 DEF Distinct
    <3> QED
      BY <1>3, <3>1
  <2>3. ASSUME NEW x \in 1 .. m, NEW y \in 1 .. n PROVE s[x] # t[y]
    BY <1>3, <1>9 DEF Has
  <2> QED
    BY <1>6, <2>1, <2>2, <2>3
<1>10. s = << >> => u = t
  OBVIOUS
<1> QED
  BY <1>1, <1>7, <1>8, <1>9, <1>10

\* With a page, a collection has what it had and what counts of the page.
Advances(got, f, w, limit) ==
  /\ got \in Seq(Nat)
  /\ \A k \in DOMAIN got : got[k] \in 1 .. known /\ Accepted(w, got[k])
  /\ \A i : Has(f.got, i) => Has(got, i)
  /\ \A i : Has(Page(f), i) /\ Accepted(w, i) => Has(got, i)
  /\ \A i : Has(got, i) => Has(f.got, i) \/ Has(Page(f), i)
  /\ Distinct(got) \/ Overlaps(w, limit)
  /\ scene.client # "evm" => Distinct(got)

LEMMA PageAdvances ==
  ASSUME Explored, NEW w, NEW limit \in Limits, NEW f, Underway(f, w, limit),
         NEW got, got = f.got \o AcceptedOf(w, Page(f))
  PROVE  Advances(got, f, w, limit)
<1>1. PICK page, kept : page = Page(f) /\ kept = AcceptedOf(w, page)
  OBVIOUS
<1>2. PICK S, old, skip, m : S = Paged(f) /\ old = f.got /\ skip = Skip(f) /\ m = Offset(f)
  OBVIOUS
<1>3. PageOf(page, S, skip, m) /\ S \in SUBSET Listed(w) /\ S \in SUBSET Nat /\ S \in SUBSET (1 .. known)
  BY <1>1, <1>2, PageIs, ListedFinite
<1>4. page \in Seq(S) /\ page \in Seq(Nat) /\ Distinct(page)
  <2>1. page \in Seq(S) /\ Distinct(page)
    BY <1>3 DEF PageOf
  <2> QED
    BY <1>3, <2>1, SeqMonotonic
<1>5. Keeps(w, page, kept)
  BY <1>1, <1>4, AcceptedKeeps
<1>6. old \in Seq(Nat) /\ Gathered(w, limit, old)
  BY <1>2, PartFields DEF Underway
<1>7. kept \in Seq(Nat) /\ Distinct(kept)
  BY <1>4, <1>5 DEF Keeps
<1>8. got = old \o kept
  BY <1>1, <1>2
<1>9. /\ got \in Seq(Nat)
      /\ \A i : Has(got, i) <=> Has(old, i) \/ Has(kept, i)
      /\ \A k \in DOMAIN got : Has(old, got[k]) \/ Has(kept, got[k])
      /\ Distinct(old) /\ Distinct(kept) /\ (\A i : ~(Has(old, i) /\ Has(kept, i))) => Distinct(got)
      /\ old = << >> => got = kept
  BY <1>6, <1>7, <1>8, Joined
<1>10. \A i : Has(page, i) => i \in S
  BY <1>4 DEF Has
<1>11. \A i : Has(kept, i) => i \in S /\ Accepted(w, i)
  BY <1>5, <1>10 DEF Keeps, Has
<1>12. \A i : Has(old, i) => i \in 1 .. known /\ Accepted(w, i)
  BY <1>6 DEF Gathered, Has
<1>13. \A k \in DOMAIN got : got[k] \in 1 .. known /\ Accepted(w, got[k])
  BY <1>3, <1>9, <1>11, <1>12
<1>14. \A i : Has(page, i) /\ Accepted(w, i) => Has(got, i)
  BY <1>5, <1>9 DEF Keeps
<1>17. ASSUME NEW i, Has(got, i) PROVE Has(old, i) \/ Has(page, i)
  <2>1. Has(kept, i) => Has(page, i)
    BY <1>5 DEF Keeps, Has
  <2> QED
    BY <1>9, <1>17, <2>1
<1>15. CASE scene.client = "evm"
  <2>1. old = << >> \/ Overlaps(w, limit)
    BY <1>2, <1>15 DEF Underway
  <2>2. Distinct(got) \/ Overlaps(w, limit)
    BY <1>7, <1>9, <2>1
  <2> QED
    BY <1>1, <1>2, <1>9, <1>13, <1>14, <1>15, <1>17, <2>2 DEF Advances
<1>16. CASE scene.client # "evm"
  <2>1. Distinct(old) /\ \A k \in DOMAIN old : old[k] >= f.cursor
    BY <1>2, <1>16 DEF Underway
  <2>2. \A i \in S : i \in Nat /\ i < f.cursor
    BY <1>2, <1>3, <1>16 DEF Paged
  <2>3. f.cursor \in Nat
    BY PartFields
  <2>4. ASSUME NEW i, Has(old, i), Has(kept, i) PROVE FALSE
    <3>1. PICK k \in DOMAIN old : old[k] = i
      BY <2>4 DEF Has
    <3>2. i >= f.cursor /\ i \in Nat /\ i < f.cursor
      BY <1>11, <2>1, <2>2, <2>4, <3>1
    <3> QED
      BY <2>3, <3>2
  <2>5. Distinct(got)
    BY <1>7, <1>9, <2>1, <2>4
  <2> QED
    BY <1>1, <1>2, <1>9, <1>13, <1>14, <1>16, <1>17, <2>5 DEF Advances
<1> QED
  BY <1>15, <1>16

\* A product grows with each of its factors.
LEMMA Products ==
  ASSUME NEW a \in Nat, NEW b \in Nat, NEW c \in Nat, NEW d \in Nat, a <= b, c <= d
  PROVE  a * c <= b * d
<1>1. PICK e \in Nat, h \in Nat : b = a + e /\ d = c + h
  <2>1. b - a \in Nat /\ d - c \in Nat /\ b = a + (b - a) /\ d = c + (d - c)
    OBVIOUS
  <2> QED
    BY <2>1
<1>2. b * d = a * c + a * h + e * c + e * h
  BY <1>1
<1>3. a * c \in Nat /\ a * h \in Nat /\ e * c \in Nat /\ e * h \in Nat
  OBVIOUS
<1> QED
  BY <1>2, <1>3

\* The next page begins where this one ended, or sooner.
LEMMA PageGoesOn ==
  ASSUME Explored, NEW w, NEW limit \in Limits, NEW f, Underway(f, w, limit),
         NEW more, NEW got, got = f.got \o AcceptedOf(w, Page(f)), GoesOn(f, Page(f), more),
         NEW g, g = [f EXCEPT !.at = "ask", !.pages = @ + 1, !.attempt = 1, !.got = got,
                              !.cursor = IF Page(f) = << >> THEN @ ELSE Last(Page(f))]
  PROVE  Underway(g, w, limit)
<1>1. PICK page, S, old, skip, m : /\ page = Page(f) /\ S = Paged(f) /\ old = f.got /\ skip = Skip(f)
                                   /\ m = Offset(f)
  OBVIOUS
<1>2. PageOf(page, S, skip, m) /\ S \in SUBSET Listed(w) /\ S \in SUBSET Nat /\ skip \in Nat
  BY <1>1, PageIs, ListedFinite
<1>3. page \in Seq(S)
  BY <1>2 DEF PageOf
<1>4. /\ f.wallet = w /\ f.limit = limit /\ limit \in Nat /\ f.pages \in Nat
      /\ old \in Seq(Nat) /\ f.cursor \in Nat /\ f.asof \in 0 .. known
      /\ Len(old) \in Nat /\ m \in Nat \ {0} /\ m = Least(PageCap, limit - Len(old))
  BY <1>1, PartFields
<1>5. /\ got \in Seq(Nat)
      /\ \A k \in DOMAIN got : got[k] \in 1 .. known /\ Accepted(w, got[k])
      /\ \A i : Has(old, i) => Has(got, i)
      /\ \A i : Has(page, i) /\ Accepted(w, i) => Has(got, i)
      /\ \A i : Has(got, i) => Has(old, i) \/ Has(page, i)
      /\ Distinct(got) \/ Overlaps(w, limit)
      /\ scene.client # "evm" => Distinct(got)
  <2>1. Advances(got, f, w, limit)
    BY PageAdvances
  <2> QED
    BY <1>1, <2>1 DEF Advances
<1>6. Len(got) < limit /\ (IF scene.client = "evm" THEN Len(page) = m ELSE page # << >>)
  BY <1>1, <1>4 DEF GoesOn
<1>7. PICK cursor : cursor = IF page = << >> THEN f.cursor ELSE Last(page)
  OBVIOUS
<1>8. page # << >> => Len(page) \in Nat \ {0} /\ cursor = page[Len(page)] /\ cursor \in S /\ cursor \in Nat
  BY <1>2, <1>3, <1>7 DEF Last
<1>9. cursor \in Nat
  BY <1>4, <1>7, <1>8
<1>10. /\ g.at = "ask" /\ g.wallet = w /\ g.limit = limit /\ g.pages = f.pages + 1 /\ g.got = got
       /\ g.cursor = cursor /\ g.asof = f.asof /\ g \in Part(w, limit)
  <2>1. f \in Part(w, limit)
    BY DEF Underway
  <2>2. g = [f EXCEPT !.at = "ask", !.pages = f.pages + 1, !.attempt = 1, !.got = got, !.cursor = cursor]
    BY <1>1, <1>7, <2>1 DEF Part
  <2>3. g \in [at : {"ask", "pacing", "sent", "backoff"}, wallet : {w}, limit : {limit}, pages : Nat, attempt : Nat,
               got : Seq(Nat), cursor : Nat, asof : 0 .. known]
    <3>1. f.pages + 1 \in Nat /\ got \in Seq(Nat) /\ cursor \in Nat
      BY <1>4, <1>5, <1>9
    <3>2. PICK ats, wallets, limits, asofs :
            ats = {"ask", "pacing", "sent", "backoff"} /\ wallets = {w} /\ limits = {limit} /\ asofs = 0 .. known
      OBVIOUS
    <3>3. f \in [at : ats, wallet : wallets, limit : limits, pages : Nat, attempt : Nat,
                 got : Seq(Nat), cursor : Nat, asof : asofs]
      BY <2>1, <3>2 DEF Part
    <3>4. "ask" \in ats /\ 1 \in Nat
      BY <3>2
    <3>5. g \in [at : ats, wallet : wallets, limit : limits, pages : Nat, attempt : Nat,
                 got : Seq(Nat), cursor : Nat, asof : asofs]
      BY <2>2, <3>1, <3>3, <3>4
    <3> QED
      BY <3>2, <3>5
  <2>4. /\ g.at = "ask" /\ g.wallet = w /\ g.limit = limit /\ g.pages = f.pages + 1 /\ g.got = got
        /\ g.cursor = cursor /\ g.asof = f.asof
    BY <1>4, <2>1, <2>2 DEF Part
  <2> QED
    BY <2>3, <2>4 DEF Part
<1>11. CASE scene.client = "evm"
  <2>1. Len(page) = m
    BY <1>6, <1>11
  <2>2. S = Listed(w)
    BY <1>1, <1>4, <1>11 DEF Paged
  <2>3. Overlaps(w, limit)
    <3>1. CASE Overlaps(w, limit)
      BY <3>1
    <3>2. CASE f.pages = 0 /\ old = << >>
      <4>1. m = Least(PageCap, limit)
        BY <1>4, <3>2
      <4>2. Cardinality(S) >= skip + m /\ Cardinality(S) \in Nat
        <5>1. Cardinality(S) \in Nat
          BY <2>2, ListedFinite, FS_CardinalityType
        <5> QED
          BY <1>2, <2>1, <5>1 DEF PageOf
      <4> QED
        BY <1>2, <1>4, <1>11, <2>2, <4>1, <4>2 DEF Overlaps
    <3> QED
      BY <1>1, <1>11, <3>1, <3>2 DEF Underway
  <2>4. skip = f.pages * m
    BY <1>1, <1>11 DEF Skip
  <2>5. ASSUME NEW i \in 1 .. f.asof, Accepted(w, i), ~Has(got, i)
        PROVE  Cardinality(Above(S, i)) >= (f.pages + 1) * m
    <3>1. ~Has(old, i) /\ ~Has(page, i)
      BY <1>5, <2>5
    <3>2. Cardinality(Above(S, i)) >= skip
      BY <1>1, <1>11, <2>2, <2>4, <2>5, <3>1 DEF Underway
    <3>3. i \in S
      <4>1. i \in 1 .. known
        BY <1>4, Ledger
      <4> QED
        BY <2>2, <2>5, <4>1 DEF Listed, Accepted
    <3>4. Cardinality(Above(S, i)) >= skip + m
      BY <1>2, <3>1, <3>2, <3>3 DEF PageOf
    <3>5. (f.pages + 1) * m = f.pages * m + m
      BY <1>4
    <3> QED
      BY <2>4, <3>4, <3>5
  <2>6. Offset(g) \in Nat /\ Offset(g) <= m
    <3>1. Len(got) \in Nat /\ Len(old) <= Len(got)
      <4>1. PICK kept : kept = AcceptedOf(w, page)
        OBVIOUS
      <4>2. kept \in Seq(Nat)
        <5>1. page \in Seq(Nat)
          BY <1>2, <1>3, SeqMonotonic
        <5> QED
          BY <4>1, <5>1, AcceptedKeeps DEF Keeps
      <4>3. got = old \o kept
        BY <1>1, <4>1
      <4> QED
        BY <1>4, <4>2, <4>3
    <3>2. Offset(g) = Least(PageCap, limit - Len(got)) /\ PageCap \in Nat
      BY <1>10, PagesAssumption DEF Offset
    <3> QED
      BY <1>4, <1>6, <3>1, <3>2 DEF Least
  <2>7. (f.pages + 1) * Offset(g) <= (f.pages + 1) * m
    <3>1. PICK a, b : a = f.pages + 1 /\ b = Offset(g)
      OBVIOUS
    <3>2. a \in Nat /\ b \in Nat /\ b <= m /\ a <= a
      BY <1>4, <2>6, <3>1
    <3>3. a * b <= a * m
      BY <1>4, <3>2, Products
    <3> QED
      BY <3>1, <3>3
  <2>8. ASSUME NEW i \in 1 .. f.asof, Accepted(w, i), ~Has(got, i)
        PROVE  Cardinality(Above(Listed(w), i)) >= g.pages * Offset(g)
    <3>1. Cardinality(Above(S, i)) \in Int
      <4>1. i \in S
        <5>1. i \in 1 .. known
          BY <1>4, Ledger
        <5> QED
          BY <2>2, <2>8, <5>1 DEF Listed, Accepted
      <4> QED
        BY <1>2, <4>1 DEF PageOf
    <3>2. PICK x, y, z : x = Cardinality(Above(S, i)) /\ y = (f.pages + 1) * m /\ z = (f.pages + 1) * Offset(g)
      OBVIOUS
    <3>3. y \in Int /\ z \in Int
      BY <1>4, <2>6, <3>2
    <3>4. x >= y /\ z <= y
      BY <2>5, <2>7, <2>8, <3>2
    <3>5. x >= z
      BY <3>1, <3>2, <3>3, <3>4
    <3> QED
      BY <1>10, <2>2, <3>2, <3>5
  <2> QED
    BY <1>5, <1>6, <1>10, <1>11, <2>3, <2>8 DEF Underway, Gathered
<1>12. CASE scene.client # "evm"
  <2>1. S = {i \in Listed(w) : i < f.cursor} /\ skip = 0 /\ page # << >>
    BY <1>1, <1>4, <1>6, <1>12 DEF Paged, Skip
  <2>2. cursor \in S /\ cursor = page[Len(page)] /\ cursor < f.cursor
    BY <1>8, <2>1
  <2>3. Distinct(old) /\ (\A k \in DOMAIN old : old[k] >= f.cursor)
        /\ \A i \in 1 .. f.asof : Accepted(w, i) /\ i >= f.cursor => Has(old, i)
    BY <1>1, <1>12 DEF Underway
  <2>4. ASSUME NEW i \in 1 .. f.asof, Accepted(w, i), i >= cursor PROVE Has(got, i)
    <3>1. CASE i >= f.cursor
      BY <1>5, <2>3, <2>4, <3>1
    <3>2. CASE ~ (i >= f.cursor)
      <4>1. i \in 1 .. known /\ i \in Nat
        BY <1>4, Ledger
      <4>2. i \in S
        BY <1>4, <2>1, <2>4, <3>2, <4>1 DEF Listed, Accepted
      <4>3. Has(page, i)
        <5>1. Cardinality(Above(S, i)) \in Nat
          BY <1>2, <4>2 DEF PageOf
        <5>2. Cardinality(Above(S, i)) >= skip
          BY <2>1, <5>1
        <5>3. ~Has(page, i) => i < page[Len(page)]
          BY <1>2, <4>2, <5>2 DEF PageOf
        <5> QED
          BY <1>9, <2>2, <2>4, <4>1, <5>3
      <4> QED
        BY <1>5, <2>4, <4>3
    <3> QED
      BY <3>1, <3>2
  <2>5. ASSUME NEW k \in DOMAIN got PROVE got[k] >= cursor
    <3>1. Has(old, got[k]) \/ Has(page, got[k])
      BY <1>5 DEF Has
    <3>2. CASE Has(old, got[k])
      <4>1. got[k] >= f.cursor /\ got[k] \in Nat
        BY <1>5, <2>3, <3>2 DEF Has
      <4>2. PICK a, b, c : a = got[k] /\ b = f.cursor /\ c = cursor
        OBVIOUS
      <4>3. a \in Nat /\ b \in Nat /\ c \in Nat /\ a >= b /\ c < b
        BY <1>4, <1>9, <2>2, <4>1, <4>2
      <4>4. a >= c
        BY <4>3
      <4> QED
        BY <4>2, <4>4
    <3>3. CASE Has(page, got[k])
      BY <1>2, <2>2, <3>3 DEF Has, PageOf
    <3> QED
      BY <3>1, <3>2, <3>3
  <2> QED
    BY <1>5, <1>6, <1>10, <1>12, <2>4, <2>5 DEF Underway, Gathered
<1> QED
  BY <1>11, <1>12

\* A collection that ends, and claims to be complete, has nothing left ahead of it.
LEMMA PageEnds ==
  ASSUME Explored, NEW w, NEW limit \in Limits, NEW f, Underway(f, w, limit),
         NEW got, got = f.got \o AcceptedOf(w, Page(f)),
         NEW more \in Cursors(f, Page(f)),
         Coverage(f, Page(f), more, Len(got)) = "COMPLETE",
         NEW i \in 1 .. f.asof, Accepted(w, i)
  PROVE  Has(got, i)
<1>1. PICK page, S, old, skip, m : /\ page = Page(f) /\ S = Paged(f) /\ old = f.got /\ skip = Skip(f)
                                   /\ m = Offset(f)
  OBVIOUS
<1>2. PageOf(page, S, skip, m) /\ S \in SUBSET Listed(w) /\ S \in SUBSET Nat /\ skip \in Nat
  BY <1>1, PageIs, ListedFinite
<1>3. /\ f.wallet = w /\ f.limit = limit /\ limit \in Nat /\ f.cursor \in Nat
      /\ f.asof \in 0 .. known /\ m \in Nat \ {0}
  BY <1>1, PartFields
<1>4. Advances(got, f, w, limit)
  BY PageAdvances
<1>5. (\A j : Has(old, j) => Has(got, j)) /\ (\A j : Has(page, j) /\ Accepted(w, j) => Has(got, j))
  BY <1>1, <1>4 DEF Advances
<1>6. i \in 1 .. known /\ i \in Nat /\ i \in Listed(w)
  <2>1. i \in 1 .. known /\ i \in Nat
    BY <1>3, Ledger
  <2> QED
    BY <2>1 DEF Listed, Accepted
<1>7. Len(page) \in Nat /\ Len(page) <= m
  BY <1>2 DEF PageOf
<1>8. CASE scene.client = "evm"
  <2>1. Len(page) # m
    BY <1>1, <1>8 DEF Coverage
  <2>2. S = Listed(w) /\ skip = f.pages * m
    BY <1>1, <1>3, <1>8 DEF Paged, Skip
  <2>3. ~Has(old, i) => Cardinality(Above(S, i)) >= skip
    BY <1>1, <1>8, <2>2 DEF Underway
  <2>4. Cardinality(Above(S, i)) >= skip => Has(page, i)
    BY <1>2, <1>6, <2>1, <2>2 DEF PageOf
  <2> QED
    BY <1>5, <2>3, <2>4
<1>9. CASE scene.client # "evm"
  <2>1. ~more
    BY <1>9 DEF Coverage, Cursors
  <2>2. Cardinality(S) <= Len(page)
    BY <1>1, <1>9, <2>1 DEF Cursors
  <2>3. S = {j \in Listed(w) : j < f.cursor} /\ skip = 0
    BY <1>1, <1>3, <1>9 DEF Paged, Skip
  <2>4. CASE i >= f.cursor
    BY <1>1, <1>5, <1>9, <2>4 DEF Underway
  <2>5. CASE ~ (i >= f.cursor)
    <3>1. i \in S
      BY <1>3, <1>6, <2>3, <2>5
    <3>2. Cardinality(Above(S, i)) \in Nat /\ Cardinality(Above(S, i)) < Cardinality(S)
      BY <1>2, <3>1 DEF PageOf
    <3>3. ~Has(page, i) => Len(page) = m /\ Cardinality(Above(S, i)) >= m
      BY <1>2, <1>3, <2>3, <3>1, <3>2 DEF PageOf
    <3>4. Cardinality(S) \in Nat
      <4>1. IsFiniteSet(S)
        BY <1>2, ListedFinite, FS_Subset
      <4> QED
        BY <4>1, FS_CardinalityType
    <3>5. Has(page, i)
      BY <1>3, <1>7, <2>2, <3>2, <3>3, <3>4
    <3> QED
      BY <1>5, <3>5
  <2> QED
    BY <2>4, <2>5
<1> QED
  BY <1>8, <1>9

-----------------------------------------------------------------------------
(* The steps of a collection *)

Entered(w, limit, entry) ==
  cache' = [k \in DOMAIN cache \cup {<<w, limit>>} |-> IF k = <<w, limit>> THEN entry ELSE cache[k]]

\* What a step of the client does to the collection of a caller, and to the cache.
Moves(c, w, limit) ==
  /\ scene' = scene /\ known' = known
  /\ \E g : fetch' = [fetch EXCEPT ![c] = g] /\ Collecting(g, w, limit)
  /\ UNCHANGED cache \/ \E entry : Entered(w, limit, entry) /\ Entry(entry) /\ Holds(w, limit, entry)

\* Where a collection is does not matter to what it has.
LEMMA Elsewhere ==
  ASSUME NEW w, NEW limit \in Limits, NEW f, Underway(f, w, limit),
         NEW g, NEW at \in {"ask", "pacing", "sent", "backoff"}, NEW attempt \in Nat,
         g = [f EXCEPT !.at = at, !.attempt = attempt]
  PROVE  Underway(g, w, limit)
<1>1. PICK ats, wallets, limits, asofs :
        ats = {"ask", "pacing", "sent", "backoff"} /\ wallets = {w} /\ limits = {limit} /\ asofs = 0 .. known
  OBVIOUS
<1>2. f \in [at : ats, wallet : wallets, limit : limits, pages : Nat, attempt : Nat,
             got : Seq(Nat), cursor : Nat, asof : asofs]
  BY <1>1 DEF Underway, Part
<1>3. /\ g \in [at : ats, wallet : wallets, limit : limits, pages : Nat, attempt : Nat,
                got : Seq(Nat), cursor : Nat, asof : asofs]
      /\ g.got = f.got /\ g.pages = f.pages /\ g.limit = f.limit /\ g.cursor = f.cursor /\ g.asof = f.asof
  BY <1>1, <1>2
<1>4. g \in Part(w, limit) /\ Offset(g) = Offset(f)
  BY <1>1, <1>3 DEF Part, Offset
<1> QED
  BY <1>3, <1>4 DEF Underway

\* A collection that waits or runs is under way.
LEMMA Running ==
  ASSUME NEW w, NEW limit, NEW f, Collecting(f, w, limit), f.at \in {"ask", "pacing", "sent", "backoff"}
  PROVE  Underway(f, w, limit)
BY DEF Collecting

LEMMA MovesTakeLock ==
  ASSUME Explored, NEW w, NEW limit \in Limits, NEW c, Collecting(fetch[c], w, limit), TakeLock(c)
  PROVE  Moves(c, w, limit)
<1>1. PICK f, g : f = fetch[c] /\ g = [f EXCEPT !.at = "pacing", !.attempt = f.attempt]
  OBVIOUS
<1>2. Underway(f, w, limit)
  BY <1>1, Running DEF TakeLock
<1>3. f.attempt \in Nat /\ f \in Part(w, limit)
  BY <1>2, PartFields DEF Underway
<1>4. Underway(g, w, limit)
  BY <1>1, <1>2, <1>3, Elsewhere
<1>5. g = [f EXCEPT !.at = "pacing"]
  BY <1>1, <1>3 DEF Part
<1>6. fetch' = [fetch EXCEPT ![c] = g]
  BY <1>1, <1>5 DEF TakeLock
<1> QED
  BY <1>4, <1>6 DEF TakeLock, Moves, Collecting

LEMMA MovesSend ==
  ASSUME Explored, NEW w, NEW limit \in Limits, NEW c, Collecting(fetch[c], w, limit), Send(c)
  PROVE  Moves(c, w, limit)
<1>1. PICK f, g : f = fetch[c] /\ g = [f EXCEPT !.at = "sent", !.attempt = f.attempt]
  OBVIOUS
<1>2. Underway(f, w, limit)
  BY <1>1, Running DEF Send
<1>3. f.attempt \in Nat /\ f \in Part(w, limit)
  BY <1>2, PartFields DEF Underway
<1>4. Underway(g, w, limit)
  BY <1>1, <1>2, <1>3, Elsewhere
<1>5. g = [f EXCEPT !.at = "sent"]
  BY <1>1, <1>3 DEF Part
<1>6. fetch' = [fetch EXCEPT ![c] = g]
  BY <1>1, <1>5 DEF Send
<1> QED
  BY <1>4, <1>6 DEF Send, Moves, Collecting

LEMMA MovesBackoffEnds ==
  ASSUME Explored, NEW w, NEW limit \in Limits, NEW c, Collecting(fetch[c], w, limit), BackoffEnds(c)
  PROVE  Moves(c, w, limit)
<1>1. PICK f, g : f = fetch[c] /\ g = [f EXCEPT !.at = "ask", !.attempt = f.attempt + 1]
  OBVIOUS
<1>2. Underway(f, w, limit)
  BY <1>1, Running DEF BackoffEnds
<1>3. f.attempt + 1 \in Nat /\ f \in Part(w, limit)
  BY <1>2, PartFields DEF Underway
<1>4. Underway(g, w, limit)
  BY <1>1, <1>2, <1>3, Elsewhere
<1>5. fetch' = [fetch EXCEPT ![c] = g]
  <2>1. fetch' = [fetch EXCEPT ![c].at = "ask", ![c].attempt = f.attempt + 1]
    BY <1>1 DEF BackoffEnds
  <2> QED
    BY <1>1, <2>1
<1> QED
  BY <1>4, <1>5 DEF BackoffEnds, Moves, Collecting

LEMMA MovesAnswerRefused ==
  ASSUME Explored, NEW w, NEW limit \in Limits, NEW c, Collecting(fetch[c], w, limit), AnswerRefused(c)
  PROVE  Moves(c, w, limit)
<1>1. PICK f, g : f = fetch[c] /\ g = Refused(f)
  OBVIOUS
<1>2. Underway(f, w, limit)
  BY <1>1, Running DEF AnswerRefused
<1>3. f.attempt \in Nat /\ f \in Part(w, limit)
  BY <1>2, PartFields DEF Underway
<1>4. Collecting(g, w, limit)
  <2>1. CASE f.attempt < MaxAttempts
    <3>1. g = [f EXCEPT !.at = "backoff"]
      BY <1>1, <2>1 DEF Refused
    <3>2. g = [f EXCEPT !.at = "backoff", !.attempt = f.attempt]
      BY <1>3, <3>1 DEF Part
    <3> QED
      BY <1>2, <1>3, <3>2, Elsewhere DEF Collecting
  <2>2. CASE ~ (f.attempt < MaxAttempts)
    BY <1>1, <2>2 DEF Refused, Collecting
  <2> QED
    BY <2>1, <2>2
<1>5. fetch' = [fetch EXCEPT ![c] = g]
  BY <1>1 DEF AnswerRefused
<1> QED
  BY <1>4, <1>5 DEF AnswerRefused, Moves

LEMMA MovesAnswerInvalid ==
  ASSUME NEW w, NEW limit \in Limits, NEW c, AnswerInvalid(c)
  PROVE  Moves(c, w, limit)
BY DEF AnswerInvalid, Moves, Collecting

LEMMA MovesAnswerPage ==
  ASSUME Explored, NEW w, NEW limit \in Limits, NEW c, Collecting(fetch[c], w, limit), AnswerPage(c)
  PROVE  Moves(c, w, limit)
<1>1. PICK f, page : f = fetch[c] /\ page = Page(f)
  OBVIOUS
<1>2. PICK more \in Cursors(f, page) : Receive(c, page, more)
  BY <1>1 DEF AnswerPage
<1>3. Underway(f, w, limit)
  BY <1>1, Running DEF AnswerPage
<1>4. f.wallet = w /\ f.limit = limit
  BY <1>3, PartFields
<1>5. PICK got : got = f.got \o AcceptedOf(w, page)
  OBVIOUS
<1>6. scene' = scene /\ known' = known
  BY DEF AnswerPage
<1>7. CASE GoesOn(f, page, more)
  <2>1. PICK g : g = [f EXCEPT !.at = "ask", !.pages = @ + 1, !.attempt = 1, !.got = got,
                              !.cursor = IF page = << >> THEN @ ELSE Last(page)]
    OBVIOUS
  <2>2. Underway(g, w, limit)
    BY <1>1, <1>3, <1>5, <1>7, <2>1, PageGoesOn
  <2>3. fetch' = [fetch EXCEPT ![c] = g] /\ UNCHANGED cache
    BY <1>1, <1>2, <1>4, <1>5, <1>7, <2>1 DEF Receive
  <2> QED
    BY <1>6, <2>2, <2>3 DEF Moves, Collecting
<1>8. CASE ~GoesOn(f, page, more)
  <2>1. PICK coverage, g, entry :
          /\ coverage = Coverage(f, page, more, Len(got))
          /\ g = Result(w, got, coverage, f.asof, f.pages + 1, FALSE)
          /\ entry = [age |-> 0, got |-> got, coverage |-> coverage, asof |-> f.asof, pages |-> f.pages + 1, misread |-> FALSE]
    OBVIOUS
  <2>2. /\ g.at = "done" /\ g.wallet = w /\ g.got = got /\ g.coverage = coverage /\ g.asof = f.asof
        /\ g.pages = f.pages + 1 /\ entry.got = got /\ entry.coverage = coverage /\ entry.asof = f.asof
        /\ Entry(entry)
    BY <2>1 DEF Result, Entry
  <2>3. coverage = "COMPLETE" => \A i \in 1 .. f.asof : Accepted(w, i) => Has(got, i)
    BY <1>1, <1>2, <1>3, <1>5, <2>1, PageEnds
  <2>4. Gathered(w, limit, got)
    <3>1. Advances(got, f, w, limit)
      BY <1>1, <1>3, <1>5, PageAdvances
    <3> QED
      BY <3>1 DEF Advances, Gathered
  <2>5. Holds(w, limit, g) /\ Holds(w, limit, entry)
    BY <2>2, <2>3, <2>4 DEF Holds, Answered
  <2>6. fetch' = [fetch EXCEPT ![c] = g] /\ Entered(w, limit, entry)
    <3>1. Finish(c, got, coverage, FALSE)
      BY <1>1, <1>2, <1>4, <1>5, <1>8, <2>1 DEF Receive
    <3>2. fetch' = [fetch EXCEPT ![c] = Result(w, got, coverage, f.asof, f.pages + 1, FALSE)] /\ Entered(w, limit, entry)
      BY <1>1, <1>4, <2>1, <3>1 DEF Finish, Entered
    <3> QED
      BY <2>1, <3>2
  <2> QED
    BY <1>6, <2>2, <2>5, <2>6 DEF Moves, Collecting
<1> QED
  BY <1>7, <1>8

\* What was got stays, and of an error taken for a page nothing is claimed.
LEMMA MovesAnswerMisread ==
  ASSUME Explored, NEW w, NEW limit \in Limits, NEW c, Collecting(fetch[c], w, limit), AnswerMisread(c)
  PROVE  Moves(c, w, limit)
<1>1. PICK f, coverage : f = fetch[c] /\ coverage = Coverage(f, << >>, FALSE, Len(f.got))
  OBVIOUS
<1>2. Underway(f, w, limit)
  BY <1>1, Running DEF AnswerMisread
<1>3. f.wallet = w /\ f.limit = limit /\ Gathered(w, limit, f.got)
  BY <1>2, PartFields DEF Underway
<1>4. PICK g, entry :
        /\ g = Result(w, f.got, coverage, f.asof, f.pages + 1, TRUE)
        /\ entry = [age |-> 0, got |-> f.got, coverage |-> coverage, asof |-> f.asof, pages |-> f.pages + 1, misread |-> TRUE]
  OBVIOUS
<1>5. /\ g.at = "done" /\ g.wallet = w /\ g.got = f.got /\ g.misread
      /\ entry.got = f.got /\ entry.misread /\ Entry(entry)
  BY <1>4 DEF Result, Entry
<1>6. Holds(w, limit, g) /\ Holds(w, limit, entry)
  BY <1>3, <1>5 DEF Holds, Answered
<1>7. fetch' = [fetch EXCEPT ![c] = g] /\ Entered(w, limit, entry)
  BY <1>1, <1>3, <1>4 DEF AnswerMisread, Finish, Entered
<1> QED
  BY <1>5, <1>6, <1>7 DEF AnswerMisread, Moves, Collecting

LEMMA FetchMoves ==
  ASSUME Explored, NEW w, NEW limit \in Limits, NEW c, Collecting(fetch[c], w, limit), FetchStep(c)
  PROVE  Moves(c, w, limit)
BY MovesTakeLock, MovesSend, MovesBackoffEnds, MovesAnswerRefused, MovesAnswerInvalid, MovesAnswerPage, MovesAnswerMisread
   DEF FetchStep

\* A caller that collects nothing has no step.
LEMMA NoFetchStays == ASSUME NEW c, FetchStep(c) PROVE fetch[c] # NoFetch
<1>1. CASE AnswerMisread(c)
  BY <1>1 DEF AnswerMisread, NoFetch
<1>2. CASE TakeLock(c) \/ Send(c) \/ AnswerPage(c) \/ AnswerRefused(c) \/ AnswerInvalid(c) \/ BackoffEnds(c)
  BY <1>2 DEF TakeLock, Send, AnswerPage, AnswerRefused, AnswerInvalid, BackoffEnds, NoFetch
<1> QED
  BY <1>1, <1>2 DEF FetchStep


LEMMA StaysCached ==
  ASSUME Explored, scene' = scene, known' \in known .. Len(scene.ledger), NEW entries, Cached(entries)
  PROVE  Cached(entries)'
<1> SUFFICES ASSUME NEW w \in Address, NEW limit \in Limits, <<w, limit>> \in DOMAIN entries
             PROVE  Entry(entries[<<w, limit>>])' /\ Holds(w, limit, entries[<<w, limit>>])'
  BY DEF Cached
<1>1. PICK r : r = entries[<<w, limit>>]
  OBVIOUS
<1>2. Entry(r) /\ Holds(w, limit, r)
  BY <1>1 DEF Cached
<1>3. Entry(r)' /\ Holds(w, limit, r)'
  BY <1>2, StaysHeld DEF Entry
<1> QED
  BY <1>1, <1>3

LEMMA StaysCollects ==
  ASSUME Explored, scene' = scene, known' \in known .. Len(scene.ledger), NEW g, Collects(g)
  PROVE  Collects(g)'
<1>1. CASE g = NoFetch
  BY <1>1 DEF Collects, NoFetch
<1>2. CASE g # NoFetch
  <2>1. PICK w \in Address : \E limit \in Limits : Collecting(g, w, limit)
    BY <1>2 DEF Collects
  <2>2. PICK limit \in Limits : Collecting(g, w, limit)
    BY <2>1
  <2>3. Collecting(g, w, limit)'
    BY <2>2, StaysCollecting
  <2> QED
    BY <2>3 DEF Collects
<1> QED
  BY <1>1, <1>2

\* The collection of one caller changes, the explorer comes to know more, the cache holds.
LEMMA CollectionsStep ==
  ASSUME Collections, scene' = scene, known' \in known .. Len(scene.ledger),
         NEW c \in Caller, NEW g, fetch' = [fetch EXCEPT ![c] = g], Collects(g),
         NEW entries, cache' = entries, Cached(entries)
  PROVE  Collections'
<1>1. Explored /\ DOMAIN fetch = Caller /\ \A d \in Caller : Collects(fetch[d])
  BY DEF Collections
<1>2. Explored'
  <2>1. known \in Nat /\ Len(scene.ledger) \in Nat
    BY <1>1, Ledger
  <2> QED
    BY <1>1, <2>1 DEF Explored, World
<1>3. DOMAIN fetch' = Caller /\ \A d \in Caller : Collects(fetch'[d])
  BY <1>1
<1>4. ASSUME NEW h, Collects(h) PROVE Collects(h)'
  BY <1>1, <1>4, StaysCollects
<1>5. Cached(entries)'
  BY <1>1, StaysCached
<1> QED
  BY <1>2, <1>3, <1>4, <1>5 DEF Collections

LEMMA KnownStays == ASSUME Explored, known' = known PROVE known' \in known .. Len(scene.ledger)
<1>1. known \in Nat /\ Len(scene.ledger) \in Nat
  BY Ledger
<1> QED
  BY <1>1 DEF Explored

LEMMA CollectionsFetch ==
  ASSUME Collections, NEW c \in Caller, FetchStep(c)
  PROVE  Collections'
<1>1. Explored /\ DOMAIN fetch = Caller /\ Collects(fetch[c]) /\ Cached(cache)
  BY DEF Collections
<1>2. fetch[c] # NoFetch
  BY NoFetchStays
<1>3. PICK w \in Address : \E limit \in Limits : Collecting(fetch[c], w, limit)
  BY <1>1, <1>2 DEF Collects
<1>4. PICK limit \in Limits : Collecting(fetch[c], w, limit)
  BY <1>3
<1>5. Moves(c, w, limit)
  BY <1>1, <1>4, FetchMoves
<1>6. PICK g : fetch' = [fetch EXCEPT ![c] = g] /\ Collecting(g, w, limit)
  BY <1>5 DEF Moves
<1>7. scene' = scene /\ known' \in known .. Len(scene.ledger)
  BY <1>1, <1>5, KnownStays DEF Moves
<1>8. PICK entries : entries = cache'
  OBVIOUS
<1>9. Cached(entries)
  <2>1. CASE UNCHANGED cache
    BY <1>1, <1>8, <2>1
  <2>2. CASE \E entry : Entered(w, limit, entry) /\ Entry(entry) /\ Holds(w, limit, entry)
    <3>1. PICK entry : Entered(w, limit, entry) /\ Entry(entry) /\ Holds(w, limit, entry)
      BY <2>2
    <3>2. ASSUME NEW v \in Address, NEW n \in Limits, <<v, n>> \in DOMAIN entries
          PROVE  Entry(entries[<<v, n>>]) /\ Holds(v, n, entries[<<v, n>>])
      <4>1. CASE <<v, n>> = <<w, limit>>
        <5>1. v = w /\ n = limit /\ entries[<<v, n>>] = entry
          BY <1>8, <3>1, <4>1 DEF Entered
        <5> QED
          BY <3>1, <5>1
      <4>2. CASE <<v, n>> # <<w, limit>>
        <5>1. <<v, n>> \in DOMAIN cache /\ entries[<<v, n>>] = cache[<<v, n>>]
          BY <1>8, <3>1, <3>2, <4>2 DEF Entered
        <5> QED
          BY <1>1, <5>1 DEF Cached
      <4> QED
        BY <4>1, <4>2
    <3> QED
      BY <3>2 DEF Cached
  <2> QED
    BY <1>5, <2>1, <2>2 DEF Moves
<1>10. Collects(g)
  BY <1>6 DEF Collects
<1> QED
  BY <1>6, <1>7, <1>8, <1>9, <1>10, CollectionsStep

\* A collection begins with what the cache holds, or with nothing behind it.
LEMMA RetrieveCollects ==
  ASSUME Explored, Cached(cache), NEW w \in Address, NEW limit \in Limits, NEW c, Retrieve(c, w, limit)
  PROVE  \E g : fetch' = [fetch EXCEPT ![c] = g] /\ Collecting(g, w, limit)
<1>1. PICK key, entry : key = <<w, limit>> /\ entry = cache[key]
  OBVIOUS
<1>2. CASE scene.client = "unavailable"
  BY <1>2 DEF Retrieve, Collecting
<1>3. CASE scene.client # "unavailable" /\ key \in DOMAIN cache /\ entry.age <= CacheLife
  <2>1. PICK g : g = Result(w, entry.got, entry.coverage, entry.asof, entry.pages, entry.misread)
    OBVIOUS
  <2>2. Holds(w, limit, entry)
    BY <1>1, <1>3 DEF Cached
  <2>3. g.at = "done" /\ g.wallet = w /\ g.got = entry.got /\ g.coverage = entry.coverage /\ g.asof = entry.asof
        /\ g.misread = entry.misread
    BY <2>1 DEF Result
  <2>4. Holds(w, limit, g)
    BY <2>2, <2>3 DEF Holds, Answered
  <2>5. fetch' = [fetch EXCEPT ![c] = g]
    BY <1>1, <1>3, <2>1 DEF Retrieve
  <2> QED
    BY <2>3, <2>4, <2>5 DEF Collecting
<1>4. CASE scene.client # "unavailable" /\ ~(key \in DOMAIN cache /\ entry.age <= CacheLife)
  <2>1. PICK g : g = Begin(w, limit)
    OBVIOUS
  <2>2. known \in Nat /\ Len(scene.ledger) \in Nat /\ known <= Len(scene.ledger) /\ limit \in Nat \ {0}
    BY Ledger DEF Explored, Limits
  <2>3. /\ g.at = "ask" /\ g.wallet = w /\ g.limit = limit /\ g.pages = 0 /\ g.got = << >>
        /\ g.cursor = Len(scene.ledger) + 1 /\ g.asof = known
    BY <2>1 DEF Begin
  <2>4. g \in Part(w, limit)
    BY <2>1, <2>2 DEF Begin, Part
  <2>5. g.got \in Seq(Nat) /\ DOMAIN g.got = {} /\ Len(g.got) = 0
    BY <2>3
  <2>6. Gathered(w, limit, g.got) /\ Len(g.got) < limit
    BY <2>2, <2>5 DEF Gathered, Distinct
  <2>7. ASSUME scene.client = "evm" PROVE Underway(g, w, limit)
    <3>1. ASSUME NEW i \in 1 .. g.asof, Accepted(w, i) PROVE Cardinality(Above(Listed(w), i)) >= g.pages * Offset(g)
      <4>1. Cardinality(Above(Listed(w), i)) \in Nat
        <5>1. IsFiniteSet(Listed(w)) /\ Above(Listed(w), i) \in SUBSET Listed(w)
          BY ListedFinite DEF Above
        <5>2. IsFiniteSet(Above(Listed(w), i))
          BY <5>1, FS_Subset
        <5> QED
          BY <5>2, FS_CardinalityType
      <4>2. Offset(g) \in Int
        <5>1. PageCap \in Nat /\ limit \in Nat
          BY <2>2, PagesAssumption
        <5> QED
          BY <2>3, <2>5, <5>1 DEF Offset, Least
      <4> QED
        BY <2>3, <4>1, <4>2
    <3>2. g.pages = 0 /\ g.got = << >>
      BY <2>3
    <3> QED
      BY <2>4, <2>6, <2>7, <3>1, <3>2 DEF Underway
  <2>8. ASSUME scene.client # "evm" PROVE Underway(g, w, limit)
    <3>1. Distinct(g.got) /\ \A k \in DOMAIN g.got : g.got[k] >= g.cursor
      BY <2>5 DEF Distinct
    <3>2. \A i \in 1 .. g.asof : ~(i >= g.cursor)
      BY <2>2, <2>3
    <3> QED
      BY <2>4, <2>6, <2>8, <3>1, <3>2 DEF Underway
  <2>9. fetch' = [fetch EXCEPT ![c] = g]
    BY <1>1, <1>4, <2>1 DEF Retrieve
  <2> QED
    BY <2>7, <2>8, <2>9 DEF Collecting
<1> QED
  BY <1>2, <1>3, <1>4

LEMMA CollectionsRetrieve ==
  ASSUME Collections, NEW w \in Address, NEW limit \in Limits, NEW c \in Caller, Retrieve(c, w, limit)
  PROVE  Collections'
<1>1. Explored /\ Cached(cache)
  BY DEF Collections
<1>2. PICK g : fetch' = [fetch EXCEPT ![c] = g] /\ Collecting(g, w, limit)
  BY <1>1, RetrieveCollects
<1>3. scene' = scene /\ known' \in known .. Len(scene.ledger) /\ cache' = cache
  BY <1>1, KnownStays DEF Retrieve
<1>4. PICK entries : entries = cache
  OBVIOUS
<1>5. Collects(g)
  BY <1>2 DEF Collects
<1> QED
  BY <1>1, <1>2, <1>3, <1>4, <1>5, CollectionsStep

LEMMA CollectionsTaken ==
  ASSUME Collections, NEW c \in Caller, fetch' = [fetch EXCEPT ![c] = NoFetch], UNCHANGED <<scene, known, cache>>
  PROVE  Collections'
<1>1. Explored /\ Cached(cache)
  BY DEF Collections
<1>2. scene' = scene /\ known' \in known .. Len(scene.ledger) /\ cache' = cache
  BY <1>1, KnownStays
<1>3. PICK entries, g : entries = cache /\ g = NoFetch
  OBVIOUS
<1>4. Collects(g)
  BY <1>3 DEF Collects
<1> QED
  BY <1>1, <1>2, <1>3, <1>4, CollectionsStep

LEMMA CollectionsConfirm == ASSUME Collections, Confirm PROVE Collections'
<1>1. Explored /\ Cached(cache) /\ DOMAIN fetch = Caller /\ \A c \in Caller : Collects(fetch[c])
  BY DEF Collections
<1>2. scene' = scene /\ known' \in known .. Len(scene.ledger) /\ cache' = cache /\ fetch' = fetch
  <2>1. known \in Nat /\ Len(scene.ledger) \in Nat
    BY <1>1, Ledger
  <2> QED
    BY <2>1 DEF Confirm
<1>3. Explored'
  BY <1>1, <1>2, Ledger DEF Explored, World
<1>4. ASSUME NEW h, Collects(h) PROVE Collects(h)'
  BY <1>1, <1>2, <1>4, StaysCollects
<1>5. ASSUME NEW entries, Cached(entries) PROVE Cached(entries)'
  BY <1>1, <1>2, <1>5, StaysCached
<1> QED
  BY <1>1, <1>2, <1>3, <1>4, <1>5 DEF Collections

\* An answer that ages stays what it was.
LEMMA CollectionsTick == ASSUME Collections, Tick PROVE Collections'
<1>1. Explored /\ Cached(cache) /\ DOMAIN fetch = Caller /\ \A c \in Caller : Collects(fetch[c])
  BY DEF Collections
<1>2. scene' = scene /\ known' \in known .. Len(scene.ledger) /\ known' = known /\ fetch' = fetch
  BY <1>1, KnownStays DEF Tick
<1>3. Explored'
  BY <1>1, <1>2 DEF Explored, World
<1>4. ASSUME NEW h, Collects(h) PROVE Collects(h)'
  BY <1>1, <1>2, <1>4, StaysCollects
<1>5. PICK entries : entries = cache'
  OBVIOUS
<1>6. ASSUME NEW w \in Address, NEW limit \in Limits, <<w, limit>> \in DOMAIN entries
      PROVE  Entry(entries[<<w, limit>>]) /\ Holds(w, limit, entries[<<w, limit>>])
  <2>1. PICK r, e : r = cache[<<w, limit>>] /\ e = entries[<<w, limit>>]
    OBVIOUS
  <2>2. <<w, limit>> \in DOMAIN cache /\ e = [r EXCEPT !.age = Least(CacheLife + 1, @ + 1)]
    BY <1>5, <1>6, <2>1 DEF Tick
  <2>4. Entry(r) /\ Holds(w, limit, r)
    BY <1>1, <2>1, <2>2 DEF Cached
  <2>3. e.got = r.got /\ e.coverage = r.coverage /\ e.asof = r.asof /\ e.misread = r.misread /\ Entry(e)
    BY <2>2, <2>4 DEF Entry
  <2> QED
    BY <2>1, <2>3, <2>4 DEF Holds, Answered
<1>7. Cached(entries)'
  <2>1. Cached(entries)
    BY <1>6 DEF Cached
  <2> QED
    BY <1>1, <1>2, <2>1, StaysCached
<1> QED
  BY <1>1, <1>2, <1>3, <1>4, <1>5, <1>7 DEF Collections

-----------------------------------------------------------------------------
(* The graph of the transfers *)

Graph == SUBSET (Address \X Address)

Spread(W, E) == W \cup {e[2] : e \in {x \in E : x[1] \in W}}

LEMMA ReachIs ==
  ASSUME NEW E \in Graph, NEW root \in Address, NEW n, n = Cardinality(Address)
  PROVE  \E f : /\ Reach(E, root) = f /\ n \in Nat /\ f \in [0 .. n -> SUBSET Address]
                /\ f[0] = {root} /\ \A k \in 1 .. n : f[k] = Spread(f[k - 1], E)
<1>1. n \in Nat
  BY LegacyAssumption, FS_CardinalityType
<1> DEFINE V == SUBSET Address
           start == {root}
           step == [h \in 1 .. n |-> [W \in SUBSET Address |-> Spread(W, E)]]
<1>2. start \in V /\ Steps(n, V, step)
  <2>1. \A W \in SUBSET Address : Spread(W, E) \in SUBSET Address
    BY DEF Spread, Graph
  <2> QED
    BY <2>1 DEF Steps
<1>3. PICK f : f \in [0 .. n -> V] /\ f[0] = start /\ \A k \in 1 .. n : f[k] = step[k][f[k - 1]]
  <2> HIDE DEF V, start, step
  <2>1. \E f : Unrolled(f, n, V, start, step)
    BY <1>1, <1>2, Recursion
  <2> QED
    BY <2>1 DEF Unrolled
<1>4. ASSUME NEW k \in 1 .. n PROVE f[k] = Spread(f[k - 1], E)
  <2>1. k - 1 \in 0 .. n
    BY <1>1
  <2>2. f[k - 1] \in V
    BY <2>1, <1>3
  <2>3. step[k][f[k - 1]] = Spread(f[k - 1], E)
    BY <2>2
  <2> QED
    BY <2>3, <1>3
<1>5. f = [k \in 0 .. n |-> IF k = 0 THEN {root} ELSE f[k - 1] \cup {e[2] : e \in {x \in E : x[1] \in f[k - 1]}}]
  BY <1>3, <1>4 DEF Spread
<1>6. PICK g : g = Reach(E, root)
  OBVIOUS
<1>7. g = [k \in 0 .. n |-> IF k = 0 THEN {root} ELSE g[k - 1] \cup {e[2] : e \in {x \in E : x[1] \in g[k - 1]}}]
  BY <1>5, <1>6, ZenonT(40) DEF Reach
<1>8. DOMAIN g = 0 .. n /\ g[0] = {root} /\ \A k \in 1 .. n : g[k] = Spread(g[k - 1], E)
  <2>1. DOMAIN g = 0 .. n
    BY <1>7
  <2>2. 0 \in 0 .. n /\ g[0] = {root}
    BY <1>1, <1>7
  <2>3. ASSUME NEW k \in 1 .. n PROVE g[k] = Spread(g[k - 1], E)
    <3>1. k \in 0 .. n /\ k # 0
      BY <1>1
    <3> QED
      BY <1>7, <3>1 DEF Spread
  <2> QED
    BY <2>1, <2>2, <2>3
<1>9. g = f
  <2> DEFINE S == {m \in Nat : m <= n => g[m] = f[m]}
  <2>1. 0 \in S
    BY <1>3, <1>8
  <2>2. ASSUME NEW m \in Nat, m \in S PROVE m + 1 \in S
    <3>1. CASE m + 1 <= n
      <4>1. m + 1 \in 1 .. n /\ m <= n /\ (m + 1) - 1 = m
        BY <1>1, <3>1
      <4>2. g[m] = f[m]
        BY <2>2, <4>1
      <4>3. g[m + 1] = Spread(g[m], E) /\ f[m + 1] = Spread(f[m], E)
        BY <1>4, <1>8, <4>1
      <4> QED
        BY <4>2, <4>3
    <3>2. CASE ~ (m + 1 <= n)
      BY <3>2
    <3> QED
      BY <3>1, <3>2
  <2>3. Nat \subseteq S
    <3> HIDE DEF S
    <3> QED
      BY <2>1, <2>2, NaturalInduction
  <2>4. \A m \in 0 .. n : g[m] = f[m]
    BY <1>1, <2>3
  <2>5. f = [m \in 0 .. n |-> f[m]] /\ g = [m \in 0 .. n |-> g[m]]
    BY <1>3, <1>7, <1>8
  <2> QED
    BY <2>4, <2>5
<1> QED
  BY <1>1, <1>3, <1>4, <1>6, <1>9

\* The wallets within so many transfers.
Spreads(f, n, root, E) ==
  n \in Nat /\ f \in [0 .. n -> SUBSET Address] /\ f[0] = {root} /\ \A k \in 1 .. n : f[k] = Spread(f[k - 1], E)

LEMMA SpreadsGrow ==
  ASSUME NEW f, NEW n, NEW root, NEW E, Spreads(f, n, root, E), NEW h \in 0 .. n, NEW k \in h .. n
  PROVE  f[h] \subseteq f[k]
<1>1. n \in Nat /\ \A m \in 1 .. n : f[m] = Spread(f[m - 1], E)
  BY DEF Spreads
<1> DEFINE S == {m \in Nat : m >= h /\ m <= n => f[h] \subseteq f[m]}
<1>2. 0 \in S
  <2>1. 0 >= h => h = 0
    OBVIOUS
  <2> QED
    BY <2>1
<1>3. ASSUME NEW m \in Nat, m \in S PROVE m + 1 \in S
  <2>1. CASE m + 1 > h /\ m + 1 <= n
    <3>1. m >= h /\ m <= n /\ m + 1 \in 1 .. n /\ (m + 1) - 1 = m
      BY <1>1, <2>1
    <3>2. f[h] \subseteq f[m]
      BY <1>3, <3>1
    <3>3. f[m + 1] = Spread(f[m], E)
      BY <1>1, <3>1
    <3> QED
      BY <3>2, <3>3 DEF Spread
  <2>2. CASE m + 1 = h
    BY <2>2
  <2>3. CASE ~ (m + 1 >= h /\ m + 1 <= n)
    BY <2>3
  <2>4. h \in Nat
    BY <1>1
  <2> QED
    BY <1>1, <2>1, <2>2, <2>3, <2>4
<1>4. Nat \subseteq S
  <2> HIDE DEF S
  <2> QED
    BY <1>2, <1>3, NaturalInduction
<1> QED
  BY <1>1, <1>4

\* The distance of a wallet is the least number of transfers it is within.
Measures(f, n, root, E) ==
  \A a : /\ Distance(E, root, a) \in 0 .. n + 1
         /\ \A h \in 0 .. n : Distance(E, root, a) <= h <=> a \in f[h]

LEMMA DistanceIs ==
  ASSUME NEW E \in Graph, NEW root \in Address, NEW n, n = Cardinality(Address)
  PROVE  \E f : Spreads(f, n, root, E) /\ Measures(f, n, root, E)
<1>1. PICK f : Reach(E, root) = f /\ Spreads(f, n, root, E)
  BY ReachIs DEF Spreads
<1>2. n \in Nat /\ DOMAIN f = 0 .. n
  BY <1>1 DEF Spreads
<1>3. ASSUME NEW a
      PROVE  /\ Distance(E, root, a) \in 0 .. n + 1
             /\ \A h \in 0 .. n : Distance(E, root, a) <= h <=> a \in f[h]
  <2> DEFINE hops == {h \in 0 .. n : a \in f[h]}
             d == Distance(E, root, a)
  <2>1. d = IF hops = {} THEN n + 1 ELSE CHOOSE h \in hops : \A g \in hops : h <= g
    BY <1>1, <1>2 DEF Distance
  <2> HIDE DEF d
  <2>2. CASE hops = {}
    <3>1. d = n + 1
      BY <2>1, <2>2
    <3>2. \A h \in 0 .. n : a \notin f[h]
      BY <2>2
    <3>3. \A h \in 0 .. n : ~ (d <= h)
      BY <1>2, <3>1
    <3> QED
      BY <1>2, <3>1, <3>2, <3>3 DEF d
  <2>3. CASE hops # {}
    <3>1. \E h \in hops : \A g \in hops : h <= g
      <4>1. hops \subseteq Nat
        OBVIOUS
      <4> HIDE DEF hops
      <4> QED
        BY <2>3, <4>1, LeastNatural
    <3>2. d \in hops /\ \A g \in hops : d <= g
      BY <2>1, <2>3, <3>1
    <3>3. ASSUME NEW h \in 0 .. n, d <= h PROVE a \in f[h]
      <4>1. d \in 0 .. n /\ h \in d .. n /\ a \in f[d]
        BY <1>2, <3>2, <3>3
      <4>2. f[d] \subseteq f[h]
        BY <1>1, <4>1, SpreadsGrow
      <4> QED
        BY <4>1, <4>2
    <3>4. ASSUME NEW h \in 0 .. n, a \in f[h] PROVE d <= h
      BY <3>2, <3>4
    <3>5. d \in 0 .. n + 1
      BY <1>2, <3>2
    <3> QED
      BY <3>3, <3>4, <3>5 DEF d
  <2> QED
    BY <2>2, <2>3 DEF d
<1> QED
  BY <1>1, <1>3 DEF Measures

Shut(W, E) == \A e \in E : e[1] \in W => e[2] \in W

\* There are no more wallets than steps: in the end no transfer leads out.
LEMMA SpreadsShut ==
  ASSUME NEW E \in Graph, NEW root \in Address, NEW n, n = Cardinality(Address), NEW f, Spreads(f, n, root, E)
  PROVE  Shut(f[n], E)
<1>1. /\ n \in Nat /\ f \in [0 .. n -> SUBSET Address] /\ f[0] = {root}
      /\ \A m \in 1 .. n : f[m] = Spread(f[m - 1], E)
  BY DEF Spreads
<1>2. \A m \in 0 .. n : IsFiniteSet(f[m]) /\ Cardinality(f[m]) \in Nat /\ Cardinality(f[m]) <= n
  <2>1. ASSUME NEW m \in 0 .. n
        PROVE  IsFiniteSet(f[m]) /\ Cardinality(f[m]) \in Nat /\ Cardinality(f[m]) <= n
    <3>1. f[m] \in SUBSET Address
      BY <1>1
    <3> QED
      BY <3>1, LegacyAssumption, FS_Subset, FS_CardinalityType
  <2> QED
    BY <2>1
<1> DEFINE S == {m \in Nat : m <= n => Shut(f[m], E) \/ Cardinality(f[m]) >= m + 1}
<1>3. 0 \in S
  <2>1. Cardinality(f[0]) = 1
    BY <1>1, FS_Singleton
  <2> QED
    BY <2>1
<1>4. ASSUME NEW m \in Nat, m \in S PROVE m + 1 \in S
  <2>1. ASSUME m + 1 <= n PROVE Shut(f[m + 1], E) \/ Cardinality(f[m + 1]) >= (m + 1) + 1
    <3>1. m \in 0 .. n /\ m + 1 \in 1 .. n /\ m + 1 \in 0 .. n /\ (m + 1) - 1 = m /\ m <= n
      BY <1>1, <2>1
    <3>2. PICK V, W : V = f[m] /\ W = f[m + 1]
      OBVIOUS
    <3>3. W = Spread(V, E) /\ V \subseteq Address
      BY <1>1, <3>1, <3>2
    <3>4. CASE Shut(V, E)
      <4>1. W = V
        BY <3>3, <3>4 DEF Spread, Shut
      <4> QED
        BY <3>2, <3>4, <4>1
    <3>5. CASE ~Shut(V, E)
      <4>1. PICK e \in E : e[1] \in V /\ e[2] \notin V
        BY <3>5 DEF Shut
      <4>2. e[2] \in W /\ V \in SUBSET W
        BY <3>3, <4>1 DEF Spread
      <4>3. IsFiniteSet(W) /\ Cardinality(W) \in Nat /\ Cardinality(V) \in Nat
        BY <1>2, <3>1, <3>2
      <4>4. Cardinality(V) <= Cardinality(W) /\ Cardinality(V) # Cardinality(W)
        BY <4>1, <4>2, <4>3, FS_Subset
      <4>5. Cardinality(V) >= m + 1
        BY <1>4, <3>1, <3>2, <3>5
      <4> QED
        BY <3>2, <4>3, <4>4, <4>5
    <3> QED
      BY <3>4, <3>5
  <2> QED
    BY <2>1
<1>5. Nat \subseteq S
  <2> HIDE DEF S
  <2> QED
    BY <1>3, <1>4, NaturalInduction
<1>6. n \in S /\ n \in 0 .. n
  BY <1>1, <1>5
<1> QED
  BY <1>1, <1>2, <1>6

LEMMA DistanceRange ==
  ASSUME NEW E \in Graph, NEW root \in Address
  PROVE  /\ Cardinality(Address) \in Nat /\ Distance(E, root, root) = 0
         /\ \A a : Distance(E, root, a) \in Nat /\ (Distance(E, root, a) = 0 => a = root)
<1>1. PICK n : n = Cardinality(Address)
  OBVIOUS
<1>2. PICK f : Spreads(f, n, root, E) /\ Measures(f, n, root, E)
  BY <1>1, DistanceIs
<1>3. n \in Nat /\ f[0] = {root} /\ 0 \in 0 .. n
  BY <1>2 DEF Spreads
<1>4. ASSUME NEW a PROVE Distance(E, root, a) \in 0 .. n + 1
  BY <1>2 DEF Measures
<1>5. \A a : Distance(E, root, a) <= 0 <=> a = root
  BY <1>2, <1>3 DEF Measures
<1> QED
  BY <1>1, <1>3, <1>4, <1>5

\* Along a transfer the distance grows by one at most, and what is reached leads on to
\* what is reached.
LEMMA DistanceEdge ==
  ASSUME NEW E \in Graph, NEW root \in Address, NEW x, NEW y, <<y, x>> \in E
  PROVE  /\ Distance(E, root, x) <= Distance(E, root, y) + 1
         /\ Distance(E, root, y) <= Cardinality(Address) => Distance(E, root, x) <= Cardinality(Address)
<1>1. PICK n : n = Cardinality(Address)
  OBVIOUS
<1>2. PICK f : Spreads(f, n, root, E) /\ Measures(f, n, root, E)
  BY <1>1, DistanceIs
<1>3. n \in Nat /\ \A m \in 1 .. n : f[m] = Spread(f[m - 1], E)
  BY <1>2 DEF Spreads
<1>4. PICK d, e : d = Distance(E, root, y) /\ e = Distance(E, root, x)
  OBVIOUS
<1>5. d \in 0 .. n + 1 /\ e \in 0 .. n + 1
  BY <1>2, <1>4 DEF Measures
<1>6. (\A h \in 0 .. n : d <= h <=> y \in f[h]) /\ (\A h \in 0 .. n : e <= h <=> x \in f[h])
  BY <1>2, <1>4 DEF Measures
<1>7. d <= n => e <= n
  <2>1. Shut(f[n], E)
    BY <1>1, <1>2, SpreadsShut
  <2>2. n \in 0 .. n
    BY <1>3
  <2>3. y \in f[n] => x \in f[n]
    BY <2>1 DEF Shut
  <2> QED
    BY <1>6, <2>2, <2>3
<1>8. d < n => e <= d + 1
  <2>1. ASSUME d < n PROVE d \in 0 .. n /\ d + 1 \in 1 .. n /\ d + 1 \in 0 .. n /\ (d + 1) - 1 = d /\ d <= d
    BY <1>3, <1>5, <2>1
  <2>2. ASSUME d < n PROVE x \in f[d + 1]
    <3>1. y \in f[d] /\ f[d + 1] = Spread(f[d], E)
      BY <1>3, <1>6, <2>1, <2>2
    <3> QED
      BY <3>1 DEF Spread
  <2> QED
    BY <1>6, <2>1, <2>2
<1>9. e <= d + 1
  BY <1>3, <1>5, <1>7, <1>8
<1> QED
  BY <1>1, <1>4, <1>7, <1>9

\* With more transfers nothing is farther.
LEMMA DistanceMore ==
  ASSUME NEW E \in Graph, NEW F \in Graph, E \subseteq F, NEW root \in Address, NEW x
  PROVE  Distance(F, root, x) <= Distance(E, root, x)
<1>1. PICK n : n = Cardinality(Address)
  OBVIOUS
<1>2. PICK f : Spreads(f, n, root, E) /\ Measures(f, n, root, E)
  BY <1>1, DistanceIs
<1>3. PICK g : Spreads(g, n, root, F) /\ Measures(g, n, root, F)
  BY <1>1, DistanceIs
<1>4. /\ n \in Nat /\ f[0] = g[0]
      /\ \A m \in 1 .. n : f[m] = Spread(f[m - 1], E) /\ g[m] = Spread(g[m - 1], F)
  BY <1>2, <1>3 DEF Spreads
<1> DEFINE S == {m \in Nat : m <= n => f[m] \subseteq g[m]}
<1>5. 0 \in S
  BY <1>4
<1>6. ASSUME NEW m \in Nat, m \in S PROVE m + 1 \in S
  <2>1. ASSUME m + 1 <= n PROVE f[m + 1] \subseteq g[m + 1]
    <3>1. m + 1 \in 1 .. n /\ (m + 1) - 1 = m /\ m <= n
      BY <1>4, <2>1
    <3>2. f[m] \subseteq g[m] /\ f[m + 1] = Spread(f[m], E) /\ g[m + 1] = Spread(g[m], F)
      BY <1>4, <1>6, <3>1
    <3> QED
      BY <3>2 DEF Spread
  <2> QED
    BY <2>1
<1>7. Nat \subseteq S
  <2> HIDE DEF S
  <2> QED
    BY <1>5, <1>6, NaturalInduction
<1>8. PICK d, e : d = Distance(E, root, x) /\ e = Distance(F, root, x)
  OBVIOUS
<1>9. d \in 0 .. n + 1 /\ e \in 0 .. n + 1
  BY <1>2, <1>3, <1>8 DEF Measures
<1>10. (\A h \in 0 .. n : d <= h <=> x \in f[h]) /\ (\A h \in 0 .. n : e <= h <=> x \in g[h])
  BY <1>2, <1>3, <1>8 DEF Measures
<1>11. d <= n => e <= d
  <2>1. ASSUME d <= n PROVE d \in 0 .. n /\ d <= d /\ f[d] \subseteq g[d]
    BY <1>4, <1>7, <1>9, <2>1
  <2> QED
    BY <1>10, <2>1
<1>12. e <= d
  BY <1>4, <1>9, <1>11
<1> QED
  BY <1>8, <1>12

\* A transfer sent from where the search is deep brings nothing nearer than that.
LEMMA DistanceNew ==
  ASSUME NEW E \in Graph, NEW y \in Address, NEW x \in Address, NEW root \in Address, NEW d \in Nat,
         NEW F, F = E \cup {<<y, x>>},
         d <= Distance(E, root, y) + 1,
         NEW z, Distance(F, root, z) < d, Distance(F, root, z) <= Cardinality(Address)
  PROVE  Distance(E, root, z) <= Distance(F, root, z)
<1>1. PICK n : n = Cardinality(Address)
  OBVIOUS
<1>2. F \in Graph
  BY DEF Graph
<1>3. PICK f : Spreads(f, n, root, E) /\ Measures(f, n, root, E)
  BY <1>1, DistanceIs
<1>4. PICK g : Spreads(g, n, root, F) /\ Measures(g, n, root, F)
  BY <1>1, <1>2, DistanceIs
<1>5. /\ n \in Nat /\ f[0] = g[0]
      /\ \A m \in 1 .. n : f[m] = Spread(f[m - 1], E) /\ g[m] = Spread(g[m - 1], F)
  BY <1>3, <1>4 DEF Spreads
<1>6. PICK a, e, b : a = Distance(E, root, y) /\ e = Distance(E, root, z) /\ b = Distance(F, root, z)
  OBVIOUS
<1>7. a \in 0 .. n + 1 /\ e \in 0 .. n + 1 /\ b \in 0 .. n + 1
  BY <1>3, <1>4, <1>6 DEF Measures
<1>8. /\ \A h \in 0 .. n : (a <= h <=> y \in f[h]) /\ (e <= h <=> z \in f[h]) /\ (b <= h <=> z \in g[h])
  BY <1>3, <1>4, <1>6 DEF Measures
<1> DEFINE S == {m \in Nat : m <= n /\ m < d => g[m] \subseteq f[m]}
<1>9. 0 \in S
  BY <1>5
<1>10. ASSUME NEW m \in Nat, m \in S PROVE m + 1 \in S
  <2>1. ASSUME m + 1 <= n, m + 1 < d PROVE g[m + 1] \subseteq f[m + 1]
    <3>1. m + 1 \in 1 .. n /\ (m + 1) - 1 = m /\ m <= n /\ m < d /\ m \in 0 .. n
      BY <1>5, <2>1
    <3>2. g[m] \subseteq f[m] /\ f[m + 1] = Spread(f[m], E) /\ g[m + 1] = Spread(g[m], F)
      BY <1>5, <1>10, <3>1
    <3>3. ~(a <= m)
      BY <1>6, <1>7, <2>1
    <3>4. y \notin f[m]
      BY <1>8, <3>1, <3>3
    <3> QED
      BY <3>2, <3>4 DEF Spread
  <2> QED
    BY <2>1
<1>11. Nat \subseteq S
  <2> HIDE DEF S
  <2> QED
    BY <1>9, <1>10, NaturalInduction
<1>12. b \in 0 .. n /\ b < d /\ b <= b
  BY <1>1, <1>5, <1>6, <1>7
<1>13. g[b] \subseteq f[b]
  BY <1>11, <1>12
<1>14. z \in f[b]
  BY <1>8, <1>12, <1>13
<1> QED
  BY <1>6, <1>8, <1>12, <1>14

\* What is reached, and is not where the search began, was sent to.
LEMMA DistanceBefore ==
  ASSUME NEW E \in Graph, NEW root \in Address, NEW x,
         Distance(E, root, x) >= 1, Distance(E, root, x) <= Cardinality(Address)
  PROVE  \E y : <<y, x>> \in E
<1>1. PICK n : n = Cardinality(Address)
  OBVIOUS
<1>2. PICK f : Spreads(f, n, root, E) /\ Measures(f, n, root, E)
  BY <1>1, DistanceIs
<1>3. PICK e : e = Distance(E, root, x)
  OBVIOUS
<1>4. n \in Nat /\ e \in 0 .. n + 1 /\ \A h \in 0 .. n : e <= h <=> x \in f[h]
  BY <1>2, <1>3 DEF Measures, Spreads
<1>5. e \in 1 .. n /\ e \in 0 .. n /\ e - 1 \in 0 .. n /\ e <= e /\ ~(e <= e - 1)
  BY <1>1, <1>3, <1>4
<1>6. x \in f[e] /\ x \notin f[e - 1] /\ f[e] = Spread(f[e - 1], E)
  BY <1>2, <1>4, <1>5 DEF Spreads
<1>7. PICK p \in E : x = p[2]
  BY <1>6 DEF Spread
<1>8. p = <<p[1], x>>
  BY <1>7 DEF Graph
<1> QED
  BY <1>7, <1>8

-----------------------------------------------------------------------------
(* The search of one trace *)

Place == 1 .. Len(scene.ledger)
Candidate == [address : Address, hop : Nat, place : Nat]
Event == [address : Address, status : {"CONFIRMED", "FAILED", "LIMIT_REACHED"}]

With(t, s) == {t.events[k].address : k \in {j \in DOMAIN t.events : t.events[j].status = s}}
Confirmed(t) == With(t, "CONFIRMED")
Asked(t) == Confirmed(t) \cup With(t, "FAILED")
Destinations(t) == {Rec(t.transfers[k]).destination : k \in DOMAIN t.transfers}

\* The changes of labels that a trace can notice, an address without one, and the endpoints.
Until(t) == IF t.at = "done" THEN t.upto ELSE Len(changed)
Untouched(t, a) == \A j \in 1 .. Until(t) : changed[j] # a
Endpoint(t, a) == a \in DOMAIN t.roles /\ t.roles[a] = "vasp"

Shape(t, ask) ==
  /\ DOMAIN t = Fields
  /\ t.at \in {"QUEUED", "query", "fetching", "taking", "done", "raised"}
  /\ t.hop \in 1 .. ask.hops
  /\ t.frontier \in Seq(Address) /\ t.next \in Seq(Address) /\ t.visited \subseteq Address
  /\ t.transfers \in Seq(Place) /\ t.pending \in Seq(Place)
  /\ t.candidates \in Seq(Candidate) /\ t.events \in Seq(Event)
  /\ t.at \in {"fetching", "taking"} => t.frontier # << >>
  /\ t.at # "taking" => t.pending = << >>
  /\ t.next # << >> => t.hop < ask.hops
  /\ t.at = "done" => t.frontier = << >> /\ t.next = << >>

\* A wallet is queried once: it waits in one place, and is asked for when it leaves it.
Queue(t) ==
  /\ Distinct(t.frontier) /\ Distinct(t.next)
  /\ \A x : Has(t.frontier, x) => x \in t.visited /\ ~Has(t.next, x)
  /\ \A x : Has(t.next, x) => x \in t.visited /\ x \notin Asked(t)
  /\ Asked(t) \subseteq t.visited
  /\ \A k \in DOMAIN t.frontier : t.frontier[k] \in Asked(t) => t.at = "taking" /\ k = 1
  /\ With(t, "LIMIT_REACHED") = {} => \A x \in t.visited : x \in Asked(t) \/ Has(t.frontier, x) \/ Has(t.next, x)

\* What was collected was sent by the wallets that were asked for it.
Sources(t) ==
  /\ \A k \in DOMAIN t.transfers : Rec(t.transfers[k]).source \in Confirmed(t)
  /\ t.at = "taking" => t.frontier[1] \in Confirmed(t)
  /\ \A k \in DOMAIN t.pending : Rec(t.pending[k]).source = t.frontier[1]

\* A record is collected once, but where pages overlap.
Once(t, ask) ==
  /\ \A k, l \in DOMAIN t.transfers :
       t.transfers[k] = t.transfers[l] => k = l \/ Overlaps(Rec(t.transfers[k]).source, ask.limit)
  /\ \A k, l \in DOMAIN t.pending :
       t.pending[k] = t.pending[l] => k = l \/ Overlaps(Rec(t.pending[k]).source, ask.limit)
  /\ \A k \in DOMAIN t.transfers : \A l \in DOMAIN t.pending :
       t.transfers[k] = t.pending[l] => Overlaps(Rec(t.transfers[k]).source, ask.limit)

\* A candidate stands for one transfer, and each transfer to an endpoint has one.
Found(t) ==
  /\ \A k \in DOMAIN t.candidates :
       /\ t.candidates[k].place \in DOMAIN t.transfers /\ t.candidates[k].hop <= t.hop
       /\ Rec(t.transfers[t.candidates[k].place]).destination = t.candidates[k].address
       /\ Endpoint(t, t.candidates[k].address)
  /\ \A k, l \in DOMAIN t.candidates : t.candidates[k].place = t.candidates[l].place => k = l
  /\ \A p \in DOMAIN t.transfers :
       LET a == Rec(t.transfers[p]).destination IN
       Untouched(t, a) /\ Endpoint(t, a) => \E k \in DOMAIN t.candidates : t.candidates[k].place = p

\* A wallet whose labels do not change is an endpoint or is visited, and not both.
Named(t, ask) ==
  /\ ask.root \in t.visited /\ t.visited \subseteq DOMAIN t.roles
  /\ DOMAIN t.roles = {ask.root} \cup Destinations(t)
  /\ \A a : Endpoint(t, a) => a \in Destinations(t)
  /\ \A a \in t.visited : a # ask.root /\ Untouched(t, a) => ~Endpoint(t, a)
  /\ \A a \in Destinations(t) : a \in t.visited \/ ~Untouched(t, a) \/ Endpoint(t, a) \/ t.hop = ask.hops

\* While a trace runs, its endpoints are the labelled ones, where no label has changed.
Agrees(t) ==
  /\ Len(changed) \in Nat /\ Until(t) \in 0 .. Len(changed)
  /\ t.at # "done" =>
       \A a \in Destinations(t) : Untouched(t, a) => (Endpoint(t, a) <=> FindLabel(a) = "vasp")

Far(t, ask, a) == Distance(Edges(t), ask.root, a)

\* The search goes no deeper than it says.
Deep(t, ask) ==
  /\ \A x \in t.visited \cup Destinations(t) : Far(t, ask, x) <= Cardinality(Address)
  /\ \A x : Has(t.frontier, x) => Far(t, ask, x) <= t.hop - 1
  /\ \A x : Has(t.next, x) => Far(t, ask, x) <= t.hop
  /\ \A k \in DOMAIN t.candidates : Far(t, ask, t.candidates[k].address) <= t.candidates[k].hop

\* And no wallet is nearer than the search is deep, but it has been visited: unless a
\* labels of a wallet changed that was asked for.
Broad(t, ask) ==
  (\A x \in Confirmed(t) : Untouched(t, x)) =>
    /\ \A x : Has(t.frontier, x) /\ Untouched(t, x) => Far(t, ask, x) >= t.hop - 1
    /\ \A x : Has(t.next, x) /\ Untouched(t, x) => Far(t, ask, x) >= t.hop
    /\ \A x \in Address : Far(t, ask, x) < t.hop /\ Far(t, ask, x) <= Cardinality(Address) =>
         x \in t.visited \/ ~Untouched(t, x) \/ Endpoint(t, x)

Searched(t, ask) ==
  /\ Shape(t, ask) /\ Queue(t) /\ Sources(t) /\ Once(t, ask) /\ Found(t)
  /\ Named(t, ask) /\ Agrees(t) /\ Deep(t, ask) /\ Broad(t, ask)

Fetching(t, ask, f) == t.at = "fetching" => Collecting(f, t.frontier[1], ask.limit)

Searches ==
  /\ DOMAIN trace = Caller /\ IsSequence(changed)
  /\ \A c \in Tracing : Searched(trace[c], Ask(c)) /\ Fetching(trace[c], Ask(c), fetch[c])

\* The parts of a search that a step leaves alone.
Kept(t, s) ==
  /\ t.hop = s.hop /\ t.next = s.next /\ t.visited = s.visited
  /\ t.transfers = s.transfers /\ t.roles = s.roles /\ t.candidates = s.candidates
  /\ Until(t) = Until(s) /\ s.at # "done"

LEMMA SameChanges ==
  ASSUME NEW s, NEW t, Until(t) = Until(s), t.roles = s.roles
  PROVE  \A x : (Untouched(t, x) <=> Untouched(s, x)) /\ (Endpoint(t, x) <=> Endpoint(s, x))
BY DEF Untouched, Endpoint

LEMMA SameGraph ==
  ASSUME NEW s, NEW t, t.transfers = s.transfers
  PROVE  Edges(t) = Edges(s) /\ Destinations(t) = Destinations(s) /\ \A ask, x : Far(t, ask, x) = Far(s, ask, x)
<1>1. Edges(t) = Edges(s) /\ Destinations(t) = Destinations(s)
  BY DEF Edges, Destinations
<1> QED
  BY <1>1 DEF Far

LEMMA SameEvents ==
  ASSUME NEW s, NEW t, t.events = s.events
  PROVE  Confirmed(t) = Confirmed(s) /\ Asked(t) = Asked(s) /\ \A x : With(t, x) = With(s, x)
<1>1. \A x : With(t, x) = With(s, x)
  BY DEF With
<1> QED
  BY <1>1 DEF Confirmed, Asked

\* The frontier shrinks, wallets are asked, and nothing is collected.
LEMMA KeptParts ==
  ASSUME NEW ask, NEW s, Searched(s, ask), NEW t, Kept(t, s),
         \A x : Has(t.frontier, x) => Has(s.frontier, x),
         Confirmed(s) \subseteq Confirmed(t)
  PROVE  Found(t) /\ Named(t, ask) /\ Agrees(t) /\ Deep(t, ask) /\ Broad(t, ask)
<1>1. Found(s) /\ Named(s, ask) /\ Agrees(s) /\ Deep(s, ask) /\ Broad(s, ask)
  BY DEF Searched
<1>2. /\ t.hop = s.hop /\ t.next = s.next /\ t.visited = s.visited
      /\ t.transfers = s.transfers /\ t.roles = s.roles /\ t.candidates = s.candidates
      /\ Until(t) = Until(s) /\ s.at # "done"
  BY DEF Kept
<1>3. Destinations(t) = Destinations(s) /\ \A x : Far(t, ask, x) = Far(s, ask, x)
  BY <1>2, SameGraph
<1>4. \A x : (Untouched(t, x) <=> Untouched(s, x)) /\ (Endpoint(t, x) <=> Endpoint(s, x))
  BY <1>2, SameChanges
<1>5. Found(t)
  BY <1>1, <1>2, <1>4 DEF Found
<1>6. Named(t, ask)
  BY <1>1, <1>2, <1>3, <1>4 DEF Named
<1>7. Agrees(t)
  BY <1>1, <1>2, <1>3, <1>4 DEF Agrees
<1>8. Deep(t, ask)
  BY <1>1, <1>2, <1>3 DEF Deep
<1>9. Broad(t, ask)
  BY <1>1, <1>2, <1>3, <1>4 DEF Broad
<1> QED
  BY <1>5, <1>6, <1>7, <1>8, <1>9

\* An event is added.
Adds(t, s, e) == \A x : With(t, x) = IF x = e.status THEN With(s, x) \cup {e.address} ELSE With(s, x)

LEMMA Noted ==
  ASSUME NEW s, NEW t, s.events \in Seq(Event), NEW e \in Event, t.events = Append(s.events, e)
  PROVE  t.events \in Seq(Event) /\ Adds(t, s, e)
<1>1. PICK u, v, n : u = s.events /\ v = t.events /\ n = Len(u)
  OBVIOUS
<1>2. u \in Seq(Event) /\ v = Append(u, e)
  BY <1>1
<1>3. /\ v \in Seq(Event) /\ n \in Nat /\ DOMAIN u = 1 .. n /\ DOMAIN v = 1 .. n + 1
      /\ v[n + 1] = e /\ \A k \in 1 .. n : v[k] = u[k]
  BY <1>1, <1>2
<1>4. ASSUME NEW x
      PROVE  {v[k].address : k \in {j \in DOMAIN v : v[j].status = x}}
               = {u[k].address : k \in {j \in DOMAIN u : u[j].status = x}}
                   \cup (IF x = e.status THEN {e.address} ELSE {})
  <2>1. \A k \in DOMAIN v : k = n + 1 \/ k \in 1 .. n
    BY <1>3
  <2>2. n + 1 \in DOMAIN v /\ \A k \in 1 .. n : k \in DOMAIN v
    BY <1>3
  <2> QED
    BY <1>3, <2>1, <2>2
<1>5. \A x : With(t, x) = With(s, x) \cup (IF x = e.status THEN {e.address} ELSE {})
  BY <1>1, <1>4 DEF With
<1>6. \A x : With(t, x) = IF x = e.status THEN With(s, x) \cup {e.address} ELSE With(s, x)
  BY <1>5
<1> QED
  BY <1>1, <1>3, <1>6 DEF Adds

\* The first of a sequence is taken off.
LEMMA Shorter ==
  ASSUME NEW V, NEW q \in Seq(V), q # << >>
  PROVE  /\ Tail(q) \in Seq(V) /\ Head(q) = q[1] /\ q[1] \in V /\ 1 \in DOMAIN q
         /\ \A k \in DOMAIN Tail(q) : Tail(q)[k] = q[k + 1] /\ k + 1 \in DOMAIN q /\ k + 1 # 1
         /\ \A x : Has(Tail(q), x) => Has(q, x)
         /\ \A x : Has(q, x) => x = q[1] \/ Has(Tail(q), x)
         /\ Distinct(q) => Distinct(Tail(q)) /\ ~Has(Tail(q), q[1])
<1>1. PICK r, n : r = Tail(q) /\ n = Len(q)
  OBVIOUS
<1>2. n \in Nat /\ n >= 1 /\ DOMAIN q = 1 .. n /\ q[1] \in V /\ Head(q) = q[1]
  BY <1>1
<1>3. r \in Seq(V) /\ Len(r) = n - 1 /\ DOMAIN r = 1 .. n - 1 /\ \A k \in 1 .. n - 1 : r[k] = q[k + 1]
  BY <1>1, <1>2
<1>4. \A k \in DOMAIN r : r[k] = q[k + 1] /\ k + 1 \in DOMAIN q /\ k + 1 # 1
  BY <1>2, <1>3
<1>5. \A x : Has(r, x) => Has(q, x)
  BY <1>4 DEF Has
<1>6. ASSUME NEW x, Has(q, x) PROVE x = q[1] \/ Has(r, x)
  <2>1. PICK k \in 1 .. n : q[k] = x
    BY <1>2, <1>6 DEF Has
  <2>2. CASE k = 1
    BY <2>1, <2>2
  <2>3. CASE k # 1
    <3>1. k - 1 \in 1 .. n - 1 /\ (k - 1) + 1 = k
      BY <1>2, <2>3
    <3> QED
      BY <1>3, <2>1, <3>1 DEF Has
  <2> QED
    BY <2>2, <2>3
<1>7. Distinct(q) => Distinct(r) /\ ~Has(r, q[1])
  <2>1. \A k, l \in DOMAIN r : k + 1 = l + 1 => k = l
    BY <1>2, <1>3
  <2>2. 1 \in DOMAIN q
    BY <1>2
  <2> QED
    BY <1>4, <2>1, <2>2 DEF Distinct, Has
<1> QED
  BY <1>1, <1>2, <1>3, <1>4, <1>5, <1>6, <1>7

\* r is q with one more, v.
OneMore(r, q, v, n) ==
  /\ n \in Nat /\ DOMAIN q = 1 .. n /\ DOMAIN r = 1 .. n + 1 /\ n + 1 \in DOMAIN r
  /\ r[n + 1] = v /\ \A k \in DOMAIN q : r[k] = q[k] /\ k \in DOMAIN r /\ k # n + 1
  /\ \A k \in DOMAIN r : k = n + 1 \/ k \in DOMAIN q
  /\ \A x : Has(r, x) <=> Has(q, x) \/ x = v
  /\ Distinct(q) /\ ~Has(q, v) => Distinct(r)

LEMMA Longer ==
  ASSUME NEW V, NEW q \in Seq(V), NEW v \in V
  PROVE  Append(q, v) \in Seq(V) /\ OneMore(Append(q, v), q, v, Len(q))
<1> DEFINE r == Append(q, v)
           n == Len(q)
<1>1. /\ r \in Seq(V) /\ n \in Nat /\ DOMAIN q = 1 .. n /\ DOMAIN r = 1 .. n + 1 /\ n + 1 \in DOMAIN r
      /\ r[n + 1] = v /\ \A k \in 1 .. n : r[k] = q[k]
  OBVIOUS
<1>2. \A k \in DOMAIN r : k = n + 1 \/ k \in DOMAIN q
  BY <1>1
<1>3. \A k \in DOMAIN q : r[k] = q[k] /\ k \in DOMAIN r /\ k # n + 1
  BY <1>1
<1>4. \A x : Has(r, x) <=> Has(q, x) \/ x = v
  BY <1>1, <1>2, <1>3 DEF Has
<1>5. Distinct(q) /\ ~Has(q, v) => Distinct(r)
  BY <1>1, <1>2, <1>3 DEF Has, Distinct
<1> QED
  BY <1>1, <1>2, <1>3, <1>4, <1>5 DEF OneMore

\* The transfers of a search are edges of the graph.
LEMMA Sent ==
  ASSUME Explored, NEW s, s.transfers \in Seq(Place)
  PROVE  Edges(s) \in Graph
<1>1. \A i \in Place : Rec(i) \in Record
  BY PagesAssumption DEF Explored, World, Place, Rec
<1>2. \A k \in DOMAIN s.transfers : s.transfers[k] \in Place
  OBVIOUS
<1>3. \A k \in DOMAIN s.transfers : Rec(s.transfers[k]).source \in Address /\ Rec(s.transfers[k]).destination \in Address
  BY <1>1, <1>2 DEF Record
<1> QED
  BY <1>3 DEF Edges, Graph

\* Only where the trace is changes.
LEMMA SearchedTurn ==
  ASSUME NEW ask, NEW s, Searched(s, ask), s.at # "taking",
         NEW t, DOMAIN t = Fields, Kept(t, s), t.frontier = s.frontier, t.pending = s.pending, t.events = s.events,
         t.at \in {"query", "fetching", "done", "raised"},
         t.at = "fetching" => t.frontier # << >>,
         t.at = "done" => t.frontier = << >> /\ t.next = << >>
  PROVE  Searched(t, ask)
<1>1. Shape(s, ask) /\ Queue(s) /\ Sources(s) /\ Once(s, ask)
  BY DEF Searched
<1>2. /\ t.hop = s.hop /\ t.next = s.next /\ t.visited = s.visited
      /\ t.transfers = s.transfers /\ t.roles = s.roles /\ t.candidates = s.candidates
  BY DEF Kept
<1>3. Confirmed(t) = Confirmed(s) /\ Asked(t) = Asked(s) /\ \A x : With(t, x) = With(s, x)
  BY SameEvents
<1>4. Found(t) /\ Named(t, ask) /\ Agrees(t) /\ Deep(t, ask) /\ Broad(t, ask)
  BY <1>3, KeptParts
<1>5. Shape(t, ask)
  BY <1>1, <1>2 DEF Shape
<1>6. Queue(t)
  BY <1>1, <1>2, <1>3 DEF Queue
<1>7. Sources(t)
  BY <1>1, <1>2, <1>3 DEF Sources, Shape
<1>8. Once(t, ask)
  BY <1>1, <1>2 DEF Once
<1> QED
  BY <1>4, <1>5, <1>6, <1>7, <1>8 DEF Searched

\* A wallet leaves the frontier, asked for, or the frontier is dropped.
LEMMA SearchedLeave ==
  ASSUME NEW ask, NEW s, Searched(s, ask),
         NEW t, DOMAIN t = Fields, Kept(t, s), t.at = "query", s.pending = << >>, t.pending = << >>,
         t.events \in Seq(Event), t.frontier \in Seq(Address), Distinct(t.frontier),
         \A x : Has(t.frontier, x) => Has(s.frontier, x) /\ x \notin Asked(t),
         Confirmed(t) = Confirmed(s), Asked(s) \subseteq Asked(t),
         \A x \in Asked(t) : x \in Asked(s) \/ Has(s.frontier, x),
         With(t, "LIMIT_REACHED") = {} =>
           With(s, "LIMIT_REACHED") = {} /\ \A x : Has(s.frontier, x) => x \in Asked(t) \/ Has(t.frontier, x)
  PROVE  Searched(t, ask)
<1>1. Shape(s, ask) /\ Queue(s) /\ Sources(s) /\ Once(s, ask)
  BY DEF Searched
<1>2. /\ t.hop = s.hop /\ t.next = s.next /\ t.visited = s.visited
      /\ t.transfers = s.transfers /\ t.roles = s.roles /\ t.candidates = s.candidates
  BY DEF Kept
<1>3. Found(t) /\ Named(t, ask) /\ Agrees(t) /\ Deep(t, ask) /\ Broad(t, ask)
  BY KeptParts
<1>4. Shape(t, ask)
  BY <1>1, <1>2 DEF Shape
<1>5. Queue(t)
  <2>1. \A k \in DOMAIN t.frontier : t.frontier[k] \notin Asked(t)
    BY DEF Has
  <2>2. \A x : Has(t.frontier, x) => x \in t.visited /\ ~Has(t.next, x)
    BY <1>1, <1>2 DEF Queue
  <2>3. \A x : Has(t.next, x) => x \in t.visited /\ x \notin Asked(t)
    BY <1>1, <1>2 DEF Queue
  <2>4. Asked(t) \subseteq t.visited
    BY <1>1, <1>2 DEF Queue
  <2>5. With(t, "LIMIT_REACHED") = {} =>
          \A x \in t.visited : x \in Asked(t) \/ Has(t.frontier, x) \/ Has(t.next, x)
    BY <1>1, <1>2 DEF Queue
  <2>6. Distinct(t.next)
    BY <1>1, <1>2 DEF Queue
  <2> QED
    BY <2>1, <2>2, <2>3, <2>4, <2>5, <2>6 DEF Queue
<1>6. Sources(t)
  BY <1>1, <1>2 DEF Sources
<1>7. Once(t, ask)
  BY <1>1, <1>2 DEF Once
<1> QED
  BY <1>3, <1>4, <1>5, <1>6, <1>7 DEF Searched

\* The next hop begins.
LEMMA SearchedDeeper ==
  ASSUME NEW ask \in Request, Explored, NEW s, Searched(s, ask), s.at = "query", s.frontier = << >>, s.next # << >>,
         NEW t, DOMAIN t = Fields, t.at = "query", t.hop = s.hop + 1, t.frontier = s.next, t.next = << >>,
         t.visited = s.visited, t.transfers = s.transfers, t.pending = s.pending, t.roles = s.roles,
         t.candidates = s.candidates, t.events = s.events, Until(t) = Until(s)
  PROVE  Searched(t, ask)
<1>1. /\ Shape(s, ask) /\ Queue(s) /\ Sources(s) /\ Once(s, ask) /\ Found(s) /\ Named(s, ask)
      /\ Agrees(s) /\ Deep(s, ask) /\ Broad(s, ask)
  BY DEF Searched
<1>2. ask.hops \in Nat /\ s.hop \in Nat /\ s.hop >= 1 /\ s.hop < ask.hops /\ ask.root \in Address
  BY <1>1 DEF Request, Shape
<1>3. Confirmed(t) = Confirmed(s) /\ Asked(t) = Asked(s) /\ \A x : With(t, x) = With(s, x)
  BY SameEvents
<1>4. Edges(t) = Edges(s) /\ Destinations(t) = Destinations(s) /\ \A x : Far(t, ask, x) = Far(s, ask, x)
  BY SameGraph
<1>5. \A x : (Untouched(t, x) <=> Untouched(s, x)) /\ (Endpoint(t, x) <=> Endpoint(s, x))
  BY SameChanges
<1>6. Agrees(t)
  BY <1>1, <1>4, <1>5 DEF Agrees
<1>7. Shape(t, ask)
  BY <1>1, <1>2 DEF Shape
<1>8. Queue(t)
  <2>1. \A x : ~Has(s.frontier, x) /\ ~Has(t.next, x)
    BY DEF Has
  <2>2. \A k \in DOMAIN t.frontier : t.frontier[k] \notin Asked(t)
    BY <1>1, <1>3 DEF Queue, Has
  <2>3. Distinct(t.frontier) /\ Distinct(t.next)
    BY <1>1 DEF Queue, Distinct
  <2>4. \A x : Has(t.frontier, x) => x \in t.visited /\ ~Has(t.next, x)
    BY <1>1, <2>1 DEF Queue
  <2>5. With(t, "LIMIT_REACHED") = {} =>
          \A x \in t.visited : x \in Asked(t) \/ Has(t.frontier, x) \/ Has(t.next, x)
    BY <1>1, <1>3, <2>1 DEF Queue
  <2>6. Asked(t) \subseteq t.visited
    BY <1>1, <1>3 DEF Queue
  <2> QED
    BY <2>1, <2>2, <2>3, <2>4, <2>5, <2>6 DEF Queue
<1>9. Sources(t)
  BY <1>1, <1>3 DEF Sources, Shape
<1>10. Once(t, ask)
  BY <1>1 DEF Once
<1>11. Found(t)
  <2>1. \A k \in DOMAIN s.candidates : s.candidates[k].hop \in Nat
    <3>1. s.candidates \in Seq(Candidate)
      BY <1>1 DEF Shape
    <3>2. \A k \in DOMAIN s.candidates : s.candidates[k] \in Candidate
      BY <3>1
    <3> QED
      BY <3>2 DEF Candidate
  <2>2. \A k \in DOMAIN s.candidates : s.candidates[k].hop <= s.hop => s.candidates[k].hop <= t.hop
    BY <1>2, <2>1
  <2> QED
    BY <1>1, <1>5, <2>2 DEF Found
<1>12. Named(t, ask)
  BY <1>1, <1>2, <1>4, <1>5 DEF Named
<1>13. s.hop = t.hop - 1 /\ s.transfers \in Seq(Place)
  BY <1>1, <1>2 DEF Shape
<1>14. Deep(t, ask)
  <2>1. \A x : ~Has(t.next, x)
    BY DEF Has
  <2> QED
    BY <1>1, <1>4, <1>13, <2>1 DEF Deep
<1>15. Edges(s) \in Graph
  BY <1>13, Sent
<1>16. Broad(t, ask)
  <2>1. SUFFICES ASSUME \A x \in Confirmed(s) : Untouched(s, x)
                 PROVE  /\ \A x : Has(t.frontier, x) /\ Untouched(t, x) => Far(t, ask, x) >= t.hop - 1
                        /\ \A x : Has(t.next, x) /\ Untouched(t, x) => Far(t, ask, x) >= t.hop
                        /\ \A x \in Address : Far(t, ask, x) < t.hop /\ Far(t, ask, x) <= Cardinality(Address) =>
                             x \in t.visited \/ ~Untouched(t, x) \/ Endpoint(t, x)
    BY <1>3, <1>5 DEF Broad
  <2>2. \A x : Has(t.frontier, x) /\ Untouched(t, x) => Far(t, ask, x) >= t.hop - 1
    BY <1>1, <1>4, <1>13, <1>5, <2>1 DEF Broad
  <2>3. \A x : ~Has(t.next, x)
    BY DEF Has
  <2>4. ASSUME NEW x \in Address, Far(t, ask, x) < t.hop, Far(t, ask, x) <= Cardinality(Address)
        PROVE  x \in t.visited \/ ~Untouched(t, x) \/ Endpoint(t, x)
    <3>1. PICK d : d = Far(s, ask, x)
      OBVIOUS
    <3>2. d \in Nat /\ d < s.hop + 1 /\ d <= Cardinality(Address)
      BY <1>2, <1>4, <1>15, <2>4, <3>1, DistanceRange DEF Far
    <3>3. CASE d < s.hop
      BY <1>1, <1>5, <2>1, <3>1, <3>2, <3>3 DEF Broad
    <3>4. CASE d = s.hop
      <4>1. \E y : <<y, x>> \in Edges(s)
        BY <1>2, <1>15, <3>1, <3>2, <3>4, DistanceBefore DEF Far
      <4>2. x \in Destinations(s)
        BY <4>1 DEF Edges, Destinations
      <4> QED
        BY <1>1, <1>2, <1>5, <4>2 DEF Named
    <3> QED
      BY <1>2, <3>2, <3>3, <3>4
  <2> QED
    BY <2>2, <2>3, <2>4
<1> QED
  BY <1>7, <1>8, <1>9, <1>10, <1>11, <1>12, <1>14, <1>16, <1>6 DEF Searched

\* An answer is taken: what it holds was sent by the wallet that was asked for.
LEMMA SearchedAnswered ==
  ASSUME NEW ask, NEW s, Searched(s, ask), Explored, s.at = "fetching",
         NEW w, w = s.frontier[1], NEW got, Gathered(w, ask.limit, got), NEW S \in SUBSET DOMAIN got,
         NEW t, DOMAIN t = Fields, Kept(t, s), t.at = "taking", t.frontier = s.frontier, t.pending = At(got, S),
         t.events = Append(s.events, [address |-> w, status |-> "CONFIRMED"])
  PROVE  Searched(t, ask)
<1>1. Shape(s, ask) /\ Queue(s) /\ Sources(s) /\ Once(s, ask)
  BY DEF Searched
<1>2. /\ t.hop = s.hop /\ t.next = s.next /\ t.visited = s.visited
      /\ t.transfers = s.transfers /\ t.roles = s.roles /\ t.candidates = s.candidates
  BY DEF Kept
<1>3. s.frontier # << >> /\ s.frontier \in Seq(Address) /\ s.events \in Seq(Event)
  BY <1>1 DEF Shape
<1>4. 1 \in DOMAIN s.frontier /\ w \in Address /\ Has(s.frontier, w)
  BY <1>3 DEF Has
<1>5. t.events \in Seq(Event) /\ Confirmed(t) = Confirmed(s) \cup {w} /\ Asked(t) = Asked(s) \cup {w}
      /\ With(t, "LIMIT_REACHED") = With(s, "LIMIT_REACHED")
  <2>1. PICK e : e = [address |-> w, status |-> "CONFIRMED"]
    OBVIOUS
  <2>2. e \in Event /\ e.address = w /\ e.status = "CONFIRMED" /\ t.events = Append(s.events, e)
    BY <1>4, <2>1 DEF Event
  <2>3. t.events \in Seq(Event) /\ Adds(t, s, e)
    BY <1>3, <2>2, Noted
  <2>4. /\ With(t, "CONFIRMED") = With(s, "CONFIRMED") \cup {w} /\ With(t, "FAILED") = With(s, "FAILED")
        /\ With(t, "LIMIT_REACHED") = With(s, "LIMIT_REACHED")
    BY <2>2, <2>3 DEF Adds
  <2> QED
    BY <2>3, <2>4 DEF Confirmed, Asked
<1>6. Found(t) /\ Named(t, ask) /\ Agrees(t) /\ Deep(t, ask) /\ Broad(t, ask)
  BY <1>5, KeptParts
<1>7. got \in Seq(Nat) /\ Selects(t.pending, got, S)
  BY AtSelects DEF Gathered
<1>8. PICK p : p = t.pending
  OBVIOUS
<1>9. p \in Seq(ElementsOf(got)) /\ (Distinct(got) => Distinct(p))
  BY <1>7, <1>8 DEF Selects
<1>10. \A k \in DOMAIN p : p[k] \in ElementsOf(got)
  BY <1>9
<1>11. \A k \in DOMAIN p : p[k] \in 1 .. known /\ Accepted(w, p[k])
  BY <1>10 DEF ElementsOf, Gathered
<1>12. \A k \in DOMAIN p : Rec(p[k]).source = w
  BY <1>11 DEF Accepted
<1>13. p \in Seq(Place)
  <2>1. 1 .. known \subseteq Place
    BY Ledger DEF Explored, Place
  <2>2. ElementsOf(got) \subseteq 1 .. known
    BY DEF ElementsOf, Gathered
  <2> QED
    BY <1>9, <2>1, <2>2, SeqMonotonic
<1>14. w \notin Asked(s)
  BY <1>1, <1>4 DEF Queue
<1>15. Shape(t, ask)
  BY <1>1, <1>2, <1>5, <1>8, <1>13 DEF Shape
<1>16. Queue(t)
  <2>1. \A k \in DOMAIN t.frontier : t.frontier[k] \in Asked(t) => k = 1
    <3>1. ASSUME NEW k \in DOMAIN s.frontier, s.frontier[k] \in Asked(t) PROVE k = 1
      <4>1. s.frontier[k] \notin Asked(s)
        BY <1>1 DEF Queue
      <4>2. s.frontier[k] = s.frontier[1]
        BY <1>5, <3>1, <4>1
      <4> QED
        BY <1>1, <1>4, <4>2 DEF Queue, Distinct
    <3> QED
      BY <3>1
  <2>2. Distinct(t.frontier) /\ Distinct(t.next) /\ \A x : Has(t.frontier, x) => x \in t.visited /\ ~Has(t.next, x)
    BY <1>1, <1>2 DEF Queue
  <2>3. \A x : Has(t.next, x) => x \in t.visited /\ x \notin Asked(t)
    BY <1>1, <1>2, <1>4, <1>5 DEF Queue
  <2>4. Asked(t) \subseteq t.visited
    BY <1>1, <1>2, <1>4, <1>5 DEF Queue
  <2>5. With(t, "LIMIT_REACHED") = {} =>
          \A x \in t.visited : x \in Asked(t) \/ Has(t.frontier, x) \/ Has(t.next, x)
    BY <1>1, <1>2, <1>5 DEF Queue
  <2> QED
    BY <2>1, <2>2, <2>3, <2>4, <2>5 DEF Queue
<1>17. Sources(t)
  BY <1>1, <1>2, <1>5, <1>8, <1>12 DEF Sources
<1>18. Once(t, ask)
  <2>1. Distinct(p) \/ Overlaps(w, ask.limit)
    BY <1>9 DEF Gathered
  <2>2. \A k, l \in DOMAIN p : p[k] = p[l] => k = l \/ Overlaps(Rec(p[k]).source, ask.limit)
    BY <1>12, <2>1 DEF Distinct
  <2>3. ASSUME NEW k \in DOMAIN s.transfers, NEW l \in DOMAIN p, s.transfers[k] = p[l] PROVE FALSE
    <3>1. w \in Confirmed(s)
      BY <1>1, <1>12, <2>3 DEF Sources
    <3> QED
      BY <1>14, <3>1 DEF Asked
  <2>4. \A k, l \in DOMAIN t.transfers :
          t.transfers[k] = t.transfers[l] => k = l \/ Overlaps(Rec(t.transfers[k]).source, ask.limit)
    BY <1>1, <1>2 DEF Once
  <2> QED
    BY <1>2, <1>8, <2>2, <2>3, <2>4 DEF Once
<1> QED
  BY <1>6, <1>15, <1>16, <1>17, <1>18 DEF Searched

\* What is known of a transfer that is taken.
Takes(t, s, ask, i, w, a) ==
  /\ s.at = "taking" /\ i = s.pending[1] /\ s.pending # << >> /\ w = s.frontier[1] /\ w = Rec(i).source /\ a = Rec(i).destination
  /\ DOMAIN t = Fields /\ t.at = "taking" /\ t.hop = s.hop /\ t.frontier = s.frontier /\ t.events = s.events
  /\ t.pending = Tail(s.pending) /\ t.transfers = Append(s.transfers, i)
  /\ DOMAIN t.roles = DOMAIN s.roles \cup {a}
  /\ \/ /\ FindLabel(a) = "vasp" /\ t.visited = s.visited /\ t.next = s.next
        /\ t.roles[a] = "vasp" /\ \A x \in DOMAIN s.roles : x # a => t.roles[x] = s.roles[x]
        /\ t.candidates = Append(s.candidates, [address |-> a, hop |-> s.hop, place |-> Len(s.transfers) + 1])
     \/ /\ FindLabel(a) # "vasp" /\ t.candidates = s.candidates
        /\ \A x \in DOMAIN s.roles : t.roles[x] = s.roles[x]
        /\ a \notin DOMAIN s.roles => t.roles[a] # "vasp"
        /\ \/ a \notin s.visited /\ s.hop < ask.hops /\ t.visited = s.visited \cup {a} /\ t.next = Append(s.next, a)
           \/ (a \in s.visited \/ ~(s.hop < ask.hops)) /\ t.visited = s.visited /\ t.next = s.next

\* The graph gains an edge from the frontier.
Extended(t, s, ask, w, a) ==
  /\ w \in Address /\ a \in Address /\ Has(s.frontier, w) /\ w \in s.visited /\ w \in Confirmed(s)
  /\ Edges(s) \in Graph /\ Edges(t) \in Graph /\ Edges(t) = Edges(s) \cup {<<w, a>>}
  /\ Destinations(t) = Destinations(s) \cup {a}

Added(t, s, i, n) == OneMore(t.transfers, s.transfers, i, n)

LEMMA TakesAdds ==
  ASSUME NEW ask, NEW s, Shape(s, ask), NEW t, NEW i, NEW w, NEW a, Takes(t, s, ask, i, w, a)
  PROVE  /\ i \in Place /\ t.pending \in Seq(Place) /\ t.transfers \in Seq(Place)
         /\ \A k \in DOMAIN t.pending : t.pending[k] = s.pending[k + 1] /\ k + 1 \in DOMAIN s.pending /\ k + 1 # 1
         /\ 1 \in DOMAIN s.pending
         /\ Added(t, s, i, Len(s.transfers))
<1>1. /\ s.pending \in Seq(Place) /\ s.pending # << >> /\ t.pending = Tail(s.pending) /\ i = s.pending[1]
      /\ s.transfers \in Seq(Place) /\ t.transfers = Append(s.transfers, i)
  BY DEF Shape, Takes
<1>2. /\ i \in Place /\ t.pending \in Seq(Place) /\ 1 \in DOMAIN s.pending
      /\ \A k \in DOMAIN t.pending : t.pending[k] = s.pending[k + 1] /\ k + 1 \in DOMAIN s.pending /\ k + 1 # 1
  BY <1>1, Shorter
<1>3. t.transfers \in Seq(Place) /\ Added(t, s, i, Len(s.transfers))
  BY <1>1, <1>2, Longer DEF Added
<1> QED
  BY <1>2, <1>3

LEMMA TakesExtends ==
  ASSUME Explored, NEW ask, NEW s, Searched(s, ask), NEW t, NEW i, NEW w, NEW a, Takes(t, s, ask, i, w, a)
  PROVE  Extended(t, s, ask, w, a)
<1>1. Shape(s, ask) /\ Queue(s) /\ Sources(s)
  BY DEF Searched
<1>2. i \in Place /\ t.transfers \in Seq(Place) /\ Added(t, s, i, Len(s.transfers))
  BY <1>1, TakesAdds
<1>3. s.at = "taking" /\ w = s.frontier[1] /\ w = Rec(i).source /\ a = Rec(i).destination
  BY DEF Takes
<1>4. s.frontier \in Seq(Address) /\ s.frontier # << >> /\ s.transfers \in Seq(Place)
  BY <1>1, <1>3 DEF Shape
<1>5. w \in Address /\ Has(s.frontier, w)
  <2>1. 1 \in DOMAIN s.frontier /\ s.frontier[1] \in Address
    BY <1>4
  <2> QED
    BY <1>3, <2>1 DEF Has
<1>6. w \in s.visited /\ w \in Confirmed(s)
  BY <1>1, <1>3, <1>5 DEF Queue, Sources
<1>7. a \in Address
  <2>1. Rec(i) \in Record
    BY <1>2, PagesAssumption DEF Explored, World, Place, Rec
  <2> QED
    BY <1>3, <2>1 DEF Record
<1>8. Edges(s) \in Graph /\ Edges(t) \in Graph
  BY <1>2, <1>4, Sent
<1>9. PICK q, r, n : q = s.transfers /\ r = t.transfers /\ n = Len(s.transfers)
  OBVIOUS
<1>10. /\ n + 1 \in DOMAIN r /\ r[n + 1] = i
       /\ \A k \in DOMAIN q : r[k] = q[k] /\ k \in DOMAIN r
       /\ \A k \in DOMAIN r : k = n + 1 \/ k \in DOMAIN q
  BY <1>2, <1>9 DEF Added, OneMore
<1>11. {<<Rec(r[k]).source, Rec(r[k]).destination>> : k \in DOMAIN r}
         = {<<Rec(q[k]).source, Rec(q[k]).destination>> : k \in DOMAIN q} \cup {<<w, a>>}
  BY <1>3, <1>10
<1>12. {Rec(r[k]).destination : k \in DOMAIN r} = {Rec(q[k]).destination : k \in DOMAIN q} \cup {a}
  BY <1>3, <1>10
<1>13. Edges(t) = Edges(s) \cup {<<w, a>>}
  BY <1>9, <1>11 DEF Edges
<1>14. Destinations(t) = Destinations(s) \cup {a}
  BY <1>9, <1>12 DEF Destinations
<1> QED
  BY <1>5, <1>6, <1>7, <1>8, <1>13, <1>14 DEF Extended

LEMMA TakesShape ==
  ASSUME NEW ask, NEW s, Shape(s, ask), NEW t, NEW i, NEW w, NEW a \in Address, Takes(t, s, ask, i, w, a)
  PROVE  Shape(t, ask)
<1>1. t.pending \in Seq(Place) /\ t.transfers \in Seq(Place)
  BY TakesAdds
<1>2. /\ DOMAIN t = Fields /\ t.at = "taking" /\ t.hop = s.hop /\ t.frontier = s.frontier /\ t.events = s.events
      /\ s.at = "taking"
  BY DEF Takes
<1>3. t.hop \in 1 .. ask.hops /\ t.hop \in Nat /\ s.hop \in Nat
  BY <1>2 DEF Shape
<1>4. t.visited \subseteq Address
  BY DEF Takes, Shape
<1>5. t.next \in Seq(Address)
  <2>1. s.next \in Seq(Address)
    BY DEF Shape
  <2>2. t.next = s.next \/ t.next = Append(s.next, a)
    BY DEF Takes
  <2> QED
    BY <2>1, <2>2
<1>6. t.next # << >> => t.hop < ask.hops
  BY <1>2 DEF Takes, Shape
<1>7. t.candidates \in Seq(Candidate)
  <2>1. s.candidates \in Seq(Candidate) /\ s.transfers \in Seq(Place)
    BY DEF Shape
  <2>2. PICK e : e = [address |-> a, hop |-> s.hop, place |-> Len(s.transfers) + 1]
    OBVIOUS
  <2>3. e \in Candidate
    BY <1>3, <2>1, <2>2 DEF Candidate
  <2>4. t.candidates = s.candidates \/ t.candidates = Append(s.candidates, e)
    BY <2>2 DEF Takes
  <2> QED
    BY <2>1, <2>3, <2>4, SMTT(20)
<1>8. t.frontier \in Seq(Address) /\ t.frontier # << >> /\ t.events \in Seq(Event)
  BY <1>2 DEF Shape
<1> QED
  BY <1>1, <1>2, <1>3, <1>4, <1>5, <1>6, <1>7, <1>8 DEF Shape

LEMMA TakesQueue ==
  ASSUME NEW ask, NEW s, Shape(s, ask), Queue(s), NEW t, NEW i, NEW w, NEW a \in Address, Takes(t, s, ask, i, w, a)
  PROVE  Queue(t)
<1>1. t.frontier = s.frontier /\ t.at = s.at /\ t.events = s.events
  BY DEF Takes
<1>2. Asked(t) = Asked(s) /\ \A x : With(t, x) = With(s, x)
  BY <1>1, SameEvents
<1>3. CASE t.visited = s.visited /\ t.next = s.next
  BY <1>1, <1>2, <1>3 DEF Queue
<1>4. CASE a \notin s.visited /\ t.visited = s.visited \cup {a} /\ t.next = Append(s.next, a)
  <2>1. s.next \in Seq(Address)
    BY DEF Shape
  <2>2. ~Has(s.next, a) /\ ~Has(s.frontier, a) /\ a \notin Asked(s)
    BY <1>4 DEF Queue
  <2>3. (\A x : Has(t.next, x) <=> Has(s.next, x) \/ x = a) /\ (Distinct(s.next) => Distinct(t.next))
    <3>1. OneMore(t.next, s.next, a, Len(s.next))
      BY <1>4, <2>1, Longer
    <3> QED
      BY <2>2, <3>1 DEF OneMore
  <2>4. \A x : Has(t.frontier, x) => x \in t.visited /\ ~Has(t.next, x)
    BY <1>1, <1>4, <2>2, <2>3 DEF Queue
  <2>5. \A x : Has(t.next, x) => x \in t.visited /\ x \notin Asked(t)
    BY <1>2, <1>4, <2>2, <2>3 DEF Queue
  <2>6. With(t, "LIMIT_REACHED") = {} =>
          \A x \in t.visited : x \in Asked(t) \/ Has(t.frontier, x) \/ Has(t.next, x)
    BY <1>1, <1>2, <1>4, <2>3 DEF Queue
  <2>7. Asked(t) \subseteq t.visited
    BY <1>2, <1>4 DEF Queue
  <2>8. Distinct(t.frontier) /\ Distinct(t.next)
    BY <1>1, <2>3 DEF Queue
  <2>9. \A k \in DOMAIN t.frontier : t.frontier[k] \in Asked(t) => t.at = "taking" /\ k = 1
    BY <1>1, <1>2 DEF Queue
  <2> QED
    BY <2>4, <2>5, <2>6, <2>7, <2>8, <2>9 DEF Queue
<1> QED
  BY <1>3, <1>4 DEF Takes

LEMMA TakesSources ==
  ASSUME NEW ask, NEW s, Shape(s, ask), Sources(s), NEW t, NEW i, NEW w, NEW a, Takes(t, s, ask, i, w, a)
  PROVE  Sources(t)
<1>1. t.frontier = s.frontier /\ t.at = s.at /\ t.events = s.events /\ s.at = "taking" /\ w = s.frontier[1] /\ w = Rec(i).source
  BY DEF Takes
<1>2. Confirmed(t) = Confirmed(s)
  BY <1>1, SameEvents
<1>3. /\ \A k \in DOMAIN t.pending : t.pending[k] = s.pending[k + 1] /\ k + 1 \in DOMAIN s.pending
      /\ Added(t, s, i, Len(s.transfers))
  BY TakesAdds
<1>4. \A k \in DOMAIN t.transfers : Rec(t.transfers[k]).source \in Confirmed(t)
  BY <1>1, <1>2, <1>3 DEF Sources, Added, OneMore
<1>5. \A k \in DOMAIN t.pending : Rec(t.pending[k]).source = t.frontier[1]
  BY <1>1, <1>3 DEF Sources
<1> QED
  BY <1>1, <1>2, <1>4, <1>5 DEF Sources

LEMMA TakesOnce ==
  ASSUME NEW ask, NEW s, Shape(s, ask), Once(s, ask), NEW t, NEW i, NEW w, NEW a, Takes(t, s, ask, i, w, a)
  PROVE  Once(t, ask)
<1>1. PICK q, r, u, v, n : q = s.transfers /\ r = t.transfers /\ u = s.pending /\ v = t.pending /\ n = Len(s.transfers)
  OBVIOUS
<1>2. /\ \A k \in DOMAIN v : v[k] = u[k + 1] /\ k + 1 \in DOMAIN u /\ k + 1 # 1
      /\ 1 \in DOMAIN u /\ Added(t, s, i, n) /\ v \in Seq(Place)
  BY <1>1, TakesAdds
<1>3. /\ r[n + 1] = i /\ u[1] = i
      /\ \A k \in DOMAIN q : r[k] = q[k] /\ k # n + 1
      /\ \A k \in DOMAIN r : k = n + 1 \/ k \in DOMAIN q
  BY <1>1, <1>2 DEF Added, OneMore, Takes
<1>4. /\ \A k, l \in DOMAIN q : q[k] = q[l] => k = l \/ Overlaps(Rec(q[k]).source, ask.limit)
      /\ \A k, l \in DOMAIN u : u[k] = u[l] => k = l \/ Overlaps(Rec(u[k]).source, ask.limit)
      /\ \A k \in DOMAIN q : \A l \in DOMAIN u : q[k] = u[l] => Overlaps(Rec(q[k]).source, ask.limit)
  BY <1>1 DEF Once
<1>5. \A k, l \in DOMAIN r : r[k] = r[l] => k = l \/ Overlaps(Rec(r[k]).source, ask.limit)
  <2>1. ASSUME NEW k \in DOMAIN r, NEW l \in DOMAIN r, r[k] = r[l], k # l PROVE Overlaps(Rec(r[k]).source, ask.limit)
    <3>1. CASE k \in DOMAIN q /\ l \in DOMAIN q
      BY <1>3, <1>4, <2>1, <3>1
    <3>2. CASE k = n + 1 /\ l \in DOMAIN q
      <4>1. q[l] = u[1] /\ q[l] = r[k]
        BY <1>3, <2>1, <3>2
      <4> QED
        BY <1>2, <1>4, <3>2, <4>1
    <3>3. CASE l = n + 1 /\ k \in DOMAIN q
      <4>1. q[k] = u[1] /\ q[k] = r[k]
        BY <1>3, <2>1, <3>3
      <4> QED
        BY <1>2, <1>4, <3>3, <4>1
    <3> QED
      BY <1>3, <2>1, <3>1, <3>2, <3>3
  <2> QED
    BY <2>1
<1>6. \A k, l \in DOMAIN v : v[k] = v[l] => k = l \/ Overlaps(Rec(v[k]).source, ask.limit)
  <2>1. \A k, l \in DOMAIN v : k + 1 = l + 1 => k = l
    BY <1>2
  <2> QED
    BY <1>2, <1>4, <2>1
<1>7. \A k \in DOMAIN r : \A l \in DOMAIN v : r[k] = v[l] => Overlaps(Rec(r[k]).source, ask.limit)
  <2>1. ASSUME NEW k \in DOMAIN r, NEW l \in DOMAIN v, r[k] = v[l] PROVE Overlaps(Rec(r[k]).source, ask.limit)
    <3>1. CASE k \in DOMAIN q
      BY <1>2, <1>3, <1>4, <2>1, <3>1
    <3>2. CASE k = n + 1
      <4>1. u[1] = u[l + 1] /\ r[k] = u[1] /\ l + 1 # 1 /\ l + 1 \in DOMAIN u
        BY <1>2, <1>3, <2>1, <3>2
      <4> QED
        BY <1>2, <1>4, <4>1
    <3> QED
      BY <1>3, <3>1, <3>2
  <2> QED
    BY <2>1
<1> QED
  BY <1>1, <1>5, <1>6, <1>7 DEF Once

LEMMA TakesEndpoints ==
  ASSUME NEW ask, NEW s, Named(s, ask), Agrees(s), NEW t, NEW i, NEW w, NEW a, Takes(t, s, ask, i, w, a)
  PROVE  /\ \A x : Untouched(t, x) <=> Untouched(s, x)
         /\ FindLabel(a) = "vasp" => \A x : Endpoint(t, x) <=> Endpoint(s, x) \/ x = a
         /\ FindLabel(a) # "vasp" =>
              /\ \A x : Endpoint(t, x) <=> Endpoint(s, x)
              /\ Untouched(s, a) => ~Endpoint(s, a)
         /\ \A x \in Destinations(s) : Untouched(s, x) => (Endpoint(s, x) <=> FindLabel(x) = "vasp")
         /\ \A x : Endpoint(s, x) => x \in Destinations(s)
<1>1. s.at = "taking" /\ t.at = "taking" /\ DOMAIN t.roles = DOMAIN s.roles \cup {a}
  BY DEF Takes
<1>2. \A x : Untouched(t, x) <=> Untouched(s, x)
  BY <1>1 DEF Untouched, Until
<1>3. /\ \A x \in Destinations(s) : Untouched(s, x) => (Endpoint(s, x) <=> FindLabel(x) = "vasp")
      /\ \A x : Endpoint(s, x) => x \in Destinations(s)
  BY <1>1 DEF Agrees, Named
<1>4. FindLabel(a) = "vasp" => \A x : Endpoint(t, x) <=> Endpoint(s, x) \/ x = a
  BY <1>1 DEF Takes, Endpoint
<1>5. FindLabel(a) # "vasp" => \A x : Endpoint(t, x) <=> Endpoint(s, x)
  BY <1>1 DEF Takes, Endpoint
<1>6. FindLabel(a) # "vasp" /\ Untouched(s, a) => ~Endpoint(s, a)
  BY <1>3
<1> QED
  BY <1>2, <1>3, <1>4, <1>5, <1>6

LEMMA TakesFound ==
  ASSUME NEW ask, NEW s, Shape(s, ask), Found(s), Named(s, ask), Agrees(s), NEW t, NEW i, NEW w, NEW a \in Address, Takes(t, s, ask, i, w, a), Extended(t, s, ask, w, a)
  PROVE  Found(t)
<1>1. PICK q, r, u, v, n : q = s.transfers /\ r = t.transfers /\ u = s.candidates /\ v = t.candidates /\ n = Len(s.transfers)
  OBVIOUS
<1>2. Added(t, s, i, n)
  BY <1>1, TakesAdds
<1>3. /\ n \in Nat /\ DOMAIN q = 1 .. n /\ r[n + 1] = i /\ n + 1 \in DOMAIN r /\ t.hop = s.hop /\ Rec(i).destination = a
      /\ \A k \in DOMAIN q : r[k] = q[k] /\ k \in DOMAIN r /\ k # n + 1
      /\ \A k \in DOMAIN r : k = n + 1 \/ k \in DOMAIN q
  BY <1>1, <1>2 DEF Added, OneMore, Takes
<1>4. /\ \A k \in DOMAIN u :
           /\ u[k].place \in DOMAIN q /\ u[k].hop <= s.hop
           /\ Rec(q[u[k].place]).destination = u[k].address
           /\ Endpoint(s, u[k].address)
      /\ \A k, l \in DOMAIN u : u[k].place = u[l].place => k = l
      /\ \A p \in DOMAIN q :
           Untouched(s, Rec(q[p]).destination) /\ Endpoint(s, Rec(q[p]).destination) => \E k \in DOMAIN u : u[k].place = p
  BY <1>1 DEF Found
<1>5. /\ \A x : Untouched(t, x) <=> Untouched(s, x)
      /\ FindLabel(a) = "vasp" => \A x : Endpoint(t, x) <=> Endpoint(s, x) \/ x = a
      /\ FindLabel(a) # "vasp" => (\A x : Endpoint(t, x) <=> Endpoint(s, x)) /\ (Untouched(s, a) => ~Endpoint(s, a))
      /\ \A p \in DOMAIN q : Rec(q[p]).destination = a /\ Untouched(s, a) => (Endpoint(s, a) <=> FindLabel(a) = "vasp")
  BY <1>1, TakesEndpoints DEF Destinations
<1>6. CASE FindLabel(a) # "vasp" /\ v = u
  <2>1. \A k \in DOMAIN v :
           /\ v[k].place \in DOMAIN r /\ v[k].hop <= t.hop
           /\ Rec(r[v[k].place]).destination = v[k].address
           /\ Endpoint(t, v[k].address)
    BY <1>3, <1>4, <1>6, <1>5
  <2>2. \A p \in DOMAIN r :
          Untouched(t, Rec(r[p]).destination) /\ Endpoint(t, Rec(r[p]).destination) => \E k \in DOMAIN v : v[k].place = p
    BY <1>3, <1>4, <1>6, <1>5
  <2> QED
    BY <1>1, <1>4, <1>6, <2>1, <2>2 DEF Found
<1>7. CASE FindLabel(a) = "vasp" /\ v = Append(u, [address |-> a, hop |-> s.hop, place |-> n + 1])
  <2>1. PICK e, m : e = [address |-> a, hop |-> s.hop, place |-> n + 1] /\ m = Len(u)
    OBVIOUS
  <2>2. s.hop \in Nat
    BY DEF Shape
  <2>3. u \in Seq(Candidate) /\ e \in Candidate /\ e.address = a /\ e.hop = s.hop /\ e.place = n + 1
    BY <1>1, <1>3, <2>1, <2>2 DEF Shape, Candidate
  <2>4. OneMore(v, u, e, m)
    BY <1>7, <2>1, <2>3, Longer
  <2>5. /\ m + 1 \in DOMAIN v /\ v[m + 1] = e
        /\ \A k \in DOMAIN u : v[k] = u[k] /\ k \in DOMAIN v /\ k # m + 1
        /\ \A k \in DOMAIN v : k = m + 1 \/ k \in DOMAIN u
    BY <2>4 DEF OneMore
  <2>6. \A k \in DOMAIN v :
           /\ v[k].place \in DOMAIN r /\ v[k].hop <= t.hop
           /\ Rec(r[v[k].place]).destination = v[k].address
           /\ Endpoint(t, v[k].address)
    BY <1>3, <1>4, <1>7, <1>5, <2>2, <2>3, <2>5
  <2>7. \A k, l \in DOMAIN v : v[k].place = v[l].place => k = l
    BY <1>3, <1>4, <2>3, <2>5
  <2>8. \A p \in DOMAIN r :
          Untouched(t, Rec(r[p]).destination) /\ Endpoint(t, Rec(r[p]).destination) => \E k \in DOMAIN v : v[k].place = p
    BY <1>3, <1>4, <1>7, <1>5, <2>3, <2>5
  <2> QED
    BY <1>1, <2>6, <2>7, <2>8 DEF Found
<1> QED
  BY <1>1, <1>6, <1>7 DEF Takes

LEMMA TakesNamed ==
  ASSUME NEW ask \in Request, NEW s, Shape(s, ask), Named(s, ask), Agrees(s), NEW t, NEW i, NEW w, NEW a,
         Takes(t, s, ask, i, w, a), Extended(t, s, ask, w, a)
  PROVE  Named(t, ask) /\ Agrees(t)
<1>1. /\ t.hop = s.hop /\ DOMAIN t.roles = DOMAIN s.roles \cup {a} /\ Destinations(t) = Destinations(s) \cup {a}
      /\ s.hop \in Nat /\ ask.hops \in Nat /\ s.hop <= ask.hops
  BY DEF Takes, Extended, Shape, Request
<1>2. /\ ask.root \in s.visited /\ s.visited \subseteq DOMAIN s.roles
      /\ DOMAIN s.roles = {ask.root} \cup Destinations(s)
      /\ \A b \in s.visited : b # ask.root /\ Untouched(s, b) => ~Endpoint(s, b)
      /\ \A b \in Destinations(s) : b \in s.visited \/ ~Untouched(s, b) \/ Endpoint(s, b) \/ s.hop = ask.hops
  BY DEF Named
<1>3. /\ \A x : Untouched(t, x) <=> Untouched(s, x)
      /\ FindLabel(a) = "vasp" => \A x : Endpoint(t, x) <=> Endpoint(s, x) \/ x = a
      /\ FindLabel(a) # "vasp" => (\A x : Endpoint(t, x) <=> Endpoint(s, x)) /\ (Untouched(s, a) => ~Endpoint(s, a))
      /\ \A x \in Destinations(s) : Untouched(s, x) => (Endpoint(s, x) <=> FindLabel(x) = "vasp")
      /\ \A x : Endpoint(s, x) => x \in Destinations(s)
  BY TakesEndpoints
<1>4. Agrees(t)
  <2>1. Until(t) = Until(s) /\ Len(changed) \in Nat /\ Until(s) \in 0 .. Len(changed)
    BY DEF Agrees, Takes, Until
  <2>2. \A x \in Destinations(t) : Untouched(t, x) => (Endpoint(t, x) <=> FindLabel(x) = "vasp")
    BY <1>1, <1>3
  <2> QED
    BY <2>1, <2>2 DEF Agrees
<1>5. /\ t.visited \subseteq s.visited \cup {a} /\ s.visited \subseteq t.visited
      /\ FindLabel(a) = "vasp" => t.visited = s.visited
      /\ FindLabel(a) # "vasp" => a \in t.visited \/ ~(s.hop < ask.hops)
  BY DEF Takes
<1>6. ask.root \in t.visited /\ t.visited \subseteq DOMAIN t.roles
  BY <1>1, <1>2, <1>5
<1>7. DOMAIN t.roles = {ask.root} \cup Destinations(t)
  BY <1>1, <1>2
<1>8. \A b : Endpoint(t, b) => b \in Destinations(t)
  BY <1>1, <1>3
<1>9. \A b \in t.visited : b # ask.root /\ Untouched(t, b) => ~Endpoint(t, b)
  BY <1>2, <1>3, <1>5
<1>10. \A b \in Destinations(t) : b \in t.visited \/ ~Untouched(t, b) \/ Endpoint(t, b) \/ t.hop = ask.hops
  BY <1>1, <1>2, <1>3, <1>5
<1> QED
  BY <1>4, <1>6, <1>7, <1>8, <1>9, <1>10 DEF Named

\* With the edge nothing is farther, and its end is one beyond the frontier.
LEMMA TakesNearer ==
  ASSUME NEW ask \in Request, NEW s, Shape(s, ask), Queue(s), Deep(s, ask), NEW t, NEW i, NEW w, NEW a,
         Takes(t, s, ask, i, w, a), Extended(t, s, ask, w, a)
  PROVE  /\ \A x : Far(s, ask, x) \in Nat /\ Far(t, ask, x) \in Nat /\ Far(t, ask, x) <= Far(s, ask, x)
         /\ Far(t, ask, a) <= s.hop /\ Far(t, ask, a) <= Cardinality(Address)
         /\ Cardinality(Address) \in Nat
<1>1. ask.root \in Address /\ s.hop \in Nat
  BY DEF Request, Shape
<1>2. Edges(s) \in Graph /\ Edges(t) \in Graph /\ Edges(s) \subseteq Edges(t) /\ <<w, a>> \in Edges(t)
  BY DEF Extended
<1>3. Cardinality(Address) \in Nat /\ \A x : Far(s, ask, x) \in Nat /\ Far(t, ask, x) \in Nat
  BY <1>1, <1>2, DistanceRange DEF Far
<1>4. \A x : Far(t, ask, x) <= Far(s, ask, x)
  BY <1>1, <1>2, DistanceMore DEF Far
<1>5. /\ Far(t, ask, a) <= Far(t, ask, w) + 1
      /\ Far(t, ask, w) <= Cardinality(Address) => Far(t, ask, a) <= Cardinality(Address)
  BY <1>1, <1>2, DistanceEdge DEF Far
<1>6. Far(s, ask, w) <= s.hop - 1 /\ Far(s, ask, w) <= Cardinality(Address)
  BY DEF Extended, Deep
<1>7. PICK d, e, f : d = Far(s, ask, w) /\ e = Far(t, ask, w) /\ f = Far(t, ask, a)
  OBVIOUS
<1>8. d \in Nat /\ e \in Nat /\ f \in Nat /\ e <= d /\ f <= e + 1 /\ d <= s.hop - 1
      /\ d <= Cardinality(Address) /\ (e <= Cardinality(Address) => f <= Cardinality(Address))
  BY <1>3, <1>4, <1>5, <1>6, <1>7
<1>9. f <= s.hop /\ f <= Cardinality(Address)
  BY <1>1, <1>3, <1>8
<1> QED
  BY <1>3, <1>4, <1>7, <1>9

LEMMA TakesDeep ==
  ASSUME NEW ask \in Request, NEW s, Shape(s, ask), Queue(s), Found(s), Deep(s, ask), NEW t, NEW i, NEW w, NEW a,
         Takes(t, s, ask, i, w, a), Extended(t, s, ask, w, a)
  PROVE  Deep(t, ask)
<1>1. /\ \A x : Far(s, ask, x) \in Nat /\ Far(t, ask, x) \in Nat /\ Far(t, ask, x) <= Far(s, ask, x)
      /\ Far(t, ask, a) <= s.hop /\ Far(t, ask, a) <= Cardinality(Address)
      /\ Cardinality(Address) \in Nat
  BY TakesNearer
<1>2. t.hop = s.hop /\ t.frontier = s.frontier /\ s.hop \in Nat /\ a \in Address
  BY DEF Takes, Shape, Extended
<1>3. \A x \in t.visited \cup Destinations(t) : Far(t, ask, x) <= Cardinality(Address)
  <2>1. \A x \in t.visited \cup Destinations(t) : x \in s.visited \cup Destinations(s) \/ x = a
    BY DEF Takes, Extended
  <2>2. \A x \in s.visited \cup Destinations(s) : Far(s, ask, x) <= Cardinality(Address)
    BY DEF Deep
  <2>3. \A x \in s.visited \cup Destinations(s) : Far(t, ask, x) <= Cardinality(Address)
    BY <1>1, <2>2
  <2> QED
    BY <1>1, <2>1, <2>3
<1>4. \A x : Has(t.frontier, x) => Far(t, ask, x) <= t.hop - 1
  <2>1. \A x : Has(s.frontier, x) => Far(s, ask, x) <= s.hop - 1
    BY DEF Deep
  <2> QED
    BY <1>1, <1>2, <2>1
<1>5. \A x : Has(t.next, x) => Far(t, ask, x) <= t.hop
  <2>1. \A x : Has(s.next, x) => Far(s, ask, x) <= s.hop
    BY DEF Deep
  <2>2. \A x : Has(t.next, x) => Has(s.next, x) \/ x = a
    <3>1. CASE t.next = s.next
      BY <3>1
    <3>2. CASE t.next = Append(s.next, a)
      <4>1. s.next \in Seq(Address)
        BY DEF Shape
      <4> QED
        BY <1>2, <3>2, <4>1, Longer DEF OneMore
    <3> QED
      BY <3>1, <3>2 DEF Takes
  <2> QED
    BY <1>1, <1>2, <2>1, <2>2
<1>6. PICK u, v, n : u = s.candidates /\ v = t.candidates /\ n = Len(s.transfers)
  OBVIOUS
<1>7. u \in Seq(Candidate) /\ n \in Nat
  <2>1. s.candidates \in Seq(Candidate) /\ s.transfers \in Seq(Place)
    BY DEF Shape
  <2> QED
    BY <1>6, <2>1
<1>8. \A k \in DOMAIN u : Far(t, ask, u[k].address) <= u[k].hop
  <2>1. \A k \in DOMAIN u : u[k] \in Candidate
    BY <1>7
  <2>2. \A k \in DOMAIN u : u[k].hop \in Nat /\ Far(s, ask, u[k].address) <= u[k].hop
    BY <1>6, <2>1 DEF Candidate, Deep
  <2> QED
    BY <1>1, <2>2
<1>9. \A k \in DOMAIN v : Far(t, ask, v[k].address) <= v[k].hop
  <2>1. CASE v = u
    BY <1>8, <2>1
  <2>2. CASE v = Append(u, [address |-> a, hop |-> s.hop, place |-> n + 1])
    <3>1. PICK e : e = [address |-> a, hop |-> s.hop, place |-> n + 1]
      OBVIOUS
    <3>2. e \in Candidate /\ e.address = a /\ e.hop = s.hop
      BY <1>2, <1>7, <3>1 DEF Candidate
    <3>3. OneMore(v, u, e, Len(u))
      BY <1>7, <2>2, <3>1, <3>2, Longer
    <3> QED
      BY <1>1, <1>8, <3>2, <3>3 DEF OneMore
  <2> QED
    BY <1>6, <2>1, <2>2 DEF Takes
<1> QED
  BY <1>3, <1>4, <1>5, <1>6, <1>9 DEF Deep

LEMMA TakesBroad ==
  ASSUME NEW ask \in Request, NEW s, Shape(s, ask), Queue(s), Deep(s, ask), Broad(s, ask),
         Named(s, ask), Agrees(s), NEW t, NEW i, NEW w, NEW a,
         Takes(t, s, ask, i, w, a), Extended(t, s, ask, w, a)
  PROVE  Broad(t, ask)
<1>1. /\ \A x : Far(s, ask, x) \in Nat /\ Far(t, ask, x) \in Nat /\ Far(t, ask, x) <= Far(s, ask, x)
      /\ Cardinality(Address) \in Nat
  BY TakesNearer
<1>2. /\ t.hop = s.hop /\ t.frontier = s.frontier /\ t.events = s.events
      /\ s.hop \in Nat /\ s.hop >= 1 /\ a \in Address /\ ask.root \in Address
  BY DEF Takes, Shape, Extended, Request
<1>3. Confirmed(t) = Confirmed(s)
  BY <1>2, SameEvents
<1>13. /\ \A x : Untouched(t, x) <=> Untouched(s, x)
       /\ \A x : Endpoint(s, x) => Endpoint(t, x)
       /\ FindLabel(a) # "vasp" /\ Untouched(t, a) => ~Endpoint(t, a)
  BY TakesEndpoints
<1> SUFFICES ASSUME \A x \in Confirmed(s) : Untouched(t, x)
             PROVE  /\ \A x : Has(t.frontier, x) /\ Untouched(t, x) => Far(t, ask, x) >= t.hop - 1
                    /\ \A x : Has(t.next, x) /\ Untouched(t, x) => Far(t, ask, x) >= t.hop
                    /\ \A x \in Address : Far(t, ask, x) < t.hop /\ Far(t, ask, x) <= Cardinality(Address) =>
                         x \in t.visited \/ ~Untouched(t, x) \/ Endpoint(t, x)
  BY <1>3, <1>13 DEF Broad
<1>4. /\ \A x : Has(s.frontier, x) /\ Untouched(t, x) => Far(s, ask, x) >= s.hop - 1
      /\ \A x : Has(s.next, x) /\ Untouched(t, x) => Far(s, ask, x) >= s.hop
      /\ \A x \in Address : Far(s, ask, x) < s.hop /\ Far(s, ask, x) <= Cardinality(Address) =>
           x \in s.visited \/ ~Untouched(t, x) \/ Endpoint(t, x)
  BY <1>13 DEF Broad
<1>5. Far(s, ask, w) >= s.hop - 1
  BY <1>4, <1>13 DEF Extended
<1>6. ASSUME NEW z, Far(t, ask, z) < s.hop, Far(t, ask, z) <= Cardinality(Address)
      PROVE  Far(s, ask, z) <= Far(t, ask, z)
  <2>1. Edges(s) \in Graph /\ w \in Address /\ Edges(t) = Edges(s) \cup {<<w, a>>}
    BY DEF Extended
  <2>2. s.hop <= Distance(Edges(s), ask.root, w) + 1
    BY <1>1, <1>2, <1>5 DEF Far
  <2>3. Distance(Edges(t), ask.root, z) < s.hop /\ Distance(Edges(t), ask.root, z) <= Cardinality(Address)
    BY <1>6 DEF Far
  <2>4. Distance(Edges(s), ask.root, z) <= Distance(Edges(t), ask.root, z)
    BY <1>2, <2>1, <2>2, <2>3, DistanceNew
  <2> QED
    BY <2>4 DEF Far
<1>7. \A x \in s.visited : Far(t, ask, x) <= Cardinality(Address)
  <2>1. \A x \in s.visited : Far(s, ask, x) <= Cardinality(Address)
    BY DEF Deep
  <2> QED
    BY <1>1, <2>1
<1>8. ASSUME NEW x, Has(t.frontier, x), Untouched(t, x) PROVE Far(t, ask, x) >= t.hop - 1
  <2>1. Far(s, ask, x) >= s.hop - 1 /\ x \in s.visited
    BY <1>2, <1>4, <1>8 DEF Queue
  <2>2. Far(t, ask, x) < s.hop => Far(s, ask, x) <= Far(t, ask, x)
    BY <1>6, <1>7, <2>1
  <2> QED
    BY <1>1, <1>2, <2>1, <2>2
<1>9. ASSUME NEW x, Has(s.next, x), Untouched(t, x) PROVE Far(t, ask, x) >= t.hop
  <2>1. Far(s, ask, x) >= s.hop /\ x \in s.visited
    BY <1>4, <1>9 DEF Queue
  <2>2. Far(t, ask, x) < s.hop => Far(s, ask, x) <= Far(t, ask, x)
    BY <1>6, <1>7, <2>1
  <2> QED
    BY <1>1, <1>2, <2>1, <2>2
<1>10. ASSUME NEW x \in Address, Far(t, ask, x) < t.hop, Far(t, ask, x) <= Cardinality(Address)
       PROVE  x \in s.visited \/ ~Untouched(t, x) \/ Endpoint(t, x)
  <2>1. Far(s, ask, x) <= Far(t, ask, x)
    BY <1>2, <1>6, <1>10
  <2>2. Far(s, ask, x) < s.hop /\ Far(s, ask, x) <= Cardinality(Address)
    BY <1>1, <1>2, <1>10, <2>1
  <2> QED
    BY <1>4, <2>2
<1>11. CASE t.visited = s.visited /\ t.next = s.next
  BY <1>8, <1>9, <1>10, <1>11
<1>12. CASE /\ FindLabel(a) # "vasp" /\ a \notin s.visited
            /\ t.visited = s.visited \cup {a} /\ t.next = Append(s.next, a)
  <2>1. \A x : Has(t.next, x) => Has(s.next, x) \/ x = a
    <3>1. s.next \in Seq(Address)
      BY DEF Shape
    <3> QED
      BY <1>2, <1>12, <3>1, Longer DEF OneMore
  <2>2. ASSUME Untouched(t, a) PROVE Far(t, ask, a) >= t.hop
    <3>1. Far(t, ask, a) <= Cardinality(Address)
      BY TakesNearer
    <3>2. ~(Far(t, ask, a) < t.hop)
      BY <1>2, <1>10, <1>12, <1>13, <2>2, <3>1
    <3> QED
      BY <1>1, <1>2, <3>2
  <2> QED
    BY <1>8, <1>9, <1>10, <1>12, <2>1, <2>2
<1> QED
  BY <1>11, <1>12 DEF Takes

LEMMA SearchedTake ==
  ASSUME Explored, NEW ask \in Request, NEW s, Searched(s, ask), NEW t, NEW i, NEW w, NEW a, Takes(t, s, ask, i, w, a)
  PROVE  Searched(t, ask)
<1>1. /\ Shape(s, ask) /\ Queue(s) /\ Sources(s) /\ Once(s, ask) /\ Found(s) /\ Named(s, ask)
      /\ Agrees(s) /\ Deep(s, ask) /\ Broad(s, ask)
  BY DEF Searched
<1>2. Extended(t, s, ask, w, a) /\ a \in Address
  BY TakesExtends DEF Extended
<1>3. Shape(t, ask) /\ Queue(t) /\ Sources(t) /\ Once(t, ask) /\ Found(t)
  BY <1>1, <1>2, TakesShape, TakesQueue, TakesSources, TakesOnce, TakesFound
<1>4. Named(t, ask) /\ Agrees(t) /\ Deep(t, ask) /\ Broad(t, ask)
  BY <1>1, <1>2, TakesNamed, TakesDeep, TakesBroad
<1> QED
  BY <1>3, <1>4 DEF Searched

-----------------------------------------------------------------------------
(* What happens elsewhere *)

\* What has changed stays so, and an address that has not is labelled as it was.
Quiet ==
  /\ Len(changed) \in Nat /\ Len(changed') \in Nat /\ Len(changed) <= Len(changed')
  /\ \A j \in 1 .. Len(changed) : changed'[j] = changed[j]
  /\ \A x : (\A j \in 1 .. Len(changed') : changed'[j] # x) => FindLabel(x)' = FindLabel(x)

LEMMA QuietTrace ==
  ASSUME Quiet, NEW t, Agrees(t)
  PROVE  /\ \A x : Untouched(t, x)' => Untouched(t, x)
         /\ t.at # "done" => \A x : Untouched(t, x)' => FindLabel(x)' = FindLabel(x)
         /\ \A x : Endpoint(t, x)' <=> Endpoint(t, x)
         /\ Until(t)' \in 0 .. Len(changed') /\ Len(changed') \in Nat
<1>1. PICK m, n, u, v : m = Len(changed) /\ n = Len(changed') /\ u = Until(t) /\ v = Until(t)'
  OBVIOUS
<1>2. /\ m \in Nat /\ n \in Nat /\ m <= n /\ u \in 0 .. m
      /\ \A j \in 1 .. m : changed'[j] = changed[j]
      /\ \A x : (\A j \in 1 .. n : changed'[j] # x) => FindLabel(x)' = FindLabel(x)
  BY <1>1 DEF Quiet, Agrees
<1>3. v = (IF t.at = "done" THEN u ELSE n) /\ u <= v /\ v \in 0 .. n
  BY <1>1, <1>2 DEF Until
<1>4. ASSUME NEW x, Untouched(t, x)' PROVE Untouched(t, x)
  <2>1. \A j \in 1 .. v : changed'[j] # x
    BY <1>1, <1>4 DEF Untouched
  <2>2. \A j \in 1 .. u : j \in 1 .. v /\ j \in 1 .. m
    BY <1>2, <1>3
  <2> QED
    BY <1>1, <1>2, <2>1, <2>2 DEF Untouched
<1>5. ASSUME t.at # "done", NEW x, Untouched(t, x)' PROVE FindLabel(x)' = FindLabel(x)
  <2>1. \A j \in 1 .. n : changed'[j] # x
    BY <1>1, <1>3, <1>5 DEF Untouched
  <2> QED
    BY <1>2, <2>1
<1> QED
  BY <1>1, <1>2, <1>3, <1>4, <1>5 DEF Endpoint

LEMMA EdgesStay ==
  ASSUME scene' = scene, NEW t, NEW ask
  PROVE  Edges(t)' = Edges(t) /\ Destinations(t)' = Destinations(t) /\ \A x : Far(t, ask, x)' = Far(t, ask, x)
<1>1. Edges(t)' = Edges(t) /\ Destinations(t)' = Destinations(t)
  BY DEF Edges, Destinations, Rec
<1>2. \A x : Far(t, ask, x)' = Far(t, ask, x)
  BY DEF Far, Distance, Reach, Edges, Rec
<1> QED
  BY <1>1, <1>2

LEMMA EventsStay ==
  ASSUME NEW t
  PROVE  Confirmed(t)' = Confirmed(t) /\ Asked(t)' = Asked(t) /\ \A x : With(t, x)' = With(t, x)
BY DEF Confirmed, Asked, With

LEMMA SearchedStays ==
  ASSUME Explored, scene' = scene, known' \in known .. Len(scene.ledger), Quiet, NEW t, NEW ask \in Request, Searched(t, ask)
  PROVE  Searched(t, ask)'
<1>1. /\ Shape(t, ask) /\ Queue(t) /\ Sources(t) /\ Once(t, ask) /\ Found(t) /\ Named(t, ask)
      /\ Agrees(t) /\ Deep(t, ask) /\ Broad(t, ask)
  BY DEF Searched
<1>2. Destinations(t)' = Destinations(t) /\ \A x : Far(t, ask, x)' = Far(t, ask, x)
  BY EdgesStay
<1>3. Confirmed(t)' = Confirmed(t) /\ Asked(t)' = Asked(t) /\ \A x : With(t, x)' = With(t, x)
  BY EventsStay
<1>4. \A i : Rec(i)' = Rec(i)
  BY DEF Rec
<1>5. /\ \A x : Untouched(t, x)' => Untouched(t, x)
      /\ t.at # "done" => \A x : Untouched(t, x)' => FindLabel(x)' = FindLabel(x)
      /\ \A x : Endpoint(t, x)' <=> Endpoint(t, x)
      /\ Until(t)' \in 0 .. Len(changed') /\ Len(changed') \in Nat
  BY <1>1, QuietTrace
<1>14. Agrees(t)'
  BY <1>1, <1>2, <1>5 DEF Agrees
<1>6. Shape(t, ask)'
  BY <1>1 DEF Shape, Place, Candidate, Event
<1>7. Queue(t)'
  BY <1>1, <1>3 DEF Queue, Distinct, Has
<1>8. Sources(t)'
  BY <1>1, <1>3, <1>4 DEF Sources
<1>9. Once(t, ask)'
  <2>1. \A w : Overlaps(w, ask.limit) => Overlaps(w, ask.limit)'
    <3>1. ASSUME NEW w, Overlaps(w, ask.limit) PROVE Overlaps(w, ask.limit)'
      <4>1. /\ Cardinality(Listed(w)) <= Cardinality(Listed(w)')
            /\ Cardinality(Listed(w)) \in Nat /\ Cardinality(Listed(w)') \in Nat
        BY Grows
      <4>2. ask.limit \in Nat /\ PageCap \in Nat
        BY PagesAssumption DEF Request
      <4>3. Least(PageCap, ask.limit) \in Nat
        BY <4>2 DEF Least
      <4>4. Least(PageCap, ask.limit)' = Least(PageCap, ask.limit)
        BY DEF Least
      <4> QED
        BY <3>1, <4>1, <4>3, <4>4 DEF Overlaps
    <3> QED
      BY <3>1
  <2> QED
    BY <1>1, <1>4, <2>1 DEF Once
<1>10. Found(t)'
  BY <1>1, <1>4, <1>5 DEF Found
<1>11. Named(t, ask)'
  BY <1>1, <1>2, <1>5 DEF Named
<1>12. Deep(t, ask)'
  BY <1>1, <1>2 DEF Deep, Has
<1>13. Broad(t, ask)'
  BY <1>1, <1>2, <1>3, <1>5 DEF Broad, Has
<1> QED
  BY <1>6, <1>7, <1>8, <1>9, <1>10, <1>11, <1>12, <1>13, <1>14 DEF Searched

-----------------------------------------------------------------------------
(* The steps of a search *)

LEMMA Asks == ASSUME Explored, NEW c \in Tracing PROVE Ask(c) \in Request /\ Tracing \subseteq Caller
BY LegacyAssumption DEF Explored, World, Ask, Tracing

\* The trace of c becomes t.
Becomes(c, t) == Set(c, t) /\ Searched(t, Ask(c)) /\ t.at # "fetching"

LEMMA BecomesTurned ==
  ASSUME NEW c, NEW s, s = trace[c], Searched(s, Ask(c)), s.at # "taking",
         s.at # "done",
         NEW at \in {"query", "raised"}, Set(c, [s EXCEPT !.at = at])
  PROVE  \E t : Becomes(c, t)
<1>1. PICK t : t = [s EXCEPT !.at = at]
  OBVIOUS
<1>2. DOMAIN s = Fields
  BY DEF Searched, Shape
<1>3. DOMAIN t = Fields /\ t.at = at
  BY <1>1, <1>2 DEF Fields
<1>4. /\ t.frontier = s.frontier /\ t.pending = s.pending /\ t.events = s.events
      /\ Kept(t, s)
  BY <1>1, <1>2 DEF Fields, Kept, Until
<1>5. t.next = s.next
  BY <1>4 DEF Kept
<1>6. Searched(t, Ask(c))
  BY <1>3, <1>4, <1>5, SearchedTurn
<1> QED
  BY <1>1, <1>3, <1>6 DEF Becomes

LEMMA BecomesStartTrace ==
  ASSUME NEW c, Searched(trace[c], Ask(c)), StartTrace(c)
  PROVE  \E t : Becomes(c, t)
BY BecomesTurned DEF StartTrace

LEMMA BecomesSaveFails ==
  ASSUME NEW c, Searched(trace[c], Ask(c)), SaveFails(c)
  PROVE  \E t : Becomes(c, t)
BY BecomesTurned DEF SaveFails, SearchEnded, HopEnded

LEMMA BecomesConclude ==
  ASSUME NEW c, Ask(c) \in Request, Searched(trace[c], Ask(c)), Conclude(c)
  PROVE  \E t : Becomes(c, t)
<1>1. PICK s, ask : s = trace[c] /\ ask = Ask(c)
  OBVIOUS
<1>2. s.at = "query" /\ s.frontier = << >> /\ (s.next = << >> \/ s.hop = ask.hops) /\ Set(c, [s EXCEPT !.at = "done", !.upto = Len(changed)])
  BY <1>1 DEF Conclude, SearchEnded, HopEnded
<1>3. ask.hops \in Nat /\ s.hop \in 1 .. ask.hops /\ (s.next # << >> => s.hop < ask.hops)
  BY <1>1 DEF Searched, Shape, Request
<1>4. s.next = << >>
  BY <1>2, <1>3
<1>5. PICK t : t = [s EXCEPT !.at = "done", !.upto = Len(changed)]
  OBVIOUS
<1>6. DOMAIN s = Fields
  BY <1>1 DEF Searched, Shape
<1>7. DOMAIN t = Fields /\ t.at = "done"
  BY <1>5, <1>6 DEF Fields
<1>8. /\ t.frontier = s.frontier /\ t.pending = s.pending /\ t.events = s.events /\ t.next = s.next
      /\ Kept(t, s)
  BY <1>2, <1>5, <1>6 DEF Fields, Kept, Until
<1>9. Searched(t, ask)
  BY <1>1, <1>2, <1>4, <1>7, <1>8, SearchedTurn
<1> QED
  BY <1>1, <1>2, <1>5, <1>7, <1>9 DEF Becomes

LEMMA BecomesEndHop ==
  ASSUME Explored, NEW c, Ask(c) \in Request, Searched(trace[c], Ask(c)), EndHop(c)
  PROVE  \E t : Becomes(c, t)
<1>1. PICK s, t : s = trace[c] /\ t = [s EXCEPT !.hop = @ + 1, !.frontier = s.next, !.next = << >>]
  OBVIOUS
<1>2. DOMAIN s = Fields
  BY <1>1 DEF Searched, Shape
<1>3. s.at = "query" /\ s.frontier = << >> /\ s.next # << >> /\ Set(c, t)
  BY <1>1 DEF EndHop, SearchEnded, HopEnded
<1>4. /\ DOMAIN t = Fields /\ t.at = "query" /\ t.hop = s.hop + 1 /\ t.frontier = s.next /\ t.next = << >>
      /\ t.visited = s.visited /\ t.transfers = s.transfers /\ t.pending = s.pending /\ t.roles = s.roles
      /\ t.candidates = s.candidates /\ t.events = s.events /\ Until(t) = Until(s)
  BY <1>1, <1>2, <1>3 DEF Fields, Until
<1>5. Searched(t, Ask(c))
  <2>1. PICK ask : ask = Ask(c)
    OBVIOUS
  <2>2. ask \in Request /\ Searched(s, ask)
    BY <1>1, <2>1
  <2>3. Searched(t, ask)
    BY <1>3, <1>4, <2>2, SearchedDeeper
  <2> QED
    BY <2>1, <2>3
<1> QED
  BY <1>3, <1>4, <1>5 DEF Becomes

\* What is left of the frontier was not asked for yet.
Behind(s) ==
  /\ s.frontier \in Seq(Address) /\ Head(s.frontier) = s.frontier[1] /\ s.frontier[1] \in Address
  /\ Tail(s.frontier) \in Seq(Address) /\ Distinct(Tail(s.frontier)) /\ Has(s.frontier, s.frontier[1])
  /\ \A x : Has(Tail(s.frontier), x) => Has(s.frontier, x) /\ x \notin Asked(s) /\ x # s.frontier[1]
  /\ \A x : Has(s.frontier, x) => x = s.frontier[1] \/ Has(Tail(s.frontier), x)

LEMMA Unasked ==
  ASSUME NEW ask, NEW s, Searched(s, ask), s.frontier # << >>
  PROVE  Behind(s)
<1>1. s.frontier \in Seq(Address) /\ Queue(s)
  BY DEF Searched, Shape
<1>2. PICK q, r : q = s.frontier /\ r = Tail(s.frontier)
  OBVIOUS
<1>3. /\ r \in Seq(Address) /\ Head(q) = q[1] /\ q[1] \in Address /\ 1 \in DOMAIN q
      /\ \A k \in DOMAIN r : r[k] = q[k + 1] /\ k + 1 \in DOMAIN q /\ k + 1 # 1
      /\ \A x : Has(r, x) => Has(q, x)
      /\ \A x : Has(q, x) => x = q[1] \/ Has(r, x)
      /\ Distinct(q) => Distinct(r) /\ ~Has(r, q[1])
  BY <1>1, <1>2, Shorter
<1>4. Distinct(q) /\ \A k \in DOMAIN q : q[k] \in Asked(s) => k = 1
  BY <1>1, <1>2 DEF Queue
<1>5. ASSUME NEW x, Has(r, x) PROVE x \notin Asked(s) /\ x # q[1]
  <2>1. PICK k \in DOMAIN r : r[k] = x
    BY <1>5 DEF Has
  <2> QED
    BY <1>3, <1>4, <1>5, <2>1
<1>6. Has(q, q[1])
  BY <1>3 DEF Has
<1> QED
  BY <1>1, <1>2, <1>3, <1>4, <1>5, <1>6 DEF Behind

LEMMA BecomesEndWallet ==
  ASSUME NEW c, Searched(trace[c], Ask(c)), EndWallet(c)
  PROVE  \E t : Becomes(c, t)
<1>1. PICK s, t : s = trace[c] /\ t = [s EXCEPT !.at = "query", !.frontier = Tail(@)]
  OBVIOUS
<1>2. DOMAIN s = Fields /\ Shape(s, Ask(c)) /\ Sources(s)
  BY <1>1 DEF Searched, Shape
<1>3. s.at = "taking" /\ s.pending = << >> /\ Set(c, t)
  BY <1>1 DEF EndWallet
<1>4. /\ DOMAIN t = Fields /\ t.at = "query" /\ t.frontier = Tail(s.frontier)
      /\ t.pending = s.pending /\ t.events = s.events /\ Kept(t, s)
  BY <1>1, <1>2, <1>3 DEF Fields, Kept, Until
<1>5. s.frontier # << >> /\ s.frontier[1] \in Asked(s) /\ t.events \in Seq(Event)
  BY <1>2, <1>3, <1>4 DEF Shape, Sources, Asked
<1>6. Confirmed(t) = Confirmed(s) /\ Asked(t) = Asked(s) /\ \A x : With(t, x) = With(s, x)
  BY <1>4, SameEvents
<1>7. /\ t.frontier \in Seq(Address) /\ Distinct(t.frontier)
      /\ \A x : Has(t.frontier, x) => Has(s.frontier, x) /\ x \notin Asked(t)
      /\ \A x : Has(s.frontier, x) => x \in Asked(t) \/ Has(t.frontier, x)
  <2>1. Behind(s)
    BY <1>1, <1>5, Unasked
  <2> QED
    BY <1>4, <1>5, <1>6, <2>1 DEF Behind
<1>8. Searched(t, Ask(c))
  BY <1>1, <1>3, <1>4, <1>5, <1>6, <1>7, SearchedLeave
<1> QED
  BY <1>3, <1>4, <1>8 DEF Becomes

LEMMA BecomesPassedOver ==
  ASSUME NEW c, Searched(trace[c], Ask(c)), trace[c].at = "fetching", Set(c, PassedOver(trace[c]))
  PROVE  \E t : Becomes(c, t)
<1>1. PICK s, t, e : /\ s = trace[c] /\ e = [address |-> Head(s.frontier), status |-> "FAILED"]
                     /\ t = [s EXCEPT !.at = "query", !.frontier = Tail(@), !.events = Append(@, e)]
  OBVIOUS
<1>2. DOMAIN s = Fields /\ Shape(s, Ask(c))
  BY <1>1 DEF Searched, Shape
<1>3. s.frontier # << >> /\ s.pending = << >> /\ s.events \in Seq(Event)
  BY <1>1, <1>2 DEF Shape
<1>4. /\ DOMAIN t = Fields /\ t.at = "query" /\ t.frontier = Tail(s.frontier)
      /\ t.pending = s.pending /\ t.events = Append(s.events, e) /\ Kept(t, s)
  BY <1>1, <1>2 DEF Fields, Kept, Until
<1>5. e \in Event /\ e.address = s.frontier[1] /\ e.status = "FAILED"
  BY <1>1, <1>3, Unasked DEF Event, Behind
<1>6. t.events \in Seq(Event) /\ Adds(t, s, e)
  BY <1>3, <1>4, <1>5, Noted
<1>7. /\ With(t, "CONFIRMED") = With(s, "CONFIRMED") /\ With(t, "FAILED") = With(s, "FAILED") \cup {s.frontier[1]}
      /\ With(t, "LIMIT_REACHED") = With(s, "LIMIT_REACHED")
  BY <1>5, <1>6 DEF Adds
<1>8. Confirmed(t) = Confirmed(s) /\ Asked(t) = Asked(s) \cup {s.frontier[1]}
  BY <1>7 DEF Confirmed, Asked
<1>9. /\ t.frontier \in Seq(Address) /\ Distinct(t.frontier) /\ Has(s.frontier, s.frontier[1])
      /\ \A x : Has(t.frontier, x) => Has(s.frontier, x) /\ x \notin Asked(t)
      /\ \A x : Has(s.frontier, x) => x \in Asked(t) \/ Has(t.frontier, x)
  <2>1. Behind(s)
    BY <1>1, <1>3, Unasked
  <2> QED
    BY <1>4, <1>8, <2>1 DEF Behind
<1>10. Searched(t, Ask(c))
  <2>1. PICK ask : ask = Ask(c)
    OBVIOUS
  <2>2. (\A x \in Asked(t) : x \in Asked(s) \/ Has(s.frontier, x)) /\ Asked(s) \subseteq Asked(t)
    BY <1>8, <1>9
  <2>3. With(t, "LIMIT_REACHED") = {} =>
          With(s, "LIMIT_REACHED") = {} /\ \A x : Has(s.frontier, x) => x \in Asked(t) \/ Has(t.frontier, x)
    BY <1>7, <1>9
  <2>4. Searched(s, ask) /\ s.pending = << >> /\ t.pending = << >> /\ Confirmed(t) = Confirmed(s)
    BY <1>1, <1>3, <1>4, <1>8, <2>1
  <2>5. Searched(t, ask)
    BY <1>4, <1>6, <1>9, <2>2, <2>3, <2>4, SearchedLeave
  <2> QED
    BY <2>1, <2>5
<1>11. Set(c, t)
  BY <1>1 DEF PassedOver
<1> QED
  BY <1>4, <1>10, <1>11 DEF Becomes

LEMMA BecomesQueryFails ==
  ASSUME NEW c, Searched(trace[c], Ask(c)), QueryFails(c)
  PROVE  \E t : Becomes(c, t)
<1>1. PICK s : s = trace[c]
  OBVIOUS
<1>2. s.at = "fetching" /\ (Set(c, [s EXCEPT !.at = "raised"]) \/ Set(c, PassedOver(s)))
  BY <1>1 DEF QueryFails
<1>3. CASE Set(c, [s EXCEPT !.at = "raised"])
  BY <1>1, <1>2, <1>3, BecomesTurned
<1>4. CASE Set(c, PassedOver(s))
  BY <1>1, <1>2, <1>4, BecomesPassedOver
<1> QED
  BY <1>2, <1>3, <1>4

LEMMA BecomesBreakOff ==
  ASSUME NEW c, Searched(trace[c], Ask(c)), BreakOff(c)
  PROVE  \E t : Becomes(c, t)
<1>1. PICK s, t, e : /\ s = trace[c] /\ e = [address |-> Head(s.frontier), status |-> "LIMIT_REACHED"]
                     /\ t = [s EXCEPT !.frontier = << >>, !.events = Append(@, e)]
  OBVIOUS
<1>2. DOMAIN s = Fields /\ Shape(s, Ask(c)) /\ Queue(s)
  BY <1>1 DEF Searched, Shape
<1>3. s.at = "query" /\ s.frontier # << >> /\ Set(c, t)
  BY <1>1 DEF BreakOff
<1>4. s.pending = << >> /\ s.events \in Seq(Event)
  BY <1>2, <1>3 DEF Shape
<1>5. /\ DOMAIN t = Fields /\ t.at = "query" /\ t.frontier = << >>
      /\ t.pending = s.pending /\ t.events = Append(s.events, e) /\ Kept(t, s)
  BY <1>1, <1>2, <1>3 DEF Fields, Kept, Until
<1>6. e \in Event /\ e.status = "LIMIT_REACHED"
  BY <1>1, <1>3, Unasked DEF Event, Behind
<1>7. t.events \in Seq(Event) /\ Adds(t, s, e)
  BY <1>4, <1>5, <1>6, Noted
<1>8. /\ With(t, "CONFIRMED") = With(s, "CONFIRMED") /\ With(t, "FAILED") = With(s, "FAILED")
      /\ With(t, "LIMIT_REACHED") # {}
  BY <1>6, <1>7 DEF Adds
<1>9. Confirmed(t) = Confirmed(s) /\ Asked(t) = Asked(s)
  BY <1>8 DEF Confirmed, Asked
<1>10. t.frontier \in Seq(Address) /\ Distinct(t.frontier) /\ \A x : ~Has(t.frontier, x)
  BY <1>5 DEF Distinct, Has
<1>11. Searched(t, Ask(c))
  BY <1>1, <1>4, <1>5, <1>7, <1>8, <1>9, <1>10, SearchedLeave
<1> QED
  BY <1>3, <1>5, <1>11 DEF Becomes

LEMMA BecomesQueryReturns ==
  ASSUME Explored, NEW c, Searched(trace[c], Ask(c)), Fetching(trace[c], Ask(c), fetch[c]), QueryReturns(c)
  PROVE  \E t : Becomes(c, t)
<1>1. PICK s, f, w : s = trace[c] /\ f = fetch[c] /\ w = s.frontier[1]
  OBVIOUS
<1>2. PICK got, S : got = f.got /\ S = {k \in DOMAIN got : InsideWindow(c, got[k])}
  OBVIOUS
<1>3. DOMAIN s = Fields /\ Shape(s, Ask(c)) /\ s.at = "fetching" /\ f.at = "done"
  BY <1>1 DEF Searched, Shape, QueryReturns
<1>4. s.frontier # << >> /\ Head(s.frontier) = w
  BY <1>1, <1>3, Unasked DEF Shape, Behind
<1>5. Gathered(w, Ask(c).limit, got)
  <2>1. Collecting(f, w, Ask(c).limit)
    BY <1>1, <1>3 DEF Fetching
  <2>2. f # [at |-> "raised"] /\ ~Underway(f, w, Ask(c).limit)
    BY <1>3 DEF Underway, Part
  <2> QED
    BY <1>2, <2>1, <2>2 DEF Collecting, Holds
<1>6. PICK t : t = [s EXCEPT !.at = "taking", !.pending = At(got, S),
                            !.events = Append(@, [address |-> w, status |-> "CONFIRMED"])]
  OBVIOUS
<1>7. Set(c, t)
  BY <1>1, <1>2, <1>4, <1>6 DEF QueryReturns
<1>8. /\ DOMAIN t = Fields /\ t.at = "taking" /\ t.frontier = s.frontier /\ t.pending = At(got, S)
      /\ t.events = Append(s.events, [address |-> w, status |-> "CONFIRMED"]) /\ Kept(t, s)
  BY <1>3, <1>6 DEF Fields, Kept, Until
<1>9. S \in SUBSET DOMAIN got
  BY <1>2
<1>10. Searched(t, Ask(c))
  BY <1>1, <1>3, <1>5, <1>8, <1>9, SearchedAnswered
<1> QED
  BY <1>7, <1>8, <1>10 DEF Becomes

LEMMA BecomesTakeTransfer ==
  ASSUME Explored, NEW c, Ask(c) \in Request, Searched(trace[c], Ask(c)), TakeTransfer(c)
  PROVE  \E t : Becomes(c, t)
<1> DEFINE s == trace[c]
           ask == Ask(c)
           i == Head(s.pending)
           w == s.frontier[1]
           a == Rec(i).destination
           kind == FindLabel(a)
           n == Len(s.transfers) + 1
           taken == [s EXCEPT !.pending = Tail(@), !.transfers = Append(@, i)]
           paid == [taken EXCEPT
                      !.roles = [x \in DOMAIN @ \cup {a} |-> IF x = a THEN "vasp" ELSE @[x]],
                      !.candidates = Append(@, [address |-> a, hop |-> s.hop, place |-> n])]
           seen == [taken EXCEPT
                      !.roles = [x \in DOMAIN @ \cup {a} |-> IF x \in DOMAIN @ THEN @[x]
                                                             ELSE IF kind = "none" THEN "observed" ELSE kind],
                      !.visited = IF Enters(s, c, a) THEN @ \cup {a} ELSE @,
                      !.next = IF Enters(s, c, a) THEN Append(@, a) ELSE @]
           t == IF kind = "vasp" THEN paid ELSE seen
<1>1. Set(c, t) /\ s.at = "taking" /\ s.pending # << >>
  BY DEF TakeTransfer
<1>2. Searched(s, ask) /\ Shape(s, ask) /\ Sources(s) /\ DOMAIN s = Fields
  BY DEF Searched, Shape
<1>3. i = s.pending[1] /\ w = Rec(i).source
  <2>1. s.pending \in Seq(Place)
    BY <1>2 DEF Shape
  <2>2. Head(s.pending) = s.pending[1] /\ 1 \in DOMAIN s.pending
    BY <1>1, <2>1
  <2> QED
    BY <1>1, <1>2, <2>2 DEF Sources
<1>4. a = Rec(i).destination /\ kind = FindLabel(a) /\ n = Len(s.transfers) + 1 /\ w = s.frontier[1]
  OBVIOUS
<1> HIDE DEF i, w, a, kind, n
<1>10. DOMAIN taken = Fields /\ taken.at = "taking" /\ taken.hop = s.hop /\ taken.frontier = s.frontier
       /\ taken.events = s.events /\ taken.pending = Tail(s.pending) /\ taken.transfers = Append(s.transfers, i)
       /\ taken.roles = s.roles /\ taken.visited = s.visited /\ taken.next = s.next /\ taken.candidates = s.candidates
  BY <1>1, <1>2 DEF Fields
<1> HIDE DEF taken
<1>11. /\ DOMAIN paid = Fields /\ paid.at = "taking" /\ paid.hop = s.hop /\ paid.frontier = s.frontier
       /\ paid.events = s.events /\ paid.pending = Tail(s.pending) /\ paid.transfers = Append(s.transfers, i)
       /\ paid.visited = s.visited /\ paid.next = s.next
       /\ paid.candidates = Append(s.candidates, [address |-> a, hop |-> s.hop, place |-> n])
       /\ paid.roles = [x \in DOMAIN s.roles \cup {a} |-> IF x = a THEN "vasp" ELSE s.roles[x]]
  BY <1>10 DEF Fields
<1>12. /\ DOMAIN seen = Fields /\ seen.at = "taking" /\ seen.hop = s.hop /\ seen.frontier = s.frontier
       /\ seen.events = s.events /\ seen.pending = Tail(s.pending) /\ seen.transfers = Append(s.transfers, i)
       /\ seen.candidates = s.candidates
       /\ seen.visited = (IF Enters(s, c, a) THEN s.visited \cup {a} ELSE s.visited)
       /\ seen.next = (IF Enters(s, c, a) THEN Append(s.next, a) ELSE s.next)
       /\ seen.roles = [x \in DOMAIN s.roles \cup {a} |-> IF x \in DOMAIN s.roles THEN s.roles[x]
                                                          ELSE IF kind = "none" THEN "observed" ELSE kind]
  BY <1>10 DEF Fields
<1> HIDE DEF paid, seen
<1>13. Takes(t, s, ask, i, w, a)
  <2>1. CASE kind = "vasp"
    <3>1. t = paid
      BY <2>1
    <3>2. DOMAIN t.roles = DOMAIN s.roles \cup {a} /\ t.roles[a] = "vasp"
          /\ \A x \in DOMAIN s.roles : x # a => t.roles[x] = s.roles[x]
      BY <1>11, <3>1
    <3> HIDE DEF t, s, ask
    <3> QED
      BY <1>1, <1>3, <1>4, <1>11, <2>1, <3>1, <3>2 DEF Takes
  <2>2. CASE kind # "vasp"
    <3>1. t = seen
      BY <2>2
    <3>2. /\ DOMAIN t.roles = DOMAIN s.roles \cup {a} /\ \A x \in DOMAIN s.roles : t.roles[x] = s.roles[x]
          /\ a \notin DOMAIN s.roles => t.roles[a] # "vasp"
      BY <1>12, <2>2, <3>1
    <3>3. Enters(s, c, a) <=> a \notin s.visited /\ s.hop < ask.hops
      BY DEF Enters
    <3>4. \/ a \notin s.visited /\ s.hop < ask.hops /\ t.visited = s.visited \cup {a} /\ t.next = Append(s.next, a)
          \/ (a \in s.visited \/ ~(s.hop < ask.hops)) /\ t.visited = s.visited /\ t.next = s.next
      BY <1>12, <3>1, <3>3
    <3> HIDE DEF t, s, ask
    <3> QED
      BY <1>1, <1>3, <1>4, <1>12, <2>2, <3>1, <3>2, <3>4 DEF Takes
  <2> QED
    BY <2>1, <2>2
<1> HIDE DEF t
<1>14. Searched(t, ask)
  BY <1>2, <1>13, SearchedTake
<1>15. t.at # "fetching"
  BY <1>13 DEF Takes
<1> QED
  BY <1>1, <1>14, <1>15 DEF Becomes

LEMMA BecomesQueryWallet ==
  ASSUME NEW c, Searched(trace[c], Ask(c)), QueryWallet(c)
  PROVE  \E t : Set(c, t) /\ Searched(t, Ask(c)) /\ t.frontier = trace[c].frontier
                /\ Head(trace[c].frontier) = t.frontier[1] /\ t.frontier[1] \in Address
<1>1. PICK s, t : s = trace[c] /\ t = [s EXCEPT !.at = "fetching", !.queried = @ + 1]
  OBVIOUS
<1>2. DOMAIN s = Fields
  BY <1>1 DEF Searched, Shape
<1>3. s.at = "query" /\ s.frontier # << >> /\ Set(c, t)
  BY <1>1 DEF QueryWallet
<1>4. DOMAIN t = Fields /\ t.at = "fetching" /\ t.frontier = s.frontier /\ t.pending = s.pending /\ t.events = s.events
      /\ Kept(t, s)
  BY <1>1, <1>2, <1>3 DEF Fields, Kept, Until
<1>5. Searched(t, Ask(c))
  BY <1>1, <1>3, <1>4, SearchedTurn
<1>6. Behind(s)
  BY <1>1, <1>3, Unasked
<1> QED
  BY <1>1, <1>3, <1>4, <1>5, <1>6 DEF Behind

-----------------------------------------------------------------------------
(* The invariant of the searches *)

LEMMA QuietHere == ASSUME Searches, UNCHANGED <<labels, changed>> PROVE Quiet
<1>1. Len(changed) \in Nat
  BY DEF Searches, IsSequence
<1>2. \A x : FindLabel(x)' = FindLabel(x)
  BY DEF FindLabel, Newest, Approved
<1> QED
  BY <1>1, <1>2 DEF Quiet

\* One trace changes, and its collection.
LEMMA SearchesStep ==
  ASSUME Explored, Searches, scene' = scene, known' \in known .. Len(scene.ledger), UNCHANGED <<labels, changed>>,
         NEW c \in Tracing, NEW t, Set(c, t), Searched(t, Ask(c)),
         NEW g, fetch'[c] = g, \A d \in Caller \ {c} : fetch'[d] = fetch[d], Fetching(t, Ask(c), g)
  PROVE  Searches'
<1>1. Tracing \subseteq Caller /\ \A d \in Tracing : Ask(d) \in Request
  BY Asks
<1>2. Tracing' = Tracing /\ \A d : Ask(d)' = Ask(d)
  BY DEF Tracing, Ask
<1>3. DOMAIN trace = Caller
  BY DEF Searches
<1>4. DOMAIN trace' = Caller /\ trace'[c] = t /\ \A d \in Caller \ {c} : trace'[d] = trace[d]
  BY <1>1, <1>3 DEF Set
<1>5. Quiet
  BY QuietHere
<1>6. ASSUME NEW u, NEW ask \in Request, Searched(u, ask) PROVE Searched(u, ask)'
  BY <1>5, <1>6, SearchedStays
<1>7. ASSUME NEW u, NEW ask \in Request, NEW f, Fetching(u, ask, f) PROVE Fetching(u, ask, f)'
  <2>1. ask.limit \in Limits
    BY DEF Request, Limits
  <2>2. u.at = "fetching" => Collecting(f, u.frontier[1], ask.limit)'
    BY <1>7, <2>1, StaysCollecting DEF Fetching
  <2> QED
    BY <2>2 DEF Fetching
<1>8. ASSUME NEW d \in Tracing PROVE Searched(trace[d], Ask(d))' /\ Fetching(trace[d], Ask(d), fetch[d])'
  <2>1. PICK u, ask, f : u = trace'[d] /\ ask = Ask(d) /\ f = fetch'[d]
    OBVIOUS
  <2>2. Searched(u, ask) /\ Fetching(u, ask, f) /\ ask \in Request
    <3>1. CASE d = c
      BY <1>1, <1>4, <2>1, <3>1
    <3>2. CASE d # c
      <4>1. u = trace[d] /\ f = fetch[d] /\ ask \in Request
        BY <1>1, <1>4, <2>1, <3>2
      <4> QED
        BY <2>1, <4>1 DEF Searches
    <3> QED
      BY <3>1, <3>2
  <2>3. Searched(u, ask)' /\ Fetching(u, ask, f)'
    BY <1>6, <1>7, <2>2
  <2> QED
    BY <1>2, <2>1, <2>3
<1>9. IsSequence(changed)'
  BY DEF Searches
<1> QED
  BY <1>2, <1>4, <1>8, <1>9 DEF Searches

\* No trace changes, but what the explorer knows, a collection or the labels may.
LEMMA SearchesElsewhere ==
  ASSUME Explored, Searches, scene' = scene, known' \in known .. Len(scene.ledger), Quiet,
         UNCHANGED trace, IsSequence(changed)',
         \A d \in Tracing : Fetching(trace[d], Ask(d), fetch'[d])
  PROVE  Searches'
<1>1. \A d \in Tracing : Ask(d) \in Request
  BY Asks
<1>2. Tracing' = Tracing /\ \A d : Ask(d)' = Ask(d)
  BY DEF Tracing, Ask
<1>3. ASSUME NEW u, NEW ask \in Request, Searched(u, ask) PROVE Searched(u, ask)'
  BY <1>3, SearchedStays
<1>4. ASSUME NEW u, NEW ask \in Request, NEW f, Fetching(u, ask, f) PROVE Fetching(u, ask, f)'
  <2>1. ask.limit \in Limits
    BY DEF Request, Limits
  <2>2. u.at = "fetching" => Collecting(f, u.frontier[1], ask.limit)'
    BY <1>4, <2>1, StaysCollecting DEF Fetching
  <2> QED
    BY <2>2 DEF Fetching
<1>5. ASSUME NEW d \in Tracing PROVE Searched(trace[d], Ask(d))' /\ Fetching(trace[d], Ask(d), fetch[d])'
  <2>1. PICK u, ask, f : u = trace[d] /\ ask = Ask(d) /\ f = fetch'[d]
    OBVIOUS
  <2>2. Searched(u, ask) /\ Fetching(u, ask, f) /\ ask \in Request
    BY <1>1, <2>1 DEF Searches
  <2>3. Searched(u, ask)' /\ Fetching(u, ask, f)'
    BY <1>3, <1>4, <2>2
  <2> QED
    BY <1>2, <2>1, <2>3
<1> QED
  BY <1>2, <1>5 DEF Searches

\* What a trace step that touches no collection leaves alone.
Aside == UNCHANGED <<scene, known, fetch, cache, labels, changed>>

LEMMA FoundAside ==
  ASSUME Collections, Searches, Aside, NEW c \in Tracing, \E t : Becomes(c, t)
  PROVE  Collections' /\ Searches'
<1>1. Explored /\ Tracing \subseteq Caller
  BY Asks DEF Collections
<1>2. PICK t : Becomes(c, t)
  OBVIOUS
<1>3. PICK g : g = fetch[c]
  OBVIOUS
<1>4. scene' = scene /\ known' = known /\ fetch' = fetch /\ cache' = cache /\ UNCHANGED <<labels, changed>>
  BY DEF Aside
<1>5. known' \in known .. Len(scene.ledger)
  BY <1>1, <1>4, KnownStays
<1>6. Set(c, t) /\ Searched(t, Ask(c)) /\ Fetching(t, Ask(c), g)
  BY <1>2 DEF Becomes, Fetching
<1>7. fetch'[c] = g /\ \A d \in Caller \ {c} : fetch'[d] = fetch[d]
  BY <1>3, <1>4
<1>8. Searches'
  BY <1>1, <1>4, <1>5, <1>6, <1>7, SearchesStep
<1>9. Collections'
  <2>1. ASSUME NEW h, Collects(h) PROVE Collects(h)'
    BY <1>1, <1>4, <1>5, <2>1, StaysCollects
  <2>2. ASSUME NEW entries, Cached(entries) PROVE Cached(entries)'
    BY <1>1, <1>4, <1>5, <2>2, StaysCached
  <2> QED
    BY <1>4, <2>1, <2>2 DEF Collections, Explored, World
<1> QED
  BY <1>8, <1>9

LEMMA FoundTaken ==
  ASSUME Collections, Searches, NEW c \in Tracing, \E t : Becomes(c, t),
         fetch' = [fetch EXCEPT ![c] = NoFetch], UNCHANGED <<scene, known, cache, labels, changed>>
  PROVE  Collections' /\ Searches'
<1>1. Explored /\ Tracing \subseteq Caller /\ DOMAIN fetch = Caller
  BY Asks DEF Collections
<1>2. PICK t : Becomes(c, t)
  OBVIOUS
<1>3. PICK g : g = NoFetch
  OBVIOUS
<1>4. known' \in known .. Len(scene.ledger)
  BY <1>1, KnownStays
<1>5. Set(c, t) /\ Searched(t, Ask(c)) /\ Fetching(t, Ask(c), g)
  BY <1>2 DEF Becomes, Fetching
<1>6. fetch'[c] = g /\ \A d \in Caller \ {c} : fetch'[d] = fetch[d]
  BY <1>1, <1>3
<1>7. Searches'
  BY <1>1, <1>4, <1>5, <1>6, SearchesStep
<1>8. Collections'
  BY <1>1, CollectionsTaken
<1> QED
  BY <1>7, <1>8

LEMMA FoundQueryWallet ==
  ASSUME Collections, Searches, NEW c \in Tracing, QueryWallet(c)
  PROVE  Collections' /\ Searches'
<1>1. Explored /\ Tracing \subseteq Caller /\ DOMAIN fetch = Caller /\ Cached(cache) /\ Ask(c) \in Request
  BY Asks DEF Collections
<1>2. Searched(trace[c], Ask(c))
  BY DEF Searches
<1>3. PICK t : Set(c, t) /\ Searched(t, Ask(c)) /\ t.frontier = trace[c].frontier
               /\ Head(trace[c].frontier) = t.frontier[1] /\ t.frontier[1] \in Address
  BY <1>2, BecomesQueryWallet
<1>4. PICK w, limit : w = t.frontier[1] /\ limit = Ask(c).limit
  OBVIOUS
<1>5. w \in Address /\ limit \in Limits /\ Retrieve(c, w, limit)
  BY <1>1, <1>3, <1>4 DEF QueryWallet, Request, Limits
<1>6. PICK g : fetch' = [fetch EXCEPT ![c] = g] /\ Collecting(g, w, limit)
  BY <1>1, <1>5, RetrieveCollects
<1>7. scene' = scene /\ known' \in known .. Len(scene.ledger) /\ UNCHANGED <<labels, changed>>
  BY <1>1, <1>5, KnownStays DEF Retrieve, QueryWallet
<1>8. fetch'[c] = g /\ \A d \in Caller \ {c} : fetch'[d] = fetch[d]
  BY <1>1, <1>6
<1>9. Fetching(t, Ask(c), g)
  BY <1>4, <1>6 DEF Fetching
<1>10. Searches'
  BY <1>1, <1>3, <1>7, <1>8, <1>9, SearchesStep
<1>11. Collections'
  BY <1>1, <1>5, CollectionsRetrieve
<1> QED
  BY <1>10, <1>11

LEMMA FoundTraceStep ==
  ASSUME Collections, Searches, NEW c \in Tracing, TraceStep(c)
  PROVE  Collections' /\ Searches'
<1>1. /\ Explored /\ Ask(c) \in Request /\ Searched(trace[c], Ask(c)) /\ Fetching(trace[c], Ask(c), fetch[c])
  BY Asks DEF Collections, Searches
<1>2. CASE StartTrace(c) \/ EndHop(c) \/ Conclude(c) \/ SaveFails(c) \/ BreakOff(c) \/ TakeTransfer(c) \/ EndWallet(c)
  <2>1. \E t : Becomes(c, t)
    BY <1>1, <1>2, BecomesStartTrace, BecomesEndHop, BecomesConclude, BecomesSaveFails, BecomesBreakOff,
       BecomesTakeTransfer, BecomesEndWallet
  <2>2. Aside
    BY <1>2 DEF StartTrace, EndHop, Conclude, SaveFails, BreakOff, TakeTransfer, EndWallet, pageVars, Aside
  <2> QED
    BY <2>1, <2>2, FoundAside
<1>3. CASE QueryFails(c) \/ QueryReturns(c)
  <2>1. \E t : Becomes(c, t)
    BY <1>1, <1>3, BecomesQueryFails, BecomesQueryReturns
  <2>2. fetch' = [fetch EXCEPT ![c] = NoFetch] /\ UNCHANGED <<scene, known, cache, labels, changed>>
    BY <1>3 DEF QueryFails, QueryReturns
  <2> QED
    BY <2>1, <2>2, FoundTaken
<1>4. CASE QueryWallet(c)
  BY <1>4, FoundQueryWallet
<1> QED
  BY <1>2, <1>3, <1>4 DEF TraceStep

LEMMA FoundFetch ==
  ASSUME Collections, Searches, NEW c \in Tracing, FetchOf(c)
  PROVE  Collections' /\ Searches'
<1>1. /\ Explored /\ Tracing \subseteq Caller /\ DOMAIN fetch = Caller /\ Collects(fetch[c])
      /\ \A d \in Tracing : Ask(d) \in Request
  BY Asks DEF Collections
<1>2. FetchStep(c) /\ UNCHANGED <<labels, changed, trace>>
  BY DEF FetchOf
<1>3. PICK w \in Address, limit \in Limits : Collecting(fetch[c], w, limit)
  BY <1>1, <1>2, NoFetchStays DEF Collects
<1>4. Moves(c, w, limit)
  BY <1>1, <1>2, <1>3, FetchMoves
<1>5. scene' = scene /\ known' \in known .. Len(scene.ledger) /\ \A d \in Caller \ {c} : fetch'[d] = fetch[d]
  BY <1>1, <1>4, KnownStays DEF Moves
<1>6. ASSUME NEW d \in Tracing PROVE Fetching(trace[d], Ask(d), fetch'[d])
  <2>1. Fetching(trace[d], Ask(d), fetch[d])
    BY DEF Searches
  <2>2. CASE d # c
    BY <1>1, <1>5, <2>1, <2>2
  <2>3. CASE d = c /\ trace[d].at = "fetching"
    <3>1. PICK v, m : v = trace[c].frontier[1] /\ m = Ask(c).limit
      OBVIOUS
    <3>2. Collecting(fetch[c], v, m) /\ m \in Limits
      BY <1>1, <2>1, <2>3, <3>1 DEF Fetching, Request, Limits
    <3>3. Moves(c, v, m)
      BY <1>1, <1>2, <3>2, FetchMoves
    <3>4. PICK g : fetch' = [fetch EXCEPT ![c] = g] /\ Collecting(g, v, m)
      BY <3>3 DEF Moves
    <3>5. fetch'[c] = g
      BY <1>1, <3>4
    <3> QED
      BY <2>3, <3>1, <3>4, <3>5 DEF Fetching
  <2>4. CASE trace[d].at # "fetching"
    BY <2>4 DEF Fetching
  <2> QED
    BY <2>2, <2>3, <2>4
<1>7. IsSequence(changed)'
  BY <1>2 DEF Searches
<1>8. Searches'
  BY <1>1, <1>2, <1>5, <1>6, <1>7, QuietHere, SearchesElsewhere
<1>9. Collections'
  BY <1>1, <1>2, CollectionsFetch
<1> QED
  BY <1>8, <1>9

\* Time passes, or the explorer comes to know more.
LEMMA FoundElsewhere ==
  ASSUME Collections, Searches, TimePasses \/ Confirms
  PROVE  Collections' /\ Searches'
<1>1. Explored
  BY DEF Collections
<1>2. UNCHANGED <<labels, changed, trace, scene, fetch>>
  BY DEF TimePasses, Confirms, Tick, Confirm
<1>3. known' \in known .. Len(scene.ledger)
  <2>1. CASE TimePasses
    BY <1>1, <2>1, KnownStays DEF TimePasses, Tick
  <2>2. CASE Confirms
    <3>1. known \in Nat /\ Len(scene.ledger) \in Nat
      BY <1>1, Ledger
    <3> QED
      BY <2>2, <3>1 DEF Confirms, Confirm
  <2> QED
    BY <2>1, <2>2
<1>4. \A d \in Tracing : Fetching(trace[d], Ask(d), fetch'[d])
  BY <1>2 DEF Searches
<1>5. IsSequence(changed)'
  BY <1>2 DEF Searches
<1>6. Searches'
  BY <1>1, <1>2, <1>3, <1>4, <1>5, QuietHere, SearchesElsewhere
<1>7. Collections'
  BY CollectionsTick, CollectionsConfirm DEF TimePasses, Confirms
<1> QED
  BY <1>6, <1>7

LEMMA FoundStays ==
  ASSUME Collections, Searches, UNCHANGED pageVars, UNCHANGED trace, Quiet, IsSequence(changed)'
  PROVE  Collections' /\ Searches'
<1>1. Explored /\ scene' = scene /\ known' = known /\ fetch' = fetch /\ cache' = cache
  BY DEF Collections, pageVars
<1>2. known' \in known .. Len(scene.ledger)
  BY <1>1, KnownStays
<1>3. \A d \in Tracing : Fetching(trace[d], Ask(d), fetch'[d])
  BY <1>1 DEF Searches
<1>4. Searches'
  BY <1>1, <1>2, <1>3, SearchesElsewhere
<1>5. Collections'
  <2>1. ASSUME NEW h, Collects(h) PROVE Collects(h)'
    BY <1>1, <1>2, <2>1, StaysCollects
  <2>2. ASSUME NEW entries, Cached(entries) PROVE Cached(entries)'
    BY <1>1, <1>2, <2>2, StaysCached
  <2> QED
    BY <1>1, <2>1, <2>2 DEF Collections, Explored, World
<1> QED
  BY <1>4, <1>5

LEMMA FoundChange ==
  ASSUME Collections, Searches, LabelsChange
  PROVE  Collections' /\ Searches'
<1>1. PICK a, new : ChangeLabels(a, new)
  BY DEF LabelsChange, LabelExpires, ReviewLabel, AddLabel
<1>2. /\ labels' = [x \in DOMAIN labels \cup {a} |-> IF x = a THEN new ELSE labels[x]]
      /\ changed' = Append(changed, a) /\ UNCHANGED pageVars /\ UNCHANGED trace
  BY <1>1 DEF ChangeLabels
<1>3. PICK q, r, n : q = changed /\ r = changed' /\ n = Len(changed)
  OBVIOUS
<1>4. /\ IsSequence(r) /\ n \in Nat /\ DOMAIN r = 1 .. n + 1 /\ r[n + 1] = a
      /\ \A k \in 1 .. n : r[k] = q[k]
  <2>1. IsSequence(q) /\ Grown(q, a, r)
    BY <1>2, <1>3 DEF Searches, Grown
  <2> QED
    BY <1>3, <2>1, Appended
<1>5. Len(r) = n + 1
  BY <1>4 DEF IsSequence
<1>6. ASSUME NEW x, x # a PROVE FindLabel(x)' = FindLabel(x)
  <2>1. x \in DOMAIN labels <=> x \in DOMAIN labels'
    BY <1>2, <1>6
  <2>2. CASE x \in DOMAIN labels
    <3>1. labels'[x] = labels[x]
      BY <1>2, <1>6, <2>2
    <3> QED
      BY <2>1, <3>1 DEF FindLabel, Newest, Approved
  <2>3. CASE x \notin DOMAIN labels
    BY <2>1, <2>3 DEF FindLabel
  <2> QED
    BY <2>2, <2>3
<1>7. Quiet
  <2>1. n + 1 \in Nat /\ n <= n + 1 /\ n + 1 \in 1 .. n + 1
    BY <1>4
  <2>2. ASSUME NEW x, \A j \in 1 .. n + 1 : r[j] # x PROVE FindLabel(x)' = FindLabel(x)
    BY <1>4, <1>6, <2>1, <2>2
  <2> QED
    BY <1>3, <1>4, <1>5, <2>1, <2>2 DEF Quiet
<1>8. IsSequence(changed)'
  BY <1>3, <1>4 DEF IsSequence, ElementsOf
<1> QED
  BY <1>2, <1>7, <1>8, FoundStays

LEMMA FoundNext == ASSUME Collections, Searches, [Next]_traceVars PROVE Collections' /\ Searches'
<1>1. CASE UNCHANGED traceVars
  <2>1. UNCHANGED pageVars /\ UNCHANGED trace /\ UNCHANGED <<labels, changed>>
    BY <1>1 DEF traceVars
  <2>2. IsSequence(changed)'
    BY <2>1 DEF Searches
  <2> QED
    BY <2>1, <2>2, QuietHere, FoundStays
<1> QED
  BY <1>1, FoundTraceStep, FoundFetch, FoundElsewhere, FoundChange DEF Next

\* A search that has not begun.
Fresh(ask) ==
  [at |-> "QUEUED", hop |-> 1, frontier |-> <<ask.root>>, next |-> << >>,
   visited |-> {ask.root}, queried |-> 0, transfers |-> << >>, pending |-> << >>,
   roles |-> [a \in {ask.root} |-> "suspect"], candidates |-> << >>, events |-> << >>, upto |-> 0]

LEMMA FreshSearched ==
  ASSUME Explored, Len(changed) \in Nat, NEW ask \in Request
  PROVE  Searched(Fresh(ask), ask) /\ Fetching(Fresh(ask), ask, NoFetch)
<1>1. PICK t, root : t = Fresh(ask) /\ root = ask.root
  OBVIOUS
<1>2. /\ DOMAIN t = Fields /\ t.at = "QUEUED" /\ t.hop = 1 /\ t.frontier = <<root>> /\ t.next = << >>
      /\ t.visited = {root} /\ t.transfers = << >> /\ t.pending = << >> /\ t.candidates = << >> /\ t.events = << >>
      /\ DOMAIN t.roles = {root} /\ t.roles[root] = "suspect"
  BY <1>1 DEF Fresh, Fields
<1>3. root \in Address /\ ask.hops \in Nat \ {0}
  BY <1>1 DEF Request
<1>4. DOMAIN t.transfers = {} /\ DOMAIN t.events = {} /\ DOMAIN t.next = {} /\ DOMAIN t.candidates = {}
      /\ DOMAIN t.pending = {} /\ DOMAIN t.frontier = {1} /\ t.frontier[1] = root
  BY <1>2
<1>5. /\ \A x : ~Has(t.next, x)
      /\ \A x : Has(t.frontier, x) <=> x = root
  BY <1>4 DEF Has
<1>6. (\A x : With(t, x) = {}) /\ Confirmed(t) = {} /\ Asked(t) = {}
  BY <1>4 DEF With, Confirmed, Asked
<1>7. Edges(t) = {} /\ Destinations(t) = {}
  BY <1>4 DEF Edges, Destinations
<1>8. Far(t, ask, root) = 0 /\ Cardinality(Address) \in Nat /\ \A x : Far(t, ask, x) \in Nat /\ (Far(t, ask, x) = 0 => x = root)
  <2>1. PICK E : E = Edges(t)
    OBVIOUS
  <2>2. E \in Graph
    BY <1>7, <2>1 DEF Graph
  <2>3. Distance(E, root, root) = 0 /\ Cardinality(Address) \in Nat
        /\ \A x : Distance(E, root, x) \in Nat /\ (Distance(E, root, x) = 0 => x = root)
    BY <1>3, <2>2, DistanceRange
  <2> QED
    BY <1>1, <2>1, <2>3 DEF Far
<1>9. Shape(t, ask)
  BY <1>2, <1>3 DEF Shape
<1>10. Queue(t)
  BY <1>2, <1>4, <1>5, <1>6 DEF Queue, Distinct
<1>11. Sources(t) /\ Once(t, ask) /\ Found(t)
  BY <1>2, <1>4 DEF Sources, Once, Found
<1>12. Named(t, ask) /\ Agrees(t)
  BY <1>1, <1>2, <1>7 DEF Named, Agrees, Endpoint, Until
<1>13. Deep(t, ask)
  BY <1>2, <1>4, <1>5, <1>7, <1>8 DEF Deep
<1>14. Broad(t, ask)
  <2>1. ASSUME NEW x \in Address, Far(t, ask, x) < t.hop PROVE x \in t.visited
    BY <1>2, <1>8, <2>1
  <2>2. \A x : Has(t.frontier, x) => Far(t, ask, x) >= t.hop - 1
    BY <1>2, <1>5, <1>8
  <2> QED
    BY <1>5, <2>1, <2>2 DEF Broad
<1>15. Fetching(t, ask, NoFetch)
  BY <1>2 DEF Fetching
<1> QED
  BY <1>1, <1>9, <1>10, <1>11, <1>12, <1>13, <1>14, <1>15 DEF Searched

LEMMA FoundStart == ASSUME Init PROVE Collections /\ Searches
<1>1. /\ PagesInit /\ labels = SeedLabels /\ changed = << >>
      /\ trace = [c \in Caller |-> IF c \notin Tracing THEN [at |-> "none"] ELSE Fresh(Ask(c))]
  BY DEF Init, Fresh
<1>2. scene \in Scenes /\ known = scene.known /\ cache = << >> /\ fetch = [c \in Caller |-> NoFetch]
  BY <1>1 DEF PagesInit
<1>3. Explored
  BY <1>2, PagesAssumption DEF Explored, World
<1>4. Collections
  <2>1. \A c \in Caller : Collects(fetch[c])
    BY <1>2 DEF Collects
  <2>2. Cached(cache)
    BY <1>2 DEF Cached
  <2> QED
    BY <1>2, <1>3, <2>1, <2>2 DEF Collections
<1>5. Searches
  <2>1. ASSUME NEW c \in Tracing PROVE Searched(trace[c], Ask(c)) /\ Fetching(trace[c], Ask(c), fetch[c])
    <3>1. c \in Caller /\ Ask(c) \in Request
      BY <1>3, Asks
    <3>2. PICK ask : ask = Ask(c)
      OBVIOUS
    <3>3. trace[c] = Fresh(ask) /\ fetch[c] = NoFetch
      BY <1>1, <1>2, <3>1, <3>2
    <3>5. Len(changed) \in Nat
      BY <1>1
    <3>4. Searched(Fresh(ask), ask) /\ Fetching(Fresh(ask), ask, NoFetch)
      BY <1>3, <3>1, <3>2, <3>5, FreshSearched
    <3> QED
      BY <3>2, <3>3, <3>4
  <2>2. DOMAIN trace = Caller /\ IsSequence(changed)
    BY <1>1, NoneIsSequence
  <2> QED
    BY <2>1, <2>2 DEF Searches
<1> QED
  BY <1>4, <1>5

LEMMA SearchInvariant == Spec => [](Collections /\ Searches)
<1>1. Init => Collections /\ Searches
  BY FoundStart
<1>2. (Collections /\ Searches) /\ [Next]_traceVars => (Collections /\ Searches)'
  BY FoundNext
<1> QED
  BY <1>1, <1>2, PTL DEF Spec

-----------------------------------------------------------------------------
(* What the search leaves behind *)

LEMMA CompleteHolds == ASSUME Collections PROVE CompleteMeansAll
<1> SUFFICES ASSUME NEW c \in Caller, fetch[c].at = "done", fetch[c].coverage = "COMPLETE", ~fetch[c].misread
             PROVE  \A i \in 1 .. fetch[c].asof :
                      Accepted(fetch[c].wallet, i) => \E k \in DOMAIN fetch[c].got : fetch[c].got[k] = i
  BY DEF CompleteMeansAll
<1>1. PICK f : f = fetch[c]
  OBVIOUS
<1>2. Explored /\ Collects(f) /\ f.at = "done"
  BY <1>1 DEF Collections
<1>3. f # NoFetch
  BY <1>2 DEF NoFetch
<1>4. PICK w \in Address, limit \in Limits : Collecting(f, w, limit)
  BY <1>2, <1>3 DEF Collects
<1>5. ~Underway(f, w, limit)
  BY <1>2, PartFields
<1>6. f # [at |-> "raised"]
  BY <1>2
<1>7. f.wallet = w /\ Holds(w, limit, f)
  BY <1>4, <1>5, <1>6 DEF Collecting
<1>8. \A i \in 1 .. f.asof : Accepted(w, i) => Has(f.got, i)
  BY <1>1, <1>7 DEF Holds, Answered
<1> QED
  BY <1>1, <1>7, <1>8 DEF Has

LEMMA DoneSearched ==
  ASSUME Collections, Searches, NEW c, Done(c)
  PROVE  /\ c \in Caller /\ Explored /\ Ask(c) \in Request
         /\ Searched(trace[c], Ask(c)) /\ trace[c].at = "done"
<1>1. c \in Tracing /\ trace[c].at = "done"
  BY DEF Done
<1>2. Explored
  BY DEF Collections
<1>3. c \in Caller /\ Ask(c) \in Request
  BY <1>1, <1>2, Asks
<1> QED
  BY <1>1, <1>2, <1>3 DEF Searches

LEMMA PathsHold == ASSUME Collections, Searches PROVE PathsLead
<1> SUFFICES ASSUME NEW c \in Caller, Done(c), NEW k \in DOMAIN trace[c].candidates
             PROVE  /\ trace[c].candidates[k].hop <= Ask(c).hops
                    /\ Distance(Edges(trace[c]), Ask(c).root, trace[c].candidates[k].address)
                         <= trace[c].candidates[k].hop
  BY DEF PathsLead
<1>1. PICK t, ask : t = trace[c] /\ ask = Ask(c)
  OBVIOUS
<1>2. Searched(t, ask) /\ ask \in Request
  BY <1>1, DoneSearched
<1>3. t.hop \in 1 .. ask.hops /\ t.candidates \in Seq(Candidate)
  BY <1>2 DEF Searched, Shape
<1>4. t.candidates[k].hop <= t.hop /\ k \in DOMAIN t.candidates
  BY <1>1, <1>2 DEF Searched, Found
<1>5. Far(t, ask, t.candidates[k].address) <= t.candidates[k].hop
  BY <1>2, <1>4 DEF Searched, Deep
<1>6. t.candidates[k] \in Candidate
  BY <1>3, <1>4
<1>7. t.candidates[k].hop \in Nat /\ ask.hops \in Nat
  BY <1>2, <1>6 DEF Candidate, Request
<1>8. t.candidates[k].hop <= ask.hops
  BY <1>3, <1>4, <1>7
<1> QED
  BY <1>1, <1>5, <1>8 DEF Far

\* The lists of a search that has ended.
LEMMA Ended ==
  ASSUME NEW ask \in Request, NEW t, Searched(t, ask), t.at = "done", Explored,
         With(t, "LIMIT_REACHED") = {}, \A x \in Confirmed(t) : Untouched(t, x),
         NEW a \in DOMAIN t.roles, a \notin Asked(t), Untouched(t, a), t.roles[a] # "vasp"
  PROVE  a # ask.root /\ Far(t, ask, a) >= ask.hops /\ ~(Far(t, ask, a) > Cardinality(Address))
<1>1. Shape(t, ask) /\ Queue(t) /\ Named(t, ask) /\ Deep(t, ask) /\ Broad(t, ask) /\ Found(t)
  BY DEF Searched
<1>2. t.frontier = << >> /\ t.next = << >>
  BY <1>1 DEF Shape
<1>3. a \notin t.visited
  BY <1>1, <1>2 DEF Queue, Has
<1>4. a # ask.root /\ a \in Destinations(t)
  BY <1>1, <1>3 DEF Named
<1>5. ~Endpoint(t, a)
  BY DEF Endpoint
<1>6. t.hop = ask.hops
  BY <1>1, <1>3, <1>4, <1>5 DEF Named
<1>7. Far(t, ask, a) <= Cardinality(Address)
  BY <1>1, <1>4 DEF Deep
<1>8. a \in Address
  <2>1. PICK k \in DOMAIN t.transfers : a = Rec(t.transfers[k]).destination
    BY <1>4 DEF Destinations
  <2>2. t.transfers[k] \in Place
    BY <1>1 DEF Shape
  <2>3. Rec(t.transfers[k]) \in Record
    BY <2>2, PagesAssumption DEF Explored, World, Place, Rec
  <2> QED
    BY <2>1, <2>3 DEF Record
<1>9. ~(Far(t, ask, a) < t.hop)
  BY <1>1, <1>3, <1>5, <1>7, <1>8 DEF Broad
<1>10. Far(t, ask, a) \in Nat /\ ask.hops \in Nat /\ Cardinality(Address) \in Nat
  <2>1. Edges(t) \in Graph
    BY <1>1, Sent DEF Shape
  <2>2. ask.root \in Address /\ ask.hops \in Nat
    BY DEF Request
  <2> QED
    BY <2>1, <2>2, DistanceRange DEF Far
<1> QED
  BY <1>4, <1>6, <1>7, <1>9, <1>10

LEMMA FrontiersList ==
  ASSUME NEW c, NEW t, t = trace[c]
  PROVE  /\ \A a \in With(t, "FAILED") : \E f \in Frontiers(t, c) : f.address = a
         /\ With(t, "LIMIT_REACHED") # {} => \E f \in Frontiers(t, c) : f.reason = "wallet_query_limit"
         /\ \A a \in DOMAIN t.roles :
              /\ t.roles[a] # "vasp" /\ a # Ask(c).root /\ Far(t, Ask(c), a) >= Ask(c).hops
              /\ ~(Far(t, Ask(c), a) > Cardinality(Address))
              => \E f \in Frontiers(t, c) : f.address = a
<1>1. ASSUME NEW a \in With(t, "FAILED") PROVE \E f \in Frontiers(t, c) : f.address = a
  <2>1. [address |-> a, reason |-> "provider_failure"] \in Frontiers(t, c)
    BY <1>1 DEF Frontiers, With
  <2> QED
    BY <2>1
<1>2. ASSUME NEW a \in With(t, "LIMIT_REACHED") PROVE \E f \in Frontiers(t, c) : f.reason = "wallet_query_limit"
  <2>1. [address |-> a, reason |-> "wallet_query_limit"] \in Frontiers(t, c)
    BY <1>2 DEF Frontiers, With
  <2> QED
    BY <2>1
<1>3. ASSUME NEW a \in DOMAIN t.roles, t.roles[a] # "vasp", a # Ask(c).root,
             Far(t, Ask(c), a) >= Ask(c).hops, ~(Far(t, Ask(c), a) > Cardinality(Address))
      PROVE  \E f \in Frontiers(t, c) : f.address = a
  <2>1. [address |-> a, reason |-> "hop_limit"] \in Frontiers(t, c)
    BY <1>3 DEF Frontiers, Far
  <2> QED
    BY <2>1
<1> QED
  BY <1>1, <1>2, <1>3

LEMMA WalletsHold == ASSUME Collections, Searches PROVE WalletsAccountedFor
<1> SUFFICES ASSUME NEW c \in Caller, Done(c), NEW a \in DOMAIN trace[c].roles
             PROVE  IF trace[c].roles[a] = "vasp"
                    THEN a \in Confirmed(trace[c]) => a = Ask(c).root \/ ~Untouched(trace[c], a)
                    ELSE \/ a \in Confirmed(trace[c]) \/ \E f \in Frontiers(trace[c], c) : f.address = a
                         \/ \E f \in Frontiers(trace[c], c) : f.reason = "wallet_query_limit"
                         \/ \E j \in 1 .. trace[c].upto : changed[j] \in {a} \cup Confirmed(trace[c])
  BY DEF WalletsAccountedFor, Confirmed, With, Untouched, Until, Done
<1>1. PICK t, ask : t = trace[c] /\ ask = Ask(c)
  OBVIOUS
<1>2. Searched(t, ask) /\ ask \in Request /\ t.at = "done" /\ Explored
  BY <1>1, DoneSearched
<1>3. Queue(t) /\ Named(t, ask)
  BY <1>2 DEF Searched
<1>4. ASSUME t.roles[a] = "vasp", a \in Confirmed(t), a # ask.root, Untouched(t, a) PROVE FALSE
  <2>1. Endpoint(t, a)
    BY <1>1, <1>4 DEF Endpoint
  <2>2. a \in t.visited
    BY <1>3, <1>4 DEF Queue, Asked
  <2> QED
    BY <1>3, <1>4, <2>1, <2>2 DEF Named
<1>5. ASSUME t.roles[a] # "vasp", a \notin Confirmed(t), With(t, "LIMIT_REACHED") = {},
             ~ \E j \in 1 .. t.upto : changed[j] \in {a} \cup Confirmed(t)
      PROVE  \E f \in Frontiers(t, c) : f.address = a
  <2>1. Untouched(t, a) /\ \A x \in Confirmed(t) : Untouched(t, x)
    BY <1>2, <1>5 DEF Untouched, Until
  <2>2. CASE a \in Asked(t)
    <3>1. a \in With(t, "FAILED")
      BY <1>5, <2>2 DEF Asked
    <3> QED
      BY <1>1, <3>1, FrontiersList
  <2>3. CASE a \notin Asked(t)
    <3>1. a # ask.root /\ Far(t, ask, a) >= ask.hops /\ ~(Far(t, ask, a) > Cardinality(Address))
      BY <1>1, <1>2, <1>5, <2>1, <2>3, Ended
    <3> QED
      BY <1>1, <1>5, <3>1, FrontiersList
  <2> QED
    BY <2>2, <2>3
<1>6. With(t, "LIMIT_REACHED") # {} => \E f \in Frontiers(t, c) : f.reason = "wallet_query_limit"
  BY <1>1, FrontiersList
<1> QED
  BY <1>1, <1>4, <1>5, <1>6

-----------------------------------------------------------------------------
(* The FIFO allocation *)

\* The places of the transfers in order of time and hash, each once.
Arranged(t, places) ==
  LET n == Len(t.transfers) IN
  /\ n \in Nat /\ places \in [1 .. n -> 1 .. n]
  /\ \A i \in 1 .. n : \E k \in 1 .. n : places[k] = i
  /\ \A k, l \in 1 .. n : places[k] = places[l] => k = l
  /\ Ordered(t) = [k \in 1 .. n |-> t.transfers[places[k]]]

LEMMA OrderedIs ==
  ASSUME Explored, NEW t, t.transfers \in Seq(Place)
  PROVE  \E places : Arranged(t, places)
<1>1. PICK s, n : s = t.transfers /\ n = Len(s)
  OBVIOUS
<1>2. s \in Seq(Place) /\ n \in Nat /\ DOMAIN s = 1 .. n
  BY <1>1
<1>3. PICK when : when = [k \in 1 .. n |-> Rec(s[k]).tx]
  OBVIOUS
<1>4. \A k \in 1 .. n : when[k] \in Nat
  <2>1. \A k \in 1 .. n : s[k] \in Place
    BY <1>2
  <2>2. \A i \in Place : Rec(i) \in Record
    BY PagesAssumption DEF Explored, World, Place, Rec
  <2>3. \A i \in Place : Rec(i).tx \in Nat
    BY <2>2 DEF Record
  <2> QED
    BY <1>3, <2>1, <2>3
<1>5. PICK S : S = 1 .. n
  OBVIOUS
<1>6. IsFiniteSet(S) /\ Cardinality(S) = n /\ \A k \in S : k \in Nat
  <2>1. 1 \in Int /\ n \in Int
    BY <1>2
  <2>2. IsFiniteSet(1 .. n) /\ Cardinality(1 .. n) = IF 1 > n THEN 0 ELSE n - 1 + 1
    BY <2>1, FS_Interval, Zenon
  <2> QED
    BY <1>2, <1>5, <2>2
<1> DEFINE before == [k \in S |-> {j \in S : Before(t, j, k)}]
<1>7. \A i, j \in S : i \in before[j] <=> when[i] < when[j] \/ (when[i] = when[j] /\ i < j)
  BY <1>1, <1>3, <1>5 DEF Before
<1>8. DOMAIN before = S /\ \A i \in S : before[i] \subseteq S
  OBVIOUS
<1> HIDE DEF before
<1>9. Orders(before)
  <2>1. ASSUME NEW i \in S
        PROVE  before[i] \subseteq S \ {i} /\ \A j \in before[i] : before[j] \subseteq before[i]
    <3>1. i \notin before[i]
      BY <1>4, <1>5, <1>6, <1>7
    <3>2. ASSUME NEW j \in before[i], NEW k \in before[j] PROVE k \in before[i]
      <4>1. i \in S /\ j \in S /\ k \in S
        BY <1>8, <3>2
      <4>2. when[i] \in Nat /\ when[j] \in Nat /\ when[k] \in Nat /\ i \in Nat /\ j \in Nat /\ k \in Nat
        BY <1>4, <1>5, <1>6, <4>1
      <4> QED
        BY <1>7, <3>2, <4>1, <4>2
    <3> QED
      BY <1>8, <3>1, <3>2
  <2>2. \A i, j \in S : i = j \/ i \in before[j] \/ j \in before[i]
    BY <1>4, <1>5, <1>6, <1>7
  <2> QED
    BY <1>6, <1>8, <2>1, <2>2 DEF Orders
<1>10. PICK places : places = Listing(before)
  OBVIOUS
<1>11. Lists(places, before)
  BY <1>9, <1>10, ListingLists
<1>12. places \in [1 .. n -> S] /\ \A i \in S : \E k \in 1 .. n : places[k] = i
  BY <1>6, <1>8, <1>11 DEF Lists
<1>13. \A k, l \in 1 .. n : places[k] = places[l] => k = l
  <2>1. \A k \in 1 .. n : Cardinality(before[places[k]]) = k - 1
    BY <1>6, <1>8, <1>11 DEF Lists
  <2>2. \A k, l \in 1 .. n : k - 1 = l - 1 => k = l
    BY <1>2
  <2> QED
    BY <2>1, <2>2
<1>14. Ordered(t) = [k \in 1 .. n |-> s[places[k]]]
  <2>1. places = Listing([k \in DOMAIN s |-> {j \in DOMAIN s : Before(t, j, k)}])
    BY <1>2, <1>5, <1>10 DEF before
  <2>2. DOMAIN places = 1 .. n
    BY <1>12
  <2> QED
    BY <1>1, <2>1, <2>2 DEF Ordered
<1>15. places \in [1 .. n -> 1 .. n] /\ \A i \in 1 .. n : \E k \in 1 .. n : places[k] = i
  BY <1>5, <1>12
<1>16. n = Len(t.transfers) /\ Ordered(t) = [k \in 1 .. n |-> t.transfers[places[k]]]
  BY <1>1, <1>14
<1>17. Arranged(t, places)
  BY <1>2, <1>13, <1>15, <1>16 DEF Arranged
<1> QED
  BY <1>17

\* The books of an allocation: the balances after each transfer of the order, and what
\* each of them takes.
Books(f, taken, n, order, start, root) ==
  /\ n \in Nat /\ order \in [1 .. n -> Place] /\ start \in Nat /\ root \in Address
  /\ f \in [0 .. n -> [Address -> Nat]]
  /\ f[0] = [a \in Address |-> IF a = root THEN start ELSE 0]
  /\ \A k \in 1 .. n : f[k] = Moved(f[k - 1], Rec(order[k]))
  /\ taken = [k \in 1 .. n |-> Attributable(Rec(order[k]).amount, f[k - 1][Rec(order[k]).source])]

\* A transfer takes what there is, from one wallet to another.
Withdraws(x, left, next, r) ==
  /\ r.source \in Address /\ r.destination \in Address
  /\ x \in Nat /\ x <= r.amount /\ x <= left[r.source]
  /\ next = [a \in Address |-> left[a] - (IF a = r.source THEN x ELSE 0) + (IF a = r.destination THEN x ELSE 0)]
  /\ next \in [Address -> Nat]

LEMMA MovedTakes ==
  ASSUME NEW left \in [Address -> Nat], NEW r \in Record
  PROVE  Withdraws(Attributable(r.amount, left[r.source]), left, Moved(left, r), r)
<1>1. r.source \in Address /\ r.destination \in Address /\ r.amount \in Nat
  BY DEF Record
<1>2. left[r.source] \in Nat
  BY <1>1
<1>3. PICK x : x = Attributable(r.amount, left[r.source])
  OBVIOUS
<1>4. x \in Nat /\ x <= r.amount /\ x <= left[r.source]
  BY <1>1, <1>2, <1>3 DEF Attributable, Least
<1>5. PICK next : next = Moved(left, r)
  OBVIOUS
<1>6. next = [a \in Address |-> left[a] - (IF a = r.source THEN x ELSE 0) + (IF a = r.destination THEN x ELSE 0)]
  BY <1>3, <1>5 DEF Moved
<1>7. \A a \in Address : left[a] - (IF a = r.source THEN x ELSE 0) + (IF a = r.destination THEN x ELSE 0) \in Nat
  BY <1>4
<1> QED
  BY <1>1, <1>3, <1>4, <1>5, <1>6, <1>7 DEF Withdraws

\* The books of a trace.
BooksOf(t, c, f, n) == Books(f, Taken(t, c), n, Ordered(t), Starting(t, c), Ask(c).root) /\ Balances(t, c) = f

LEMMA StartingNatural ==
  ASSUME Explored, NEW c, Ask(c) \in Request, NEW t, t.transfers \in Seq(Place)
  PROVE  Starting(t, c) \in Nat
<1>1. PICK s, n : s = t.transfers /\ n = Len(s)
  OBVIOUS
<1>2. s \in Seq(Place) /\ n \in Nat /\ DOMAIN s = 1 .. n
  BY <1>1
<1>3. PICK S, g : /\ S = {k \in 1 .. n : Rec(s[k]).source = Ask(c).root}
                  /\ g = [k \in 1 .. n |-> Rec(s[k]).amount]
  OBVIOUS
<1>4. \A k \in 1 .. n : g[k] \in Nat
  <2>1. \A k \in 1 .. n : s[k] \in Place
    BY <1>2
  <2>2. \A i \in Place : Rec(i) \in Record
    BY PagesAssumption DEF Explored, World, Place, Rec
  <2>3. \A i \in Place : Rec(i).amount \in Nat
    BY <2>2 DEF Record
  <2> QED
    BY <1>3, <2>1, <2>3
<1>5. IsFiniteSet(S)
  <2>1. 1 \in Int /\ n \in Int
    BY <1>2
  <2>2. IsFiniteSet(1 .. n)
    BY <2>1, FS_Interval, Zenon
  <2>3. S \in SUBSET (1 .. n)
    BY <1>3
  <2> QED
    BY <2>2, <2>3, FS_Subset
<1>6. Total(S, g) \in Nat
  <2>1. \A k \in S : g[k] \in Nat
    BY <1>3, <1>4
  <2> QED
    BY <1>5, <2>1, FiniteSummable, TotalType
<1>7. RootOutgoing(t, Ask(c).root) = Total(S, g)
  BY <1>1, <1>2, <1>3 DEF RootOutgoing
<1>8. Ask(c).disputed \in Nat \cup {-1}
  BY DEF Request
<1>9. Ask(c).disputed < 0 \/ Ask(c).disputed \in Nat
  BY <1>8
<1> QED
  BY <1>6, <1>7, <1>9 DEF Starting

LEMMA BooksAre ==
  ASSUME Explored, NEW c, Ask(c) \in Request, NEW t, t.transfers \in Seq(Place),
         NEW n \in Nat, Ordered(t) \in [1 .. n -> Place]
  PROVE  \E f : BooksOf(t, c, f, n)
<1>1. PICK o, root, initial : /\ o = Ordered(t) /\ root = Ask(c).root
                              /\ initial = [a \in Address |-> IF a = root THEN Starting(t, c) ELSE 0]
  OBVIOUS
<1>2. o \in [1 .. n -> Place] /\ DOMAIN o = 1 .. n /\ Len(o) = n /\ o \in Seq(Place)
  BY <1>1
<1>3. root \in Address /\ initial \in [Address -> Nat]
  BY <1>1, StartingNatural DEF Request
<1>4. \A k \in 1 .. n : Rec(o[k]) \in Record
  <2>1. \A i \in Place : Rec(i) \in Record
    BY PagesAssumption DEF Explored, World, Place, Rec
  <2> QED
    BY <1>2, <2>1
<1> DEFINE V == [Address -> Nat]
           step == [k \in 1 .. n |-> [left \in [Address -> Nat] |-> Moved(left, Rec(o[k]))]]
<1>5. Steps(n, V, step)
  <2>1. \A k \in 1 .. n : \A left \in [Address -> Nat] : Moved(left, Rec(o[k])) \in [Address -> Nat]
    BY <1>4, MovedTakes DEF Withdraws
  <2> QED
    BY <2>1 DEF Steps
<1>6. PICK f : f \in [0 .. n -> V] /\ f[0] = initial /\ \A k \in 1 .. n : f[k] = step[k][f[k - 1]]
  <2> HIDE DEF step
  <2>1. initial \in V
    BY <1>3
  <2> HIDE DEF V
  <2>2. \E f : Unrolled(f, n, V, initial, step)
    BY <1>5, <2>1, Recursion
  <2> QED
    BY <2>2 DEF Unrolled
<1>7. ASSUME NEW k \in 1 .. n PROVE f[k] = Moved(f[k - 1], Rec(o[k]))
  <2>1. k - 1 \in 0 .. n
    OBVIOUS
  <2>2. f[k - 1] \in V
    BY <2>1, <1>6
  <2>3. step[k][f[k - 1]] = Moved(f[k - 1], Rec(o[k]))
    BY <2>2
  <2> QED
    BY <2>3, <1>6
<1>8. f = [k \in 0 .. n |-> IF k = 0 THEN initial ELSE Moved(f[k - 1], Rec(o[k]))]
  BY <1>6, <1>7
<1>9. PICK g : g = Balances(t, c)
  OBVIOUS
<1>10. g = [k \in 0 .. n |-> IF k = 0 THEN initial ELSE Moved(g[k - 1], Rec(o[k]))]
  <2>1. \E h : h = [k \in 0 .. Len(Ordered(t)) |->
                     IF k = 0 THEN [a \in Address |-> IF a = Ask(c).root THEN Starting(t, c) ELSE 0]
                     ELSE Moved(h[k - 1], Rec(Ordered(t)[k]))]
    BY <1>1, <1>2, <1>8
  <2>2. g = [k \in 0 .. Len(Ordered(t)) |->
               IF k = 0 THEN [a \in Address |-> IF a = Ask(c).root THEN Starting(t, c) ELSE 0]
               ELSE Moved(g[k - 1], Rec(Ordered(t)[k]))]
    BY <1>9, <2>1 DEF Balances
  <2> QED
    BY <1>1, <1>2, <2>2
<1>11. DOMAIN g = 0 .. n /\ g[0] = initial /\ \A k \in 1 .. n : g[k] = Moved(g[k - 1], Rec(o[k]))
  <2>1. DOMAIN g = 0 .. n
    BY <1>10
  <2>2. 0 \in 0 .. n /\ g[0] = initial
    BY <1>10
  <2>3. ASSUME NEW k \in 1 .. n PROVE g[k] = Moved(g[k - 1], Rec(o[k]))
    <3>1. k \in 0 .. n /\ k # 0
      OBVIOUS
    <3> QED
      BY <1>10, <3>1
  <2> QED
    BY <2>1, <2>2, <2>3
<1>12. g = f
  <2> DEFINE S == {m \in Nat : m <= n => g[m] = f[m]}
  <2>1. 0 \in S
    BY <1>6, <1>11
  <2>2. ASSUME NEW m \in Nat, m \in S PROVE m + 1 \in S
    <3>1. CASE m + 1 <= n
      <4>1. m + 1 \in 1 .. n /\ m <= n /\ (m + 1) - 1 = m
        BY <3>1
      <4>2. g[m] = f[m]
        BY <2>2, <4>1
      <4>3. g[m + 1] = Moved(g[m], Rec(o[m + 1])) /\ f[m + 1] = Moved(f[m], Rec(o[m + 1]))
        BY <1>7, <1>11, <4>1
      <4> QED
        BY <4>2, <4>3
    <3>2. CASE ~ (m + 1 <= n)
      BY <3>2
    <3> QED
      BY <3>1, <3>2
  <2>3. Nat \subseteq S
    <3> HIDE DEF S
    <3> QED
      BY <2>1, <2>2, NaturalInduction
  <2>4. \A m \in 0 .. n : g[m] = f[m]
    BY <2>3
  <2>5. f = [m \in 0 .. n |-> f[m]] /\ g = [m \in 0 .. n |-> g[m]]
    BY <1>8, <1>10
  <2> QED
    BY <2>4, <2>5
<1>13. PICK taken : taken = Taken(t, c)
  OBVIOUS
<1>14. taken = [k \in 1 .. n |-> Attributable(Rec(o[k]).amount, f[k - 1][Rec(o[k]).source])]
  BY <1>1, <1>2, <1>9, <1>12, <1>13 DEF Taken
<1>15. Books(f, taken, n, o, Starting(t, c), root)
  <2>1. f \in [0 .. n -> [Address -> Nat]]
    BY <1>6
  <2>2. Starting(t, c) \in Nat
    BY StartingNatural
  <2> QED
    BY <1>1, <1>2, <1>3, <1>6, <1>7, <1>14, <2>1, <2>2 DEF Books
<1> QED
  BY <1>1, <1>9, <1>12, <1>13, <1>15 DEF BooksOf

LEMMA BooksStep ==
  ASSUME Explored, NEW f, NEW taken, NEW n, NEW order, NEW start, NEW root,
         Books(f, taken, n, order, start, root), NEW k \in 1 .. n
  PROVE  /\ n \in Nat /\ k - 1 \in 0 .. n /\ f[k - 1] \in [Address -> Nat] /\ f[k] \in [Address -> Nat]
         /\ Withdraws(taken[k], f[k - 1], f[k], Rec(order[k]))
<1>1. /\ n \in Nat /\ order \in [1 .. n -> Place] /\ f \in [0 .. n -> [Address -> Nat]]
      /\ f[k] = Moved(f[k - 1], Rec(order[k]))
      /\ taken[k] = Attributable(Rec(order[k]).amount, f[k - 1][Rec(order[k]).source])
  BY DEF Books
<1>2. k - 1 \in 0 .. n /\ k \in 0 .. n
  BY <1>1
<1>3. f[k - 1] \in [Address -> Nat] /\ f[k] \in [Address -> Nat]
  BY <1>1, <1>2
<1>4. Rec(order[k]) \in Record
  <2>1. \A i \in Place : Rec(i) \in Record
    BY PagesAssumption DEF Explored, World, Place, Rec
  <2> QED
    BY <1>1, <2>1
<1>5. Withdraws(Attributable(Rec(order[k]).amount, f[k - 1][Rec(order[k]).source]), f[k - 1],
             Moved(f[k - 1], Rec(order[k])), Rec(order[k]))
  BY <1>3, <1>4, MovedTakes
<1> QED
  BY <1>1, <1>2, <1>3, <1>5

\* Money that moves is neither made nor lost.
LEMMA MovesConserve ==
  ASSUME NEW x, NEW left \in [Address -> Nat], NEW next, NEW r, Withdraws(x, left, next, r)
  PROVE  Total(Address, next) = Total(Address, left)
<1>1. PICK p \in Address, q \in Address : p = r.source /\ q = r.destination
  BY DEF Withdraws
<1>2. x \in Nat /\ x <= left[p] /\ next \in [Address -> Nat]
  BY <1>1 DEF Withdraws
<1>3. next = [a \in Address |-> left[a] - (IF a = p THEN x ELSE 0) + (IF a = q THEN x ELSE 0)]
  BY <1>1 DEF Withdraws
<1> DEFINE between == [a \in Address |-> IF a = p THEN left[a] - x ELSE left[a]]
<1>4. /\ between[p] = left[p] - x /\ between[p] \in Nat /\ left[p] \in Nat
      /\ \A a \in Address \ {p} : left[a] = between[a]
  BY <1>2
<1>5. between[q] \in Nat /\ next[q] = between[q] + x /\ \A a \in Address \ {q} : between[a] = next[a]
  <2>1. \A a \in Address : left[a] \in Nat
    OBVIOUS
  <2>2. between[q] \in Nat
    BY <1>2, <2>1
  <2>3. next[q] = between[q] + x
    BY <1>2, <1>3, <2>1
  <2>4. \A a \in Address \ {q} : between[a] = next[a]
    BY <1>2, <1>3, <2>1
  <2> QED
    BY <2>2, <2>3, <2>4
<1> HIDE DEF between
<1>6. Summable(Address, left) /\ Total(Address, left) \in Nat
  <2>1. \A a \in Address : left[a] \in Nat
    OBVIOUS
  <2> QED
    BY <2>1, LegacyAssumption, FiniteSummable, TotalType
<1>7. Summable(Address, between) /\ Total(Address, between) + left[p] = Total(Address, left) + between[p]
  BY <1>4, <1>6, TotalChange
<1>8. Total(Address, between) \in Nat
  BY <1>7, TotalType
<1>9. next[q] \in Nat
  BY <1>2
<1>10. Summable(Address, next) /\ Total(Address, next) + between[q] = Total(Address, between) + next[q]
  BY <1>5, <1>7, <1>9, TotalChange
<1>11. Total(Address, next) \in Nat
  BY <1>10, TotalType
<1> QED
  BY <1>2, <1>4, <1>5, <1>6, <1>7, <1>8, <1>10, <1>11

LEMMA BooksBalance ==
  ASSUME Explored, NEW f, NEW taken, NEW n, NEW order, NEW start, NEW root,
         Books(f, taken, n, order, start, root)
  PROVE  \A k \in 0 .. n : Total(Address, f[k]) = start
<1>1. n \in Nat /\ start \in Nat /\ root \in Address /\ f[0] = [a \in Address |-> IF a = root THEN start ELSE 0]
  BY DEF Books
<1> DEFINE S == {m \in Nat : m <= n => Total(Address, f[m]) = start}
<1>2. 0 \in S
  <2>1. PICK h : h = f[0]
    OBVIOUS
  <2>2. h[root] = start /\ \A a \in Address \ {root} : h[a] = 0
    BY <1>1, <2>1
  <2>3. Summable(Address \ {root}, h) /\ Total(Address \ {root}, h) = 0
    BY <2>2, TotalZero
  <2>4. Total(Address, h) = Total(Address \ {root}, h) + h[root]
    BY <1>1, <2>2, <2>3, TotalSplit
  <2>5. Total(Address, h) = start
    BY <1>1, <2>2, <2>3, <2>4
  <2> QED
    BY <2>1, <2>5
<1>3. ASSUME NEW m \in Nat, m \in S PROVE m + 1 \in S
  <2>1. ASSUME m + 1 <= n PROVE Total(Address, f[m + 1]) = start
    <3>1. m + 1 \in 1 .. n /\ (m + 1) - 1 = m /\ m <= n
      BY <1>1, <2>1
    <3>2. PICK k \in 1 .. n : k = m + 1 /\ k - 1 = m
      BY <3>1
    <3>3. f[k - 1] \in [Address -> Nat] /\ Withdraws(taken[k], f[k - 1], f[k], Rec(order[k]))
      BY BooksStep
    <3>4. Total(Address, f[k]) = Total(Address, f[k - 1])
      BY <3>3, MovesConserve
    <3> QED
      BY <1>3, <3>1, <3>2, <3>4
  <2> QED
    BY <2>1
<1>4. Nat \subseteq S
  <2> HIDE DEF S
  <2> QED
    BY <1>2, <1>3, NaturalInduction
<1> QED
  BY <1>1, <1>4

\* What the root has is what it had and what came to it, less what left it.
Settled(balance, taken, n, order, start, root) ==
  LET outgoing == Total({k \in 1 .. n : Rec(order[k]).source = root}, taken)
      incoming == Total({k \in 1 .. n : Rec(order[k]).destination = root}, taken)
  IN  outgoing \in Nat /\ incoming \in Nat /\ balance \in Nat /\ balance + outgoing = start + incoming

LEMMA BooksRoot ==
  ASSUME Explored, NEW f, NEW taken, NEW n, NEW order, NEW start, NEW root,
         Books(f, taken, n, order, start, root)
  PROVE  Settled(f[n][root], taken, n, order, start, root)
<1>1. n \in Nat /\ start \in Nat /\ root \in Address /\ f[0] = [a \in Address |-> IF a = root THEN start ELSE 0]
  BY DEF Books
<1> DEFINE From(m) == {k \in 1 .. m : Rec(order[k]).source = root}
           To(m) == {k \in 1 .. m : Rec(order[k]).destination = root}
           Level(m) == /\ Summable(From(m), taken) /\ Summable(To(m), taken) /\ f[m][root] \in Nat
                       /\ f[m][root] + Total(From(m), taken) = start + Total(To(m), taken)
           S == {m \in Nat : m <= n => Level(m)}
<1>2. 0 \in S
  <2>1. From(0) = {} /\ To(0) = {}
    OBVIOUS
  <2>2. Summable({}, taken) /\ Total({}, taken) = 0
    BY TotalZero
  <2>3. f[0][root] = start
    BY <1>1
  <2> HIDE DEF From, To
  <2>4. Level(0)
    BY <1>1, <2>1, <2>2, <2>3
  <2> QED
    BY <2>4
<1>3. ASSUME NEW m \in Nat, m \in S PROVE m + 1 \in S
  <2>1. ASSUME m + 1 <= n PROVE Level(m + 1)
    <3>1. m + 1 \in 1 .. n /\ (m + 1) - 1 = m /\ m <= n
      BY <1>1, <2>1
    <3>2. PICK k \in 1 .. n : k = m + 1 /\ k - 1 = m
      BY <3>1
    <3>3. f[k - 1] \in [Address -> Nat] /\ Withdraws(taken[k], f[k - 1], f[k], Rec(order[k]))
      BY BooksStep
    <3>4. PICK x, p, q : x = taken[k] /\ p = Rec(order[k]).source /\ q = Rec(order[k]).destination
      OBVIOUS
    <3>5. /\ x \in Nat
          /\ f[k][root] = f[m][root] - (IF root = p THEN x ELSE 0) + (IF root = q THEN x ELSE 0)
          /\ f[k][root] \in Nat
      BY <1>1, <3>2, <3>3, <3>4 DEF Withdraws
    <3>6. From(k) = (IF p = root THEN From(m) \cup {k} ELSE From(m)) /\ k \notin From(m)
      BY <3>2, <3>4
    <3>7. To(k) = (IF q = root THEN To(m) \cup {k} ELSE To(m)) /\ k \notin To(m)
      BY <3>2, <3>4
    <3>8. Level(m)
      BY <1>3, <3>1
    <3> HIDE DEF From, To
    <3>9. Total(From(m), taken) \in Nat /\ Total(To(m), taken) \in Nat
      BY <3>8, TotalType
    <3>10. /\ Summable(From(k), taken)
           /\ Total(From(k), taken) = Total(From(m), taken) + (IF root = p THEN x ELSE 0)
      <4>1. PICK A, B : A = From(m) /\ B = From(k)
        OBVIOUS
      <4>2. k \notin A /\ Summable(A, taken) /\ taken[k] \in Nat /\ Total(A, taken) \in Nat
        BY <3>4, <3>5, <3>6, <3>8, <3>9, <4>1
      <4>3. Summable(A \cup {k}, taken) /\ Total(A \cup {k}, taken) = Total(A, taken) + taken[k]
        BY <4>2, TotalAdd
      <4>4. B = IF root = p THEN A \cup {k} ELSE A
        BY <3>6, <4>1
      <4>5. Summable(B, taken) /\ Total(B, taken) = Total(A, taken) + (IF root = p THEN x ELSE 0)
        BY <3>4, <4>2, <4>3, <4>4
      <4> QED
        BY <4>1, <4>5
    <3>11. /\ Summable(To(k), taken)
           /\ Total(To(k), taken) = Total(To(m), taken) + (IF root = q THEN x ELSE 0)
      <4>1. PICK A, B : A = To(m) /\ B = To(k)
        OBVIOUS
      <4>2. k \notin A /\ Summable(A, taken) /\ taken[k] \in Nat /\ Total(A, taken) \in Nat
        BY <3>4, <3>5, <3>7, <3>8, <3>9, <4>1
      <4>3. Summable(A \cup {k}, taken) /\ Total(A \cup {k}, taken) = Total(A, taken) + taken[k]
        BY <4>2, TotalAdd
      <4>4. B = IF root = q THEN A \cup {k} ELSE A
        BY <3>7, <4>1
      <4>5. Summable(B, taken) /\ Total(B, taken) = Total(A, taken) + (IF root = q THEN x ELSE 0)
        BY <3>4, <4>2, <4>3, <4>4
      <4> QED
        BY <4>1, <4>5
    <3>12. f[k][root] + Total(From(k), taken) = start + Total(To(k), taken)
      BY <1>1, <3>5, <3>8, <3>9, <3>10, <3>11
    <3> QED
      BY <3>2, <3>5, <3>10, <3>11, <3>12
  <2> HIDE DEF Level
  <2> QED
    BY <2>1
<1>4. Nat \subseteq S
  <2> HIDE DEF S
  <2> QED
    BY <1>2, <1>3, NaturalInduction
<1>5. Level(n)
  <2> HIDE DEF Level
  <2> QED
    BY <1>1, <1>4
<1>6. Total(From(n), taken) \in Nat /\ Total(To(n), taken) \in Nat
  BY <1>5, TotalType
<1> QED
  BY <1>5, <1>6 DEF Settled

\* The order and the books of a trace that is done.
Allotted(t, c, places, f, n) ==
  /\ n = Len(t.transfers) /\ n \in Nat /\ Arranged(t, places) /\ BooksOf(t, c, f, n)
  /\ Ordered(t) \in [1 .. n -> Place] /\ Len(Ordered(t)) = n

LEMMA Allots ==
  ASSUME Explored, NEW c, Ask(c) \in Request, NEW t, t.transfers \in Seq(Place)
  PROVE  \E places, f, n : Allotted(t, c, places, f, n)
<1>1. PICK places : Arranged(t, places)
  BY OrderedIs
<1>2. PICK n, s : n = Len(s) /\ s = t.transfers
  OBVIOUS
<1>3. n \in Nat /\ s \in [1 .. n -> Place]
  BY <1>2
<1>4. Ordered(t) = [k \in 1 .. n |-> s[places[k]]] /\ places \in [1 .. n -> 1 .. n]
  BY <1>1, <1>2 DEF Arranged
<1>5. Ordered(t) \in [1 .. n -> Place]
  BY <1>3, <1>4
<1>6. Len(Ordered(t)) = n
  BY <1>3, <1>5
<1>7. PICK f : BooksOf(t, c, f, n)
  BY <1>3, <1>5, BooksAre
<1>8. Allotted(t, c, places, f, n)
  BY <1>1, <1>2, <1>3, <1>5, <1>6, <1>7 DEF Allotted
<1> QED
  BY <1>8

LEMMA DoneAllots ==
  ASSUME Collections, Searches, NEW c, Done(c)
  PROVE  \E places, f, n : Allotted(trace[c], c, places, f, n)
<1>1. Explored /\ Ask(c) \in Request /\ Searched(trace[c], Ask(c))
  BY DoneSearched
<1>2. trace[c].transfers \in Seq(Place)
  BY <1>1 DEF Searched, Shape
<1> QED
  BY <1>1, <1>2, Allots

LEMMA FifoHolds == ASSUME Collections, Searches PROVE FifoConserves
<1>1. ASSUME NEW c \in Caller, Done(c)
      PROVE  LET t == trace[c]
                 order == Ordered(t)
                 last == Balances(t, c)[Len(order)]
                 moved(S) == Total(S, Taken(t, c))
             IN  /\ Total(Address, last) = Starting(t, c)
                 /\ \A a \in Address : last[a] >= 0
                 /\ moved({k \in DOMAIN order : Rec(order[k]).source = Ask(c).root})
                      <= Starting(t, c) + moved({k \in DOMAIN order : Rec(order[k]).destination = Ask(c).root})
  <2>1. PICK t : t = trace[c]
    OBVIOUS
  <2>2. PICK places, f, n : Allotted(t, c, places, f, n)
    BY <1>1, <2>1, DoneAllots
  <2>3. PICK taken, order, start, root :
          taken = Taken(t, c) /\ order = Ordered(t) /\ start = Starting(t, c) /\ root = Ask(c).root
    OBVIOUS
  <2>4. /\ n \in Nat /\ Books(f, taken, n, order, start, root) /\ Balances(t, c) = f
        /\ order \in [1 .. n -> Place] /\ Len(order) = n /\ DOMAIN order = 1 .. n
    BY <2>2, <2>3 DEF Allotted, BooksOf
  <2>5. Explored
    BY DEF Collections
  <2>6. f[n] \in [Address -> Nat] /\ n \in 0 .. n /\ start \in Nat
    BY <2>4 DEF Books
  <2>7. Total(Address, f[n]) = start
    BY <2>4, <2>5, <2>6, BooksBalance
  <2>8. \A a \in Address : f[n][a] >= 0
    BY <2>6
  <2>9. PICK outgoing, incoming : /\ outgoing = Total({k \in 1 .. n : Rec(order[k]).source = root}, taken)
                                  /\ incoming = Total({k \in 1 .. n : Rec(order[k]).destination = root}, taken)
    OBVIOUS
  <2>10. Settled(f[n][root], taken, n, order, start, root)
    BY <2>4, <2>5, BooksRoot
  <2>11. /\ outgoing \in Nat /\ incoming \in Nat /\ f[n][root] \in Nat
         /\ f[n][root] + outgoing = start + incoming
    BY <2>9, <2>10 DEF Settled
  <2>12. outgoing <= start + incoming
    BY <2>6, <2>11
  <2> QED
    BY <2>1, <2>3, <2>4, <2>7, <2>8, <2>9, <2>12
<1> QED
  BY <1>1 DEF FifoConserves

LEMMA AttributedHolds == ASSUME Collections, Searches PROVE AttributedOnce
<1>1. ASSUME NEW c \in Caller, Done(c), NEW i \in {Ordered(trace[c])[k] : k \in DOMAIN Ordered(trace[c])}
      PROVE  \/ Total({k \in DOMAIN Ordered(trace[c]) : Ordered(trace[c])[k] = i}, Taken(trace[c], c)) <= Rec(i).amount
             \/ scene.client = "evm" /\ Len(History(Rec(i).source)) >= Least(PageCap, Ask(c).limit)
  <2>1. PICK t, ask : t = trace[c] /\ ask = Ask(c)
    OBVIOUS
  <2>2. PICK places, f, n : Allotted(t, c, places, f, n)
    BY <1>1, <2>1, DoneAllots
  <2>3. PICK taken, order, start, root :
          taken = Taken(t, c) /\ order = Ordered(t) /\ start = Starting(t, c) /\ root = Ask(c).root
    OBVIOUS
  <2>4. /\ n \in Nat /\ Books(f, taken, n, order, start, root) /\ DOMAIN order = 1 .. n
        /\ n = Len(t.transfers)
    BY <2>2, <2>3 DEF Allotted, BooksOf
  <2>5. /\ places \in [1 .. n -> 1 .. n] /\ order = [k \in 1 .. n |-> t.transfers[places[k]]]
        /\ \A k, l \in 1 .. n : places[k] = places[l] => k = l
    BY <2>2, <2>3, <2>4 DEF Allotted, Arranged
  <2>6. Explored /\ Once(t, ask) /\ t.transfers \in Seq(Place)
    BY <1>1, <2>1, DoneSearched DEF Searched, Shape
  <2>7. DOMAIN t.transfers = 1 .. n
    BY <2>4, <2>6
  <2>8. PICK k \in 1 .. n : order[k] = i
    BY <1>1, <2>1, <2>3, <2>4
  <2>9. CASE Overlaps(Rec(i).source, ask.limit)
    <3>1. PICK S : S = Listed(Rec(i).source)
      OBVIOUS
    <3>2. S \in SUBSET Nat /\ IsFiniteSet(S)
      BY <2>6, <3>1, ListedFinite
    <3>3. Len(NewestFirst(S)) = Cardinality(S)
      BY <3>2, NewestFirstDescends DEF Descends
    <3> QED
      BY <2>1, <2>9, <3>1, <3>3 DEF Overlaps, History
  <2>10. CASE ~Overlaps(Rec(i).source, ask.limit)
    <3>1. ASSUME NEW l \in 1 .. n, order[l] = i PROVE l = k
      <4>1. places[k] \in 1 .. n /\ places[l] \in 1 .. n
        BY <2>5
      <4>2. t.transfers[places[l]] = i /\ t.transfers[places[k]] = i
        BY <2>5, <2>8, <3>1
      <4>3. places[l] = places[k]
        BY <2>6, <2>7, <2>10, <4>1, <4>2 DEF Once
      <4> QED
        BY <2>5, <4>3
    <3>2. {l \in 1 .. n : order[l] = i} = {k}
      BY <2>8, <3>1
    <3>3. taken[k] \in Nat /\ taken[k] <= Rec(i).amount
      <4>1. Withdraws(taken[k], f[k - 1], f[k], Rec(order[k]))
        BY <2>4, <2>6, BooksStep
      <4> QED
        BY <2>8, <4>1 DEF Withdraws
    <3>4. Total({l \in 1 .. n : order[l] = i}, taken) <= Rec(i).amount
      BY <3>2, <3>3, TotalOne
    <3> QED
      BY <2>1, <2>3, <2>4, <3>4
  <2> QED
    BY <2>9, <2>10
<1> QED
  BY <1>1 DEF AttributedOnce

\* What is ranked for an endpoint whose labels do not change, if no transaction pays it
\* twice: the candidates and the transfers that pay it go one to one.
LEMMA RankedIs ==
  ASSUME Explored, NEW c, Ask(c) \in Request, NEW t, Searched(t, Ask(c)),
         NEW places, NEW f, NEW n, Allotted(t, c, places, f, n),
         NEW a, Untouched(t, a), Endpoint(t, a),
         NEW P, P = {k \in DOMAIN Ordered(t) : Rec(Ordered(t)[k]).destination = a},
         \A i, j \in P : i # j => Rec(Ordered(t)[i]).tx # Rec(Ordered(t)[j]).tx
  PROVE  Ranked(t, c, a) = Total(P, Taken(t, c))
<1>1. PICK taken, order, start, root, cands, s :
        /\ taken = Taken(t, c) /\ order = Ordered(t) /\ start = Starting(t, c) /\ root = Ask(c).root
        /\ cands = t.candidates /\ s = t.transfers
  OBVIOUS
<1>2. n \in Nat /\ Books(f, taken, n, order, start, root) /\ DOMAIN order = 1 .. n
  BY <1>1 DEF Allotted, BooksOf
<1>3. s \in Seq(Place) /\ Found(t)
  BY <1>1 DEF Searched, Shape
<1>4. /\ DOMAIN s = 1 .. n /\ places \in [1 .. n -> 1 .. n] /\ order = [k \in 1 .. n |-> s[places[k]]]
      /\ \A i \in 1 .. n : \E k \in 1 .. n : places[k] = i
      /\ \A k, l \in 1 .. n : places[k] = places[l] => k = l
  BY <1>1, <1>3 DEF Allotted, Arranged
<1>5. /\ \A k \in DOMAIN cands : cands[k].place \in 1 .. n /\ Rec(s[cands[k].place]).destination = cands[k].address
      /\ \A k, l \in DOMAIN cands : cands[k].place = cands[l].place => k = l
      /\ \A p \in 1 .. n : Rec(s[p]).destination = a => \E k \in DOMAIN cands : cands[k].place = p
  BY <1>1, <1>3, <1>4 DEF Found
<1>6. P = {k \in 1 .. n : Rec(order[k]).destination = a}
  BY <1>1, <1>2
<1>7. PICK g, C : g = AllocationsOf(t, c) /\ C = {k \in DOMAIN cands : cands[k].address = a}
  OBVIOUS
<1>8. \A k \in 1 .. n : taken[k] \in Nat
  <2>1. ASSUME NEW k \in 1 .. n PROVE taken[k] \in Nat
    <3>1. Withdraws(taken[k], f[k - 1], f[k], Rec(order[k]))
      BY <1>2, BooksStep
    <3> QED
      BY <3>1 DEF Withdraws
  <2> QED
    BY <2>1
\* The candidate of a transfer's place is given what the transfer took.
<1>9. ASSUME NEW k \in C, NEW l \in 1 .. n, places[l] = cands[k].place
      PROVE  l \in P /\ g[k] = taken[l]
  <2>1. k \in DOMAIN cands /\ cands[k].address = a
    BY <1>7
  <2>2. Rec(order[l]).destination = a /\ order[l] = s[cands[k].place] /\ l \in P
    BY <1>4, <1>5, <1>6, <1>9, <2>1
  <2>3. {m \in DOMAIN order : /\ Rec(order[m]).tx = Rec(s[cands[k].place]).tx
                              /\ Rec(order[m]).destination = a} = {l}
    BY <1>1, <1>2, <1>6, <2>2
  <2>4. PICK same : same = {m \in DOMAIN order : /\ Rec(order[m]).tx = Rec(s[cands[k].place]).tx
                                                 /\ Rec(order[m]).destination = a}
    OBVIOUS
  <2>5. (CHOOSE m \in same : \A j \in same : j <= m) = l
    <3>1. same = {l} /\ l <= l
      BY <2>3, <2>4
    <3> QED
      BY <3>1
  <2>6. AllocationOf(t, c, cands[k]) = taken[CHOOSE m \in same : \A j \in same : j <= m]
    BY <1>1, <2>1, <2>4 DEF AllocationOf
  <2>7. g[k] = AllocationOf(t, c, cands[k])
    BY <1>1, <1>7, <2>1 DEF AllocationsOf
  <2> QED
    BY <2>2, <2>5, <2>6, <2>7
<1>10. IsFiniteSet(P) /\ Summable(P, taken) /\ Total(P, taken) \in Nat
  <2>1. 1 \in Int /\ n \in Int
    BY <1>2
  <2>2. IsFiniteSet(1 .. n)
    BY <2>1, FS_Interval, Zenon
  <2>3. P \in SUBSET (1 .. n)
    BY <1>6
  <2>4. IsFiniteSet(P)
    BY <2>2, <2>3, FS_Subset
  <2>5. \A k \in P : taken[k] \in Nat
    BY <1>6, <1>8
  <2> QED
    BY <2>4, <2>5, FiniteSummable, TotalType
<1> DEFINE to == [k \in C |-> CHOOSE l \in 1 .. n : places[l] = cands[k].place]
           from == [l \in P |-> CHOOSE k \in DOMAIN cands : cands[k].place = places[l]]
<1>11. \A k \in C : to[k] \in 1 .. n /\ places[to[k]] = cands[k].place
  BY <1>4, <1>5, <1>7
<1>12. \A l \in P : from[l] \in C /\ cands[from[l]].place = places[l]
  <2>1. ASSUME NEW l \in P PROVE from[l] \in C /\ cands[from[l]].place = places[l]
    <3>1. l \in 1 .. n /\ places[l] \in 1 .. n /\ Rec(s[places[l]]).destination = a
      BY <1>4, <1>6
    <3>2. from[l] \in DOMAIN cands /\ cands[from[l]].place = places[l]
      BY <1>5, <3>1
    <3>3. cands[from[l]].address = a
      BY <1>5, <3>1, <3>2
    <3> HIDE DEF from
    <3> QED
      BY <1>7, <3>2, <3>3
  <2> QED
    BY <2>1
<1> HIDE DEF to, from
<1>13. \A k \in C : to[k] \in P /\ g[k] = taken[to[k]] /\ g[k] \in Nat /\ taken[to[k]] \in Nat /\ g[k] <= taken[to[k]]
  <2>1. ASSUME NEW k \in C
        PROVE  to[k] \in P /\ g[k] = taken[to[k]] /\ g[k] \in Nat /\ taken[to[k]] \in Nat /\ g[k] <= taken[to[k]]
    <3>1. to[k] \in P /\ g[k] = taken[to[k]] /\ to[k] \in 1 .. n
      BY <1>9, <1>11
    <3>2. taken[to[k]] \in Nat
      BY <1>8, <3>1
    <3> QED
      BY <3>1, <3>2
  <2> QED
    BY <2>1
<1>14. \A k, l \in C : to[k] = to[l] => k = l
  <2>1. \A k, l \in C : to[k] = to[l] => cands[k].place = cands[l].place
    BY <1>11
  <2> QED
    BY <1>5, <1>7, <2>1
<1>15. Summable(C, g) /\ Total(C, g) <= Total(P, taken)
  BY <1>10, <1>13, <1>14, TotalInjected
<1>16. \A l \in P : /\ from[l] \in C /\ taken[l] \in Nat /\ g[from[l]] \in Nat /\ taken[l] <= g[from[l]]
  <2>1. ASSUME NEW l \in P
        PROVE  from[l] \in C /\ taken[l] \in Nat /\ g[from[l]] \in Nat /\ taken[l] <= g[from[l]]
    <3>1. l \in 1 .. n /\ from[l] \in C /\ places[l] = cands[from[l]].place
      BY <1>6, <1>12
    <3>2. g[from[l]] = taken[l] /\ taken[l] \in Nat
      BY <1>8, <1>9, <3>1
    <3> QED
      BY <3>1, <3>2
  <2> QED
    BY <2>1
<1>17. \A k, l \in P : from[k] = from[l] => k = l
  <2>1. \A k, l \in P : from[k] = from[l] => places[k] = places[l]
    BY <1>12
  <2> QED
    BY <1>4, <1>6, <2>1, ZenonT(40)
<1>18. Total(P, taken) <= Total(C, g)
  BY <1>15, <1>16, <1>17, TotalInjected
<1>19. Total(C, g) \in Nat
  BY <1>15, TotalType
<1>20. Ranked(t, c, a) = Total(C, g)
  BY <1>1, <1>7 DEF Ranked
<1> QED
  BY <1>1, <1>10, <1>15, <1>18, <1>19, <1>20

LEMMA EndpointsHold == ASSUME Collections, Searches PROVE EndpointAmounts
<1>1. ASSUME NEW c \in Caller, Done(c), NEW k \in DOMAIN trace[c].candidates, NEW a, NEW P,
             a = trace[c].candidates[k].address,
             P = {l \in DOMAIN Ordered(trace[c]) : Rec(Ordered(trace[c])[l]).destination = a}
      PROVE  \/ Ranked(trace[c], c, a) = Total(P, Taken(trace[c], c))
             \/ \E i, j \in P : i # j /\ Rec(Ordered(trace[c])[i]).tx = Rec(Ordered(trace[c])[j]).tx
             \/ \E j \in 1 .. trace[c].upto : changed[j] = a
  <2>1. PICK t : t = trace[c]
    OBVIOUS
  <2>2. PICK places, f, n : Allotted(t, c, places, f, n)
    BY <1>1, <2>1, DoneAllots
  <2>3. Explored /\ Ask(c) \in Request /\ Searched(t, Ask(c)) /\ t.at = "done"
    BY <1>1, <2>1, DoneSearched
  <2>4. CASE Untouched(t, a)
    <3>1. Endpoint(t, a)
      BY <1>1, <2>1, <2>3 DEF Searched, Found
    <3> QED
      BY <1>1, <2>1, <2>2, <2>3, <2>4, <3>1, RankedIs
  <2>5. CASE ~Untouched(t, a)
    BY <2>1, <2>3, <2>5 DEF Untouched, Until
  <2> QED
    BY <2>4, <2>5
<1> QED
  BY <1>1 DEF EndpointAmounts

-----------------------------------------------------------------------------
(* The theorems of a trace that is done *)

\* Whatever the explorer learns while a collection is under way, however pages shrink,
\* repeat or are asked for again, and from the cache or not: an answer that claims to be
\* complete has every transfer of the token that the wallet had sent when the collection
\* began (adapters.py, _coverage; ethereum.py and tron.py, the loops over the pages).
THEOREM CompleteAnswers == Spec => []CompleteMeansAll
BY SearchInvariant, CompleteHolds, PTL

\* For any number of transfers in any order: the balances add up to the disputed amount,
\* none is negative, and what left the suspect's wallet is no more than the disputed
\* amount and what came back (flow.py, FlowAllocator.analyze).
THEOREM AllocationConserves == Spec => []FifoConserves
BY SearchInvariant, FifoHolds, PTL

\* A transfer is allocated no more than it moved: the search asks for a wallet once, and a
\* record is collected twice only where the pages of an EVM wallet overlap (tracing.py,
\* trace_case; ethereum.py, outgoing_erc20_transfers; flow.py).
THEOREM TransfersAttributedOnce == Spec => []AttributedOnce
BY SearchInvariant, AttributedHolds, PTL

\* The candidates of an endpoint and the transfers that pay it go one to one, and so do
\* their amounts, unless one transaction pays it more than once, a record was collected
\* twice, or one of its labels changed before the trace ended (tracing.py, trace_case;
\* attribution.py, rank; storage.py, find_label).
THEOREM EndpointsRankWhatTheyGot == Spec => []EndpointAmounts
BY SearchInvariant, EndpointsHold, PTL

\* To every candidate a path of collected transfers leads from the suspect's wallet, no
\* longer than the hop it was found at (tracing.py, trace_case and _build_graph).
THEOREM CandidatesHavePaths == Spec => []PathsLead
BY SearchInvariant, PathsHold, PTL

\* A wallet of the graph that is no labelled endpoint was queried with success or is a
\* frontier, and an endpoint is not searched beyond, but for the wallet limit and the
\* changes of labels the property names (tracing.py, trace_case and _build_graph).
THEOREM NoWalletForgotten == Spec => []WalletsAccountedFor
BY SearchInvariant, WalletsHold, PTL
=============================================================================
