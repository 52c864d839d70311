----------------------------- MODULE LegacyTrace -----------------------------
(***************************************************************************)
(* The v1 trace (tracing.py TraceService.trace_case): a breadth-first      *)
(* search from the suspect's wallet whose every wallet query is a          *)
(* collection of ProviderPages, then, over what was collected, a FIFO      *)
(* allocation of the disputed amount (flow.py), the ranking of the labelled*)
(* endpoints (attribution.py), the graph, and the saved run with its links *)
(* to the runs of other cases (cross_case.py).  A trace is a coroutine: of *)
(* an endpoint that awaits it, or of a job kept in memory (jobs.py).       *)
(* Several traces share one client; labels are added, changed and expire  *)
(* while they run, and every look-up of a label reads the table anew.      *)
(*                                                                         *)
(* A record of the ledger is [tx, source, destination, amount, token]; its *)
(* transaction gives its time and its place in the order by time and hash. *)
(***************************************************************************)
EXTENDS ProviderPages

CONSTANTS
  SeedLabels,    \* by address, where it has any: its labels, newest first
  PostedLabels   \* the labels that may be added while traces run

\* What an address is, by a label of it, and whether the day the label expires has come.
EntityKind == {"vasp", "bridge", "mixer", "swap"}
Expiry == {"never", "ahead", "past"}
Label == [status : {"APPROVED", "REJECTED", "EXPIRED", "CONFLICT"}, kind : EntityKind, expiry : Expiry]

\* What a trace is asked for; a disputed amount that is not known is -1.
Request ==
  [case : Nat, root : Address, limit : Nat \ {0}, hops : Nat \ {0}, wallets : Nat,
   disputed : Nat \cup {-1}, from : Nat, until : Nat]

ASSUME LegacyAssumption ==
  /\ IsFiniteSet(Address)
  /\ \A s \in Scenes : DOMAIN s.asks \subseteq Caller /\ \A c \in DOMAIN s.asks : s.asks[c] \in Request
  /\ \A a \in DOMAIN SeedLabels : SeedLabels[a] \in Seq(Label)
  /\ PostedLabels \subseteq [address : Address, kind : EntityKind, expiry : Expiry]

VARIABLES
  labels,        \* the labels table, as SeedLabels
  changed,       \* addresses whose labels changed, one entry per change
  trace,         \* the trace of each caller
  runs           \* table trace_runs in order of time: [by, case, roles, alerts]

traceVars == <<pageVars, labels, changed, trace, runs>>

\* What a caller asks: its case, the request and the settings.
Ask(c) == scene.asks[c]
Tracing == DOMAIN scene.asks

Approved(a, i) == labels[a][i].status = "APPROVED" /\ labels[a][i].expiry # "past"
Newest(a) == {i \in DOMAIN labels[a] : Approved(a, i) /\ \A j \in 1 .. i - 1 : ~Approved(a, j)}

\* find_label: none while a label of the address is in conflict, expired or not, else the
\* newest approved one that has not expired.
FindLabel(a) ==
  IF a \notin DOMAIN labels \/ Newest(a) = {} \/ \E i \in DOMAIN labels[a] : labels[a][i].status = "CONFLICT"
  THEN "none" ELSE labels[a][CHOOSE i \in Newest(a) : TRUE].kind

Init ==
  /\ PagesInit
  /\ labels = SeedLabels /\ changed = << >>
  /\ trace = [c \in Caller |->
       IF c \notin Tracing THEN [at |-> "none"]
       ELSE [at |-> "QUEUED", hop |-> 1, frontier |-> <<Ask(c).root>>, next |-> << >>,
             visited |-> {Ask(c).root}, queried |-> 0, transfers |-> << >>, pending |-> << >>,
             roles |-> [a \in {Ask(c).root} |-> "suspect"], candidates |-> << >>, events |-> << >>,
             upto |-> 0]]
  /\ runs = << >>

Set(c, t) == trace' = [trace EXCEPT ![c] = t]

----------------------------------------------------------------------------
\* TraceJobs.submit has put the job into the dictionary; its coroutine starts.
StartTrace(c) ==
  /\ trace[c].at = "QUEUED"
  /\ Set(c, [trace[c] EXCEPT !.at = "query"])
  /\ UNCHANGED <<pageVars, labels, changed, runs>>

HopEnded(t) == t.at = "query" /\ t.frontier = << >>
SearchEnded(t, c) == HopEnded(t) /\ (t.next = << >> \/ t.hop = Ask(c).hops)

\* A hop's frontier is through, or the wallet limit broke it off.
EndHop(c) ==
  LET t == trace[c] IN
  /\ HopEnded(t) /\ ~SearchEnded(t, c)
  /\ Set(c, [t EXCEPT !.hop = @ + 1, !.frontier = t.next, !.next = << >>])
  /\ UNCHANGED <<pageVars, labels, changed, runs>>

\* Slip: the endpoints are left to the attribution.
InfrastructureSlip(roles) == {a \in DOMAIN roles : roles[a] \notin {"suspect", "vasp"}}

Infrastructure(roles) == {a \in DOMAIN roles : roles[a] # "suspect"}

\* CrossCaseEngine.find_links: the runs of other cases with a wallet in common.
Links(roles, case) ==
  LET shared(k) == Infrastructure(roles) \cap Infrastructure(runs[k].roles)
  IN  {[run |-> k, shared |-> shared(k)] : k \in {n \in DOMAIN runs : runs[n].case # case /\ shared(n) # {}}}

\* From the end of the search to save_run nothing is awaited.  upto notes how often the
\* labels had changed by then.
Conclude(c) ==
  LET t == trace[c] IN
  /\ SearchEnded(t, c)
  /\ runs' = Append(runs, [by |-> c, case |-> Ask(c).case, roles |-> t.roles, alerts |-> Links(t.roles, Ask(c).case)])
  /\ Set(c, [t EXCEPT !.at = "done", !.upto = Len(changed)])
  /\ UNCHANGED <<pageVars, labels, changed>>

\* The database stays locked by other threads, and save_run raises.
SaveFails(c) ==
  /\ SearchEnded(trace[c], c)
  /\ Set(c, [trace[c] EXCEPT !.at = "raised"])
  /\ UNCHANGED <<pageVars, labels, changed, runs>>

AtLimit(t, c) == t.queried >= Ask(c).wallets

\* The wallet the limit stops at is noted; the rest of the hop's frontier is dropped.
BreakOff(c) ==
  LET t == trace[c] IN
  /\ t.at = "query" /\ t.frontier # << >>
  /\ AtLimit(t, c)
  /\ Set(c, [t EXCEPT !.frontier = << >>,
                      !.events = Append(@, [address |-> Head(t.frontier), status |-> "LIMIT_REACHED"])])
  /\ UNCHANGED <<pageVars, labels, changed, runs>>

QueryWallet(c) ==
  LET t == trace[c] IN
  /\ t.at = "query" /\ t.frontier # << >>
  /\ ~AtLimit(t, c)
  /\ Retrieve(c, Head(t.frontier), Ask(c).limit)
  /\ Set(c, [t EXCEPT !.at = "fetching", !.queried = @ + 1])
  /\ UNCHANGED <<labels, changed, runs>>

\* Slip: the wallet is passed over in silence.
PassedOverSlip(t) == [t EXCEPT !.at = "query", !.frontier = Tail(@)]

\* The event of a wallet the provider failed on, and the wallet is passed over.
PassedOver(t) ==
  [t EXCEPT !.at = "query", !.frontier = Tail(@),
            !.events = Append(@, [address |-> Head(t.frontier), status |-> "FAILED"])]

\* A failure ends the trace only if it is of the first query.
QueryFails(c) ==
  LET t == trace[c] IN
  /\ t.at = "fetching" /\ fetch[c].at = "raised"
  /\ Set(c, IF t.transfers = << >> /\ t.queried = 1 THEN [t EXCEPT !.at = "raised"] ELSE PassedOver(t))
  /\ fetch' = [fetch EXCEPT ![c] = NoFetch]
  /\ UNCHANGED <<scene, known, holder, idle, cache, labels, changed, runs>>

InsideWindow(c, i) == Rec(i).tx >= Ask(c).from /\ Rec(i).tx <= Ask(c).until

QueryReturns(c) ==
  LET t == trace[c] IN
  /\ t.at = "fetching" /\ fetch[c].at = "done"
  /\ Set(c, [t EXCEPT !.at = "taking",
                      !.pending = At(fetch[c].got, {k \in DOMAIN fetch[c].got : InsideWindow(c, fetch[c].got[k])}),
                      !.events = Append(@, [address |-> Head(t.frontier), status |-> "CONFIRMED"])])
  /\ fetch' = [fetch EXCEPT ![c] = NoFetch]
  /\ UNCHANGED <<scene, known, holder, idle, cache, labels, changed, runs>>

\* An address is entered once into the next hop's frontier.
Enters(t, c, a) == a \notin t.visited /\ t.hop < Ask(c).hops

\* One transfer of the answer: its destination becomes a candidate, with the place of its
\* transfer, or a node and a wallet of the next hop.  setdefault keeps the first role of a
\* node that is no VASP.
TakeTransfer(c) ==
  LET t == trace[c]
      i == Head(t.pending)
      a == Rec(i).destination
      kind == FindLabel(a)
      taken == [t EXCEPT !.pending = Tail(@), !.transfers = Append(@, i)]
  IN
  /\ t.at = "taking" /\ t.pending # << >>
  /\ Set(c, IF kind = "vasp"
            THEN [taken EXCEPT !.roles = [x \in DOMAIN @ \cup {a} |-> IF x = a THEN "vasp" ELSE @[x]],
                               !.candidates = Append(@, [address |-> a, hop |-> t.hop, place |-> Len(t.transfers) + 1])]
            ELSE [taken EXCEPT
                    !.roles = [x \in DOMAIN @ \cup {a} |-> IF x \in DOMAIN @ THEN @[x]
                                                           ELSE IF kind = "none" THEN "observed" ELSE kind],
                    !.visited = IF Enters(t, c, a) THEN @ \cup {a} ELSE @,
                    !.next = IF Enters(t, c, a) THEN Append(@, a) ELSE @])
  /\ UNCHANGED <<pageVars, labels, changed, runs>>

EndWallet(c) ==
  LET t == trace[c] IN
  /\ t.at = "taking" /\ t.pending = << >>
  /\ Set(c, [t EXCEPT !.at = "query", !.frontier = Tail(@)])
  /\ UNCHANGED <<pageVars, labels, changed, runs>>

\* The labels of an address change between any two steps of a trace: by a request in a
\* thread of its own, or as time passes.  The scene bounds the changes.
ChangeLabels(a, new) ==
  /\ Len(changed) < scene.changes
  /\ labels' = [x \in DOMAIN labels \cup {a} |-> IF x = a THEN new ELSE labels[x]]
  /\ changed' = Append(changed, a)
  /\ UNCHANGED <<pageVars, trace, runs>>

\* review_label.
ReviewLabel(a, i, status) ==
  /\ labels[a][i].status # status
  /\ ChangeLabels(a, [labels[a] EXCEPT ![i].status = status])

\* The moment of expires_at comes.
LabelExpires(a, i) ==
  /\ labels[a][i].expiry = "ahead"
  /\ ChangeLabels(a, [labels[a] EXCEPT ![i].expiry = "past"])

LabelsOf(a) == IF a \in DOMAIN labels THEN labels[a] ELSE << >>

\* add_label: approved at once, or in conflict with an approved label, expired or not,
\* that names another owner.
AddLabel(posted, status) ==
  LET old == LabelsOf(posted.address) IN
  /\ status = "CONFLICT" => \E i \in DOMAIN old : old[i].status = "APPROVED"
  /\ ChangeLabels(posted.address, <<[status |-> status, kind |-> posted.kind, expiry |-> posted.expiry]>> \o old)

----------------------------------------------------------------------------
\* The operators below are what trace_case computes when its search has ended.

\* FlowAllocator.analyze: in order of time and hash, a transfer takes what is left at
\* its source, up to its amount.
Before(t, j, k) ==
  LET x == Rec(t.transfers[j]).tx
      y == Rec(t.transfers[k]).tx
  IN  x < y \/ (x = y /\ j < k)

Ordered(t) ==
  LET places == Listing([k \in DOMAIN t.transfers |-> {j \in DOMAIN t.transfers : Before(t, j, k)}])
  IN  [k \in DOMAIN places |-> t.transfers[places[k]]]

RootOutgoing(t, root) ==
  Total({k \in DOMAIN t.transfers : Rec(t.transfers[k]).source = root},
        [k \in DOMAIN t.transfers |-> Rec(t.transfers[k]).amount])

Starting(t, c) == IF Ask(c).disputed < 0 THEN RootOutgoing(t, Ask(c).root) ELSE Ask(c).disputed

\* Slip: a transfer takes its amount whatever is left at its source.
AttributableSlip(amount, available) == amount

Attributable(amount, available) == Least(amount, available)

Moved(left, r) ==
  LET x == Attributable(r.amount, left[r.source])
  IN  [a \in Address |-> left[a] - (IF a = r.source THEN x ELSE 0) + (IF a = r.destination THEN x ELSE 0)]

\* The balances after the first transfers of an order.
Balances(t, c) ==
  LET order == Ordered(t)
      left[k \in 0 .. Len(order)] ==
        IF k = 0 THEN [a \in Address |-> IF a = Ask(c).root THEN Starting(t, c) ELSE 0]
        ELSE Moved(left[k - 1], Rec(order[k]))
  IN  left

\* What each transfer takes.
Taken(t, c) ==
  LET order == Ordered(t)
      left == Balances(t, c)
  IN  [k \in DOMAIN order |-> Attributable(Rec(order[k]).amount, left[k - 1][Rec(order[k]).source])]

\* rank: allocations are looked up by transaction and destination, where the last one
\* stays; a candidate without an amount is dropped.
AllocationOf(t, c, cand) ==
  LET order == Ordered(t)
      same == {k \in DOMAIN order : /\ Rec(order[k]).tx = Rec(t.transfers[cand.place]).tx
                                    /\ Rec(order[k]).destination = cand.address}
  IN  Taken(t, c)[CHOOSE k \in same : \A j \in same : j <= k]

AllocationsOf(t, c) == [k \in DOMAIN t.candidates |-> AllocationOf(t, c, t.candidates[k])]

\* Slip: a candidate counts once, however many transfers led to it.
RankedSlip(t, c, a) ==
  LET first == {k \in DOMAIN t.candidates : t.candidates[k].address = a /\ \A j \in 1 .. k - 1 : t.candidates[j].address # a}
  IN  Total(first, AllocationsOf(t, c))

\* The amount ranked for an endpoint, over the hops it was seen at.
Ranked(t, c, a) == Total({k \in DOMAIN t.candidates : t.candidates[k].address = a}, AllocationsOf(t, c))

\* _build_graph: breadth-first distances over the collected transfers.  A wallet that is
\* farther than the transfers reach has none.
Edges(t) == {<<Rec(t.transfers[k]).source, Rec(t.transfers[k]).destination>> : k \in DOMAIN t.transfers}

\* Slip: a labelled endpoint is left out of the graph.
ReachSlip(edges, root) ==
  LET within[h \in 0 .. Cardinality(Address)] ==
        IF h = 0 THEN {root}
        ELSE LET w == within[h - 1]
             IN  w \cup {e[2] : e \in {x \in edges : x[1] \in w /\ FindLabel(x[2]) # "vasp"}}
  IN  within

Reach(edges, root) ==
  LET within[h \in 0 .. Cardinality(Address)] ==
        IF h = 0 THEN {root}
        ELSE LET w == within[h - 1]
             IN  w \cup {e[2] : e \in {x \in edges : x[1] \in w}}
  IN  within

Distance(edges, root, a) ==
  LET within == Reach(edges, root)
      hops == {h \in DOMAIN within : a \in within[h]}
  IN  IF hops = {} THEN Cardinality(Address) + 1 ELSE CHOOSE h \in hops : \A g \in hops : h <= g

\* The frontiers of the graph: why the search went no further from an address.
Frontiers(t, c) ==
  LET status(s) == {t.events[k].address : k \in {j \in DOMAIN t.events : t.events[j].status = s}}
      far(a) == Distance(Edges(t), Ask(c).root, a)
      depth(a) == IF far(a) > Cardinality(Address) THEN 0 ELSE far(a)
      open == {a \in DOMAIN t.roles : t.roles[a] # "vasp"}
  IN  {[address |-> a, reason |-> "provider_failure"] : a \in status("FAILED")}
      \cup {[address |-> a, reason |-> "wallet_query_limit"] : a \in status("LIMIT_REACHED")}
      \cup {[address |-> a, reason |-> "hop_limit"] :
              a \in {x \in open : depth(x) >= Ask(c).hops /\ x # Ask(c).root}}
      \cup {[address |-> a, reason |-> "no_matching_outbound_transfer"] :
              a \in {x \in open : /\ depth(x) < Ask(c).hops \/ x = Ask(c).root
                                  /\ x \in status("CONFIRMED")
                                  /\ \A e \in Edges(t) : e[1] # x}}

----------------------------------------------------------------------------
TraceStep(c) ==
  \/ StartTrace(c) \/ EndHop(c) \/ Conclude(c) \/ SaveFails(c)
  \/ BreakOff(c) \/ QueryWallet(c) \/ QueryFails(c) \/ QueryReturns(c)
  \/ TakeTransfer(c) \/ EndWallet(c)

FetchOf(c) == FetchStep(c) /\ UNCHANGED <<labels, changed, trace, runs>>
TimePasses == Tick /\ UNCHANGED <<labels, changed, trace, runs>>
Confirms == Confirm /\ UNCHANGED <<labels, changed, trace, runs>>

LabelsChange ==
  \/ \E a \in DOMAIN labels : \E i \in DOMAIN labels[a] :
       LabelExpires(a, i) \/ \E s \in {"APPROVED", "REJECTED"} : ReviewLabel(a, i, s)
  \/ \E p \in PostedLabels : \E s \in {"APPROVED", "CONFLICT"} : AddLabel(p, s)

Next == (\E c \in Tracing : TraceStep(c) \/ FetchOf(c)) \/ TimePasses \/ Confirms \/ LabelsChange

\* The event loop runs every coroutine that can run, every request ends (the HTTP
\* client has a timeout), and time passes.
Spec ==
  /\ Init /\ [][Next]_traceVars
  /\ \A c \in Caller : WF_traceVars(c \in Tracing /\ (TraceStep(c) \/ FetchOf(c)))
  /\ WF_traceVars(TimePasses)

----------------------------------------------------------------------------
Done(c) == c \in Tracing /\ trace[c].at = "done"

\* The disputed amount is moved, never made or lost: the balances add up to it, and the
\* part reported as allocated exceeds it only by what came back to the suspect's wallet
\* (flow.py, FlowAllocator.analyze).
FifoConserves ==
  \A c \in Caller : Done(c) =>
    LET t == trace[c]
        order == Ordered(t)
        last == Balances(t, c)[Len(order)]
        moved(S) == Total(S, Taken(t, c))
    IN  /\ Total(Address, last) = Starting(t, c)
        /\ \A a \in Address : last[a] >= 0
        /\ moved({k \in DOMAIN order : Rec(order[k]).source = Ask(c).root})
             <= Starting(t, c) + moved({k \in DOMAIN order : Rec(order[k]).destination = Ask(c).root})

\* What is ranked for an endpoint is what FIFO allocated to its address, unless one
\* transaction pays it more than once, a record was collected twice, or one of its labels
\* was added, was changed or expired before the trace ended (attribution.py, rank).
EndpointAmounts ==
  \A c \in Caller : Done(c) =>
    LET t == trace[c]
        order == Ordered(t)
        paid(a) == {k \in DOMAIN order : Rec(order[k]).destination = a}
    IN  \A k \in DOMAIN t.candidates : LET a == t.candidates[k].address IN
          \/ Ranked(t, c, a) = Total(paid(a), Taken(t, c))
          \/ \E i, j \in paid(a) : i # j /\ Rec(order[i]).tx = Rec(order[j]).tx
          \/ \E j \in 1 .. t.upto : changed[j] = a

\* No more is attributed to a transfer than it moved: a record is collected twice only
\* from an EVM wallet whose records fill a page or more, since pages shrink and overlap
\* (ethereum.py, outgoing_erc20_transfers; flow.py).
AttributedOnce ==
  \A c \in Caller : Done(c) =>
    LET t == trace[c]
        order == Ordered(t)
    IN  \A i \in {order[k] : k \in DOMAIN order} :
          \/ Total({k \in DOMAIN order : order[k] = i}, Taken(t, c)) <= Rec(i).amount
          \/ scene.client = "evm" /\ Len(History(Rec(i).source)) >= Least(PageCap, Ask(c).limit)

\* Every candidate can be shown: a path of collected transfers leads from the suspect's
\* wallet to it, no longer than the hop it was found at (tracing.py, _build_graph).
PathsLead ==
  \A c \in Caller : Done(c) =>
    \A k \in DOMAIN trace[c].candidates : LET cand == trace[c].candidates[k] IN
      /\ cand.hop <= Ask(c).hops
      /\ Distance(Edges(trace[c]), Ask(c).root, cand.address) <= cand.hop

\* A wallet the search left out is accounted for: each wallet of the graph that is no
\* labelled endpoint was queried with success or is on the list of frontiers, unless the
\* wallet limit cut its hop off; and an endpoint is not searched beyond.  A label that is
\* added, is changed or expires before the trace has ended can spoil both: a label of the
\* wallet itself, or of a wallet the search passed by and came back to later, whose
\* receivers are then nearer in the graph than the search was deep (tracing.py, trace_case
\* and _build_graph).
WalletsAccountedFor ==
  \A c \in Caller : Done(c) =>
    LET t == trace[c]
        confirmed == {t.events[k].address : k \in {j \in DOMAIN t.events : t.events[j].status = "CONFIRMED"}}
        listed == {f.address : f \in Frontiers(t, c)}
        again(a) == \E j \in 1 .. t.upto : changed[j] \in {a} \cup confirmed
    IN  \A a \in DOMAIN t.roles :
          IF t.roles[a] = "vasp"
          THEN a \in confirmed => a = Ask(c).root \/ \E j \in 1 .. t.upto : changed[j] = a
          ELSE \/ a \in confirmed \cup listed
               \/ \E f \in Frontiers(t, c) : f.reason = "wallet_query_limit"
               \/ again(a)

Reached(c) == {Rec(trace[c].transfers[k]).destination : k \in DOMAIN trace[c].transfers}

\* The money two cases lost meets in the open: of two saved runs of different cases the
\* later one alerts to every wallet that money was seen to reach in both, whichever trace
\* began first and whatever the wallet is labelled, unless it is the wallet of a suspect
\* (cross_case.py, find_links; tracing.py, trace_case).
RunsLinked ==
  \A o \in DOMAIN runs : \A p \in 1 .. o - 1 :
    runs[p].case # runs[o].case =>
      \A a \in (Reached(runs[o].by) \cap Reached(runs[p].by)) \ {Ask(runs[o].by).root, Ask(runs[p].by).root} :
        \E l \in runs[o].alerts : l.run = p /\ a \in l.shared

\* Every trace ends, with a result or with the provider's error: retries are bounded and
\* the lock of the client is let go after every request (tracing.py, ethereum.py).
TraceEnds == \A c \in Caller : c \in Tracing ~> c \in Tracing /\ trace[c].at \in {"done", "raised"}
=============================================================================
