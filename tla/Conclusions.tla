----------------------------- MODULE Conclusions -----------------------------
(***************************************************************************)
(* What a v2 run concludes from its evidence, and what is made of it:      *)
(* where the labels of the registry stop the flow                          *)
(* (investigation_v2.py), the deposit wallets inferred and put into the    *)
(* registry (deposit_inference.py), the candidates (attribution_v2.py),    *)
(* the saved result and its connections to other cases (results_v2.py,     *)
(* case_connections_v2.py), its assessment (actionability_v2.py) and the   *)
(* request drafts (request_export_v2.py).                                  *)
(*                                                                         *)
(* Runs are coroutines of one event loop: they meet while they trace, and  *)
(* from the inference on a run keeps the loop to its end.  Reviewers and   *)
(* requests work in threads of their own, between any two steps of a run.  *)
(*                                                                         *)
(* Transfers [tx, source, destination, amount] stand in order of time, at  *)
(* times 1, 2, ...  Money moves on as FundFlow books it, without its       *)
(* limits, and balances of other origin are left out.                      *)
(***************************************************************************)
EXTENDS Amounts, SequencesExt

CONSTANTS
  Run, Case, Request,  \* trace runs, cases, requests for a draft
  Address,             \* addresses
  Entity, EntityType,  \* entities and their types
  Scenes,              \* the worlds considered
  Today,               \* the time at which runs conclude, after every transfer
  Never,               \* stale_after of an assertion that does not expire
  ShortDelay           \* short_sweep_delay_seconds, in ticks

Transfer == [tx : Nat, source : Address, destination : Address, amount : Nat]

ActionableRoles ==
  {"VASP_DEPOSIT", "VASP_HOT_WALLET", "VASP_COLD_WALLET", "VASP_COLLECTOR", "CUSTODIAL_SERVICE"}

\* An assertion of the registry.  mark is the inference that left it, if one did.
Label ==
  [address : Address, entity : Entity, type : {"VERIFIED", "RULE_INFERRED", "ML_INFERRED"},
   role : ActionableRoles \cup {"OTHER"}, state : {"UNREVIEWED", "REVIEWED", "REJECTED"}, stale : Nat,
   source : {"DATASET", "OTHER", "RULE_ENGINE"},
   signals : SUBSET {"direct_verified_collector", "outflow_concentration", "repeated_short_delay_sweep",
                     "low_destination_diversity", "independent_corroboration"},
   mark : {<< >>}]

\* A scene has mode: the mode of each case; evidence: run -> [case, root, seed,
\* transfers]; assertions: the registry; posted: what may be posted to it; changes: a
\* bound on posts, reviews and the like.
ASSUME ConclusionsAssumption ==
  /\ Today \in Nat /\ Never \in Nat /\ Never > Today /\ ShortDelay \in Nat
  /\ EntityType \in [Entity -> {"VASP", "MIXER", "BRIDGE", "DEX", "SERVICE", "UNKNOWN"}]
  /\ \A s \in Scenes :
       /\ s.mode \in [Case -> {"LIVE", "RECORDED_REAL", "SYNTHETIC"}]
       /\ s.assertions \in Seq(Label) /\ s.posted \subseteq Label
       /\ DOMAIN s.evidence \subseteq Run
       /\ \A r \in DOMAIN s.evidence :
            /\ s.evidence[r].case \in Case /\ s.evidence[r].root \in Address /\ s.evidence[r].seed \in Nat
            /\ s.evidence[r].transfers \in Seq(Transfer) /\ Len(s.evidence[r].transfers) < Today

VARIABLES
  scene,        \* the world: never changes
  registry,     \* the assertions: [address, entity, type, role, state, stale, source, signals, mark]
  inferences,   \* table deposit_inferences
  results,      \* table investigation_results_v2, in the order of the inserts
  connections,  \* table case_connections_v2: [from, to, key]
  drafts,       \* table request_drafts_v2
  status,       \* the status of each case
  profile,      \* the readiness profile of each entity: "none", "UNREVIEWED" or "REVIEWED"
  desk,         \* history: posts, reviews, status updates and profiles, in their order
  run,          \* each run
  request       \* each request

tables == <<registry, inferences, results, connections, drafts, status, profile, desk>>
vars == <<scene, tables, run, request>>

Evidence(r) == scene.evidence[r]
Transfers(r) == Evidence(r).transfers
ObservedAt(r) == Len(Transfers(r))
Runs == DOMAIN scene.evidence

Where(s, Test(_)) == {k \in DOMAIN s : Test(s[k])}
AddressesOf(transfers) == UNION {{transfers[i].source, transfers[i].destination} : i \in DOMAIN transfers}

Init ==
  /\ scene \in Scenes
  /\ registry = scene.assertions
  /\ inferences = {} /\ results = << >> /\ connections = {} /\ drafts = {}
  /\ status = [c \in Case |-> "OPEN"]
  /\ profile = [e \in Entity |-> "none"]
  /\ desk = << >>
  /\ run = [r \in Run |-> [at |-> "idle"]]
  /\ request = [q \in Request |-> [at |-> "idle"]]

----------------------------------------------------------------------------
(* The registry, as resolve reads it *)

\* resolve_entity_assertions: the state an assertion has at a time.
EffectiveState(a, at) == IF a.stale <= at THEN "STALE" ELSE a.state

ReviewRank(state) == CASE state = "REVIEWED" -> 3 [] state = "UNREVIEWED" -> 2 [] state = "STALE" -> 1
TypeRank(type) == CASE type = "VERIFIED" -> 3 [] type = "RULE_INFERRED" -> 2 [] type = "ML_INFERRED" -> 1

\* The order of the resolver.  Trust tier, name and identifier break the ties: the
\* place in the registry stands for them.
Outranks(j, k, at) ==
  LET x == ReviewRank(EffectiveState(registry[j], at))
      y == ReviewRank(EffectiveState(registry[k], at))
      u == TypeRank(registry[j].type)
      v == TypeRank(registry[k].type)
  IN  x > y \/ (x = y /\ (u > v \/ (u = v /\ j < k)))

\* EntityResolver.resolve: what the registry has of an address.  Its readers go through it
\* in the order and take the best that will do.
Resolved(address) == Where(registry, LAMBDA a : a.address = address /\ a.state # "REJECTED")
Best(S, at) == {k \in S : \A j \in S \ {k} : Outranks(k, j, at)}

\* _terminal_reason: the best assertion decides, whatever its review state.
TerminalReason(address, at) ==
  LET types == {EntityType[registry[k].entity] : k \in Best(Resolved(address), at)}
  IN  CASE types = {"VASP"}   -> "VERIFIED_VASP"
        [] types = {"MIXER"}  -> "MIXER_BOUNDARY"
        [] types = {"BRIDGE"} -> "BRIDGE_UNRESOLVED"
        [] types = {"DEX"}    -> "DEX_UNRESOLVED"
        [] OTHER -> "none"

----------------------------------------------------------------------------
(* A run: the trace *)

\* From the inference on nothing of a run is awaited.
Turn(r) == \A q \in Run \ {r} : run[q].at \in {"idle", "tracing", "ended", "lost"}

Set(r, x) == run' = [run EXCEPT ![r] = x]

\* base: what the desk had decided when the run began.
StartRun(r) ==
  /\ run[r].at = "idle" /\ Turn(r)
  /\ Set(r, [at |-> "tracing", next |-> 1, base |-> Len(desk), allocations |-> << >>, terminals |-> << >>,
             held |-> [a \in AddressesOf(Transfers(r)) |-> IF a = Evidence(r).root THEN Evidence(r).seed ELSE 0]])
  /\ UNCHANGED <<scene, tables, request>>

\* The money that is neither stopped nor spent before the transfer.
Parents(r, x, source) ==
  {k \in DOMAIN x.allocations :
     /\ Transfers(r)[x.allocations[k].transfer].destination = source
     /\ \A j \in DOMAIN x.terminals : x.terminals[j].parent # k}

\* The flow comes to its next transfer: what its source holds moves, and stops at a
\* boundary the classifier names or where no later transfer leads on.
TraceTransfer(r) ==
  LET x == run[r]
      t == Transfers(r)[x.next]
      amount == IF t.amount <= x.held[t.source] THEN t.amount ELSE x.held[t.source]
      reason == TerminalReason(t.destination, x.next)
      final == IF reason # "none" THEN reason
               ELSE IF \E i \in x.next + 1 .. Len(Transfers(r)) : Transfers(r)[i].source = t.destination
               THEN "none" ELSE "NO_OUTGOING"
      moved == [x EXCEPT !.next = @ + 1,
                  !.allocations = Append(@, [transfer |-> x.next, amount |-> amount,
                                             parents |-> Parents(r, x, t.source)]),
                  !.held[t.source] = @ - amount]
  IN
  /\ x.at = "tracing" /\ x.next <= Len(Transfers(r)) /\ Turn(r)
  /\ Set(r, IF amount = 0 THEN [x EXCEPT !.next = @ + 1]
            ELSE IF final = "none" THEN [moved EXCEPT !.held[t.destination] = @ + amount]
            ELSE [moved EXCEPT !.terminals = Append(@, [address |-> t.destination, amount |-> amount, reason |-> final,
                                                        parent |-> Len(moved.allocations)])])
  /\ UNCHANGED <<scene, tables, request>>

EndTrace(r) ==
  /\ run[r].at = "tracing" /\ run[r].next > Len(Transfers(r)) /\ Turn(r)
  /\ Set(r, [at |-> "inferring", base |-> run[r].base, allocations |-> run[r].allocations,
             terminals |-> run[r].terminals, pending |-> {}, saved |-> {}, inferred |-> {},
             todo |-> SetToSeq({Transfers(r)[i].destination : i \in DOMAIN Transfers(r)})])
  /\ UNCHANGED <<scene, tables, request>>

----------------------------------------------------------------------------
(* A run: the inference of deposit wallets *)

\* Slip: an assertion that was inferred is trusted like a verified one.
TrustedSlip(a, at) ==
  EntityType[a.entity] = "VASP" /\ EffectiveState(a, at) = "REVIEWED" /\ a.role \in ActionableRoles

Trusted(a, at) ==
  /\ EntityType[a.entity] = "VASP" /\ a.type = "VERIFIED"
  /\ EffectiveState(a, at) = "REVIEWED" /\ a.role \in ActionableRoles

\* The pairs of a transfer out of the address and a trusted assertion of its target.
Directed(ts, address, entity, at) ==
  {p \in (DOMAIN ts) \X (DOMAIN registry) :
     /\ ts[p[1]].source = address /\ registry[p[2]].address = ts[p[1]].destination
     /\ registry[p[2]].entity = entity /\ Trusted(registry[p[2]], at)}

\* The outflow to the entity: a transfer counts with every trusted assertion of its target.
TargetOutflow(ts, directed) == Total(directed, [p \in directed |-> ts[p[1]].amount])

AmountsOf(ts) == [i \in DOMAIN ts |-> ts[i].amount]
TotalOutflow(ts, address) == Total(Where(ts, LAMBDA t : t.source = address), AmountsOf(ts))

\* Each receipt in turn is paired with the first sweep after it that is not taken yet.
Delays(ts, address, sweeps) ==
  FoldLeft(LAMBDA d, i :
             LET free == {k \in sweeps \ d.used : k >= i}
                 first == CHOOSE k \in free : \A j \in free : k <= j
             IN  IF free = {} THEN d ELSE [used |-> d.used \cup {first}, delays |-> Append(d.delays, first - i)],
           [used |-> {}, delays |-> << >>],
           SetToSortSeq(Where(ts, LAMBDA t : t.destination = address), <)).delays

TwiceMedian(s) == LET o == SortSeq(s, <) IN o[(Len(o) + 1) \div 2] + o[(Len(o) \div 2) + 1]

Concentrated(ts, address, directed) ==
  TotalOutflow(ts, address) > 0 /\ 10 * TargetOutflow(ts, directed) >= 9 * TotalOutflow(ts, address)

Signals(ts, address, directed) ==
  LET delays == Delays(ts, address, {p[1] : p \in directed})
      receivers == {ts[i].destination : i \in Where(ts, LAMBDA t : t.source = address)}
  IN  {"direct_verified_collector"}
      \cup (IF Concentrated(ts, address, directed) THEN {"outflow_concentration"} ELSE {})
      \cup (IF Len(delays) >= 2 /\ TwiceMedian(delays) <= 2 * ShortDelay THEN {"repeated_short_delay_sweep"} ELSE {})
      \cup (IF Cardinality(receivers) <= 2 THEN {"low_destination_diversity"} ELSE {})
      \cup (IF Cardinality({registry[p[2]].source : p \in directed}) > 1 THEN {"independent_corroboration"} ELSE {})

Weights(signals) ==
  [signal \in signals |->
     CASE signal = "direct_verified_collector" -> 30 [] signal = "outflow_concentration" -> 20
       [] signal = "repeated_short_delay_sweep" -> 15 [] OTHER -> 10]

MinimumInferenceScore == 60

\* DepositPatternResolver.infer: what the transfers say of an address, per entity.  The
\* basis is the lineage: the assertions the inference rests on.
Infer(ts, address, at) ==
  LET of(e) == Directed(ts, address, e, at)
      own == [n \in Where(ts, LAMBDA t : address \in {t.source, t.destination}) |-> ts[n]]
      inference(e) == [address |-> address, entity |-> e, transfers |-> own, basis |-> {p[2] : p \in of(e)},
                       signals |-> Signals(ts, address, of(e))]
  IN  {i \in {inference(e) : e \in {x \in Entity : of(x) # {}}} :
         Total(i.signals, Weights(i.signals)) >= MinimumInferenceScore}

\* _infer_deposits takes the addresses in turn and persists what it infers of each.
InferAddress(r) ==
  LET x == run[r] IN
  /\ x.at = "inferring" /\ x.pending = {} /\ x.todo # << >>
  /\ LET found == Infer(Transfers(r), Head(x.todo), ObservedAt(r))
     IN  Set(r, [x EXCEPT !.todo = Tail(@), !.pending = found, !.inferred = @ \cup found])
  /\ UNCHANGED <<scene, tables, request>>

\* persist_unreviewed_inference: the record, if it is new; then the assertion, unless one
\* of the address carries the inference's mark.  saved is the inference that waits for it.
SaveInference(r) ==
  LET x == run[r] IN
  /\ x.at = "inferring"
  /\ \E i \in x.pending :
       /\ inferences' = inferences \cup {i}
       /\ Set(r, [x EXCEPT !.at = "asserting", !.pending = @ \ {i}, !.saved = {i}])
  /\ UNCHANGED <<scene, registry, results, connections, drafts, status, profile, desk, request>>

Marked(i) == Where(registry, LAMBDA a : a.address = i.address /\ a.entity = i.entity /\ a.mark = <<i>>)

InferredAssertion(i) ==
  [address |-> i.address, entity |-> i.entity, type |-> "RULE_INFERRED", role |-> "VASP_DEPOSIT", state |-> "UNREVIEWED",
   stale |-> Never, source |-> "RULE_ENGINE", signals |-> i.signals, mark |-> <<i>>]

AssertInference(r) ==
  /\ run[r].at = "asserting"
  /\ \E i \in run[r].saved :
       registry' = IF Marked(i) # {} THEN registry ELSE Append(registry, InferredAssertion(i))
  /\ Set(r, [run[r] EXCEPT !.at = "inferring", !.saved = {}])
  /\ UNCHANGED <<scene, inferences, results, connections, drafts, status, profile, desk, request>>

EndInference(r) ==
  LET x == run[r] IN
  /\ x.at = "inferring" /\ x.pending = {} /\ x.todo = << >>
  /\ Set(r, [at |-> "attributing", base |-> x.base, allocations |-> x.allocations, terminals |-> x.terminals,
             inferred |-> x.inferred, next |-> 1, groups |-> {}, candidates |-> {}])
  /\ UNCHANGED <<scene, tables, request>>

----------------------------------------------------------------------------
(* A run: the candidates *)

\* _score, over assertions of the registry.
AttributionScore(S, at) ==
  LET inferred == {k \in S : registry[k].type # "VERIFIED"}
      signals == UNION {registry[k].signals : k \in inferred}
      when(test, points) == IF test THEN points ELSE 0
  IN  when(\E k \in S : registry[k].type = "VERIFIED" /\ EffectiveState(registry[k], at) = "REVIEWED", 40)
      + when((\E k \in S : registry[k].role = "VASP_COLLECTOR") \/ "direct_verified_collector" \in signals, 25)
      + when(signals \cap {"outflow_concentration", "repeated_short_delay_sweep", "low_destination_diversity"} # {}, 20)
      + when(Cardinality({registry[k].source : k \in S}) > 1 \/ "independent_corroboration" \in signals, 10)
      + when(S # {} /\ \A k \in S : registry[k].stale > at, 5)

InferredActionableThreshold == 50

MayAct(k, at) ==
  /\ EffectiveState(registry[k], at) = "REVIEWED" /\ registry[k].role \in ActionableRoles
  /\ registry[k].type = "VERIFIED" \/ AttributionScore({k}, at) >= InferredActionableThreshold

\* Slip: only the best assertion of the address is considered.
ActionableSlip(address, at) == {k \in Best(Resolved(address), at) : MayAct(k, at)}

\* _actionable_assertion returns the best of these.
Actionable(address, at) == {k \in Resolved(address) : MayAct(k, at)}

\* Slip: an assertion need not be reviewed.
GroupOfSlip(address, at) ==
  {registry[k].entity : k \in {j \in DOMAIN registry : registry[j].address = address /\ registry[j].role \in ActionableRoles}}

GroupOf(address, at) == {registry[k].entity : k \in Best(Actionable(address, at), at)}

\* Each terminal is grouped under the entity of its actionable assertion.
GroupTerminal(r) ==
  LET x == run[r] IN
  /\ x.at = "attributing" /\ x.next <= Len(x.terminals)
  /\ Set(r, [x EXCEPT !.next = @ + 1,
               !.groups = @ \cup {<<e, x.next>> : e \in GroupOf(x.terminals[x.next].address, ObservedAt(r))}])
  /\ UNCHANGED <<scene, tables, request>>

\* _all_entity_assertions reads the registry again, as of today.
EntityAssertions(e, addresses) ==
  Where(registry, LAMBDA a : a.address \in addresses /\ a.entity = e /\ EffectiveState(a, Today) = "REVIEWED")

CandidateStatus(S) ==
  IF \E k \in S : registry[k].type = "VERIFIED" THEN "VERIFIED"
  ELSE IF S # {} /\ AttributionScore(S, Today) >= InferredActionableThreshold THEN "INFERRED_STRONG"
  ELSE "UNRESOLVED"

\* The entity whose first terminal is the first of those left.
First(groups) == {g \in groups : \A h \in groups : g[2] <= h[2]}

\* _candidate, for one entity: none if nothing reviewed is left of its assertions.
BuildCandidate(r) ==
  LET x == run[r] IN
  /\ x.at = "attributing" /\ x.next > Len(x.terminals)
  /\ \E g \in First(x.groups) :
       LET e == g[1]
           mine == {h[2] : h \in {k \in x.groups : k[1] = e}}
           S == EntityAssertions(e, {x.terminals[k].address : k \in mine})
           candidate == [entity |-> e, terminals |-> mine, evidence |-> S, status |-> CandidateStatus(S),
                         amount |-> Total(mine, AmountsOf(x.terminals))]
       IN  Set(r, [x EXCEPT !.groups = {h \in @ : h[1] # e},
                            !.candidates = IF candidate.status = "UNRESOLVED" THEN @ ELSE @ \cup {candidate}])
  /\ UNCHANGED <<scene, tables, request>>

----------------------------------------------------------------------------
(* A run: the result and its connections *)

Snapshot(r) ==
  [case |-> Evidence(r).case, transfers |-> Transfers(r), allocations |-> run[r].allocations,
   terminals |-> run[r].terminals, candidates |-> run[r].candidates, inferred |-> run[r].inferred]

ResultsOf(c) == Where(results, LAMBDA p : p.snapshot.case = c)

\* InvestigationResultService.create: a result of the same fingerprint is returned as it
\* is; a new one is saved, and then indexed.  noted and registry: what the desk had decided
\* by then, and the assertions there were.
SaveResult(r) ==
  LET x == run[r]
      same == Where(results, LAMBDA p : p.snapshot = Snapshot(r))
  IN
  /\ x.at = "attributing" /\ x.next > Len(x.terminals) /\ x.groups = {}
  /\ IF same # {} THEN Set(r, [at |-> "ended"]) /\ UNCHANGED results
     ELSE /\ results' = Append(results, [snapshot |-> Snapshot(r), by |-> r, base |-> x.base, noted |-> Len(desk),
                                         registry |-> registry])
          /\ Set(r, [at |-> "indexing", result |-> Len(results) + 1])
  /\ UNCHANGED <<scene, registry, inferences, connections, drafts, status, profile, desk, request>>

\* What two results share: addresses, transactions, verified entities.
Keys(p) ==
  LET s == results[p].snapshot
  IN  ({"SAME_ADDRESS"} \X AddressesOf(s.transfers))
      \cup {<<"SAME_TRANSACTION", s.transfers[i].tx>> : i \in DOMAIN s.transfers}
      \cup {<<"SAME_VERIFIED_ENTITY", k.entity>> : k \in {x \in s.candidates : x.status = "VERIFIED"}}

\* Slip: the first result of the other case is taken.
NewestSlip(c) == {k \in ResultsOf(c) : \A j \in ResultsOf(c) : k <= j}

Newest(c) == {k \in ResultsOf(c) : \A j \in ResultsOf(c) : j <= k}

\* CrossCaseIndexerV2.index: the new result against the newest of every other case.
IndexCases(r) ==
  LET p == run[r].result
      others == UNION {Newest(c) : c \in Case \ {Evidence(r).case}}
  IN
  /\ run[r].at = "indexing"
  /\ Set(r, [at |-> "connecting", result |-> p,
             pending |-> UNION {{[from |-> p, to |-> o, key |-> k] : k \in Keys(p) \cap Keys(o)} : o \in others}])
  /\ UNCHANGED <<scene, tables, request>>

SaveConnection(r) ==
  LET x == run[r] IN
  /\ x.at = "connecting"
  /\ IF x.pending = {} THEN Set(r, [at |-> "ended"]) /\ UNCHANGED connections
     ELSE \E k \in x.pending : /\ connections' = connections \cup {k}
                               /\ Set(r, [x EXCEPT !.pending = @ \ {k}])
  /\ UNCHANGED <<scene, registry, inferences, results, drafts, status, profile, desk, request>>

\* An exception of the store, or the end of the process, at any point of the run.
RunLost(r) ==
  /\ run[r].at \notin {"idle", "ended", "lost"}
  /\ Set(r, [at |-> "lost"])
  /\ UNCHANGED <<scene, tables, request>>

----------------------------------------------------------------------------
(* The desk: assertions, reviews, statuses, profiles, drafts *)

Decide(entry) ==
  /\ Len(desk) < scene.changes
  /\ desk' = Append(desk, entry)

\* create_entity_address_assertion: whoever posts an assertion gives its review state.  One
\* that is there already is returned as it is.
PostAssertion(l) ==
  /\ ~ \E k \in DOMAIN registry :
         /\ registry[k].address = l.address /\ registry[k].entity = l.entity /\ registry[k].source = l.source
         /\ registry[k].role = l.role /\ registry[k].type = l.type
  /\ Decide([kind |-> "post", target |-> Len(registry) + 1, state |-> l.state])
  /\ registry' = Append(registry, l)
  /\ UNCHANGED <<scene, inferences, results, connections, drafts, status, profile, run, request>>

ReviewAssertion(k, state) ==
  /\ registry[k].state # state
  /\ Decide([kind |-> "review", target |-> k, state |-> state])
  /\ registry' = [registry EXCEPT ![k].state = state]
  /\ UNCHANGED <<scene, inferences, results, connections, drafts, status, profile, run, request>>

UpdateStatus(c, s) ==
  /\ status[c] # s
  /\ Decide([kind |-> "status", target |-> c, state |-> s])
  /\ status' = [status EXCEPT ![c] = s]
  /\ UNCHANGED <<scene, registry, inferences, results, connections, drafts, profile, run, request>>

\* An entity keeps the first profile registered for it, reviewed or not.
RegisterProfile(e, state) ==
  /\ EntityType[e] = "VASP" /\ profile[e] = "none"
  /\ Decide([kind |-> "profile", target |-> e, state |-> state])
  /\ profile' = [profile EXCEPT ![e] = state]
  /\ UNCHANGED <<scene, registry, inferences, results, connections, drafts, status, run, request>>

\* Slip: the direct parents of an allocation end its lineage.
LineageSlip(allocations, k) == {k} \cup allocations[k].parents

\* _lineage: an allocation and all it was funded from.
Lineage(allocations, k) ==
  {j \in DOMAIN allocations :
     \A S \in SUBSET DOMAIN allocations : (k \in S /\ \A i \in S : allocations[i].parents \subseteq S) => j \in S}

\* _transfer_ids_for_candidate: its terminals' lineages, as transfers.
TransfersFor(s, candidate) ==
  {s.allocations[k].transfer : k \in UNION {Lineage(s.allocations, s.terminals[j].parent) : j \in candidate.terminals}}

\* build_draft: of a result that is not synthetic and a case under review.
AskForDraft(q, p, candidate) ==
  LET s == results[p].snapshot IN
  /\ request[q].at = "idle"
  /\ request' = [request EXCEPT ![q] =
       IF scene.mode[s.case] = "SYNTHETIC" \/ status[s.case] # "UNDER_REVIEW" THEN [at |-> "refused"]
       ELSE [at |-> "drafted", draft |-> [result |-> p, candidate |-> candidate, transfers |-> TransfersFor(s, candidate)]]]
  /\ UNCHANGED <<scene, tables, run>>

SaveDraft(q) ==
  /\ request[q].at = "drafted"
  /\ drafts' = drafts \cup {request[q].draft}
  /\ request' = [request EXCEPT ![q] = [at |-> "saved"]]
  /\ UNCHANGED <<scene, registry, inferences, results, connections, status, profile, desk, run>>

\* ActionabilityEngineV2: blockers, and the amount a request may name.
Blocked(p, candidate) == scene.mode[results[p].snapshot.case] = "SYNTHETIC" \/ candidate.status # "VERIFIED"

MaximumRequestAmount(p, candidate) ==
  IF ~Blocked(p, candidate) /\ profile[candidate.entity] = "REVIEWED" THEN candidate.amount ELSE 0

----------------------------------------------------------------------------
RunStep(r) ==
  \/ StartRun(r) \/ TraceTransfer(r) \/ EndTrace(r)
  \/ InferAddress(r) \/ SaveInference(r) \/ AssertInference(r) \/ EndInference(r)
  \/ GroupTerminal(r) \/ BuildCandidate(r)
  \/ SaveResult(r) \/ IndexCases(r) \/ SaveConnection(r)
  \/ RunLost(r)

DeskStep ==
  \/ \E l \in scene.posted : PostAssertion(l)
  \/ \E k \in DOMAIN registry : \E s \in {"REVIEWED", "REJECTED"} : ReviewAssertion(k, s)
  \/ \E c \in Case : \E s \in {"OPEN", "UNDER_REVIEW", "CLOSED"} : UpdateStatus(c, s)
  \/ \E e \in Entity : \E s \in {"UNREVIEWED", "REVIEWED"} : RegisterProfile(e, s)

RequestStep(q) ==
  \/ \E p \in DOMAIN results : \E k \in results[p].snapshot.candidates : AskForDraft(q, p, k)
  \/ SaveDraft(q)

Next == (\E r \in Runs : RunStep(r)) \/ DeskStep \/ \E q \in Request : RequestStep(q)

Spec == Init /\ [][Next]_vars
----------------------------------------------------------------------------
\* An assertion was accepted: seeded or posted as reviewed, or by a review since.
Accepted(k, until) ==
  \/ k \in DOMAIN scene.assertions /\ scene.assertions[k].state = "REVIEWED"
  \/ \E j \in 1 .. until :
       desk[j].kind \in {"post", "review"} /\ desk[j].target = k /\ desk[j].state = "REVIEWED"

\* Something was decided on an assertion of the address between two moments.
Reconsidered(address, from, until) ==
  \E j \in from + 1 .. until :
    desk[j].kind \in {"post", "review"} /\ registry[desk[j].target].address = address

\* The money that stopped at a VASP is a candidate's: a terminal of the reason
\* VERIFIED_VASP belongs to one candidate, unless, of the address's assertions when the
\* result was saved, none is verified, reviewed and of an actionable role, one was posted
\* or reviewed during the run, or one ran out after the last transfer (attribution_v2.py,
\* build and _candidate; investigation_v2.py, _terminal_reason).
EndpointsAttributed ==
  \A p \in DOMAIN results : LET s == results[p].snapshot IN
    \A j \in Where(s.terminals, LAMBDA t : t.reason = "VERIFIED_VASP") :
      LET a == s.terminals[j].address
          known == {x \in Range(results[p].registry) : x.address = a}
      IN  \/ Cardinality({c \in s.candidates : j \in c.terminals}) = 1
          \/ Reconsidered(a, results[p].base, results[p].noted)
          \/ \A x \in known : ~ Trusted(x, Len(s.transfers))
          \/ \E x \in known : x.stale > Len(s.transfers) /\ x.stale <= Today

\* What a request may ask for rests on reviewers: each address of a candidate has an
\* assertion of the entity in an actionable role that was accepted when the
\* result was saved, and a candidate with a maximum request amount has a verified one; an
\* amount is attributed once, however many terminals and labels an address has
\* (attribution_v2.py; actionability_v2.py, _candidate).
RequestsReviewed ==
  \A p \in DOMAIN results : LET s == results[p].snapshot IN
    /\ Total(s.candidates, [c \in s.candidates |-> c.amount]) <= Total(DOMAIN s.terminals, AmountsOf(s.terminals))
    /\ \A c \in s.candidates :
         LET of(a) == {k \in DOMAIN registry : registry[k].address = a /\ registry[k].entity = c.entity
                                               /\ Accepted(k, results[p].noted)}
             addresses == {s.terminals[j].address : j \in c.terminals}
         IN  /\ \A a \in addresses : \E k \in of(a) : registry[k].role \in ActionableRoles
             /\ MaximumRequestAmount(p, c) > 0 =>
                  \E a \in addresses : \E k \in of(a) : registry[k].type = "VERIFIED"

\* An inference proves nothing to another one and never accepts itself: it rests on
\* verified assertions that had been accepted, and the assertion it leaves is
\* reviewed only by a reviewer.  The outflow it calls concentrated is nine tenths of the
\* wallet's, unless a target has two trusted assertions of the entity, when its
\* transfers count twice (deposit_inference.py, infer and persist_unreviewed_inference).
InferenceGrounded ==
  /\ \A i \in inferences :
       LET sent(to) == Total(Where(i.transfers, LAMBDA t : t.source = i.address /\ t.destination \in to),
                             AmountsOf(i.transfers))
           targets == {registry[k].address : k \in i.basis}
       IN  /\ \A k \in i.basis : registry[k].type = "VERIFIED" /\ Accepted(k, Len(desk))
           /\ \/ "outflow_concentration" \notin i.signals
              \/ 10 * sent(targets) >= 9 * TotalOutflow(i.transfers, i.address)
              \/ \E k, l \in i.basis : k # l /\ registry[k].address = registry[l].address
  /\ \A k \in DOMAIN registry : registry[k].mark # << >> /\ registry[k].state = "REVIEWED" => Accepted(k, Len(desk))

\* Overlapping cases find each other: a result whose run came to its end is connected,
\* under every address, transaction and verified entity they share, to the result that was
\* the newest of each other case when it was saved.  Only a run that broke off after
\* saving its result leaves a gap, which no later run of the same evidence closes
\* (results_v2.py, create; case_connections_v2.py, index).
ConnectionsComplete ==
  \A p, o \in DOMAIN results :
    LET s == results[p].snapshot
        t == results[o].snapshot
    IN  (/\ o < p /\ s.case # t.case
         /\ \A n \in o + 1 .. p - 1 : results[n].snapshot.case # t.case
         /\ run[results[p].by].at = "ended")
        => \A k \in Keys(p) \cap Keys(o) : [from |-> p, to |-> o, key |-> k] \in connections

\* A draft shows the money's way: its transfers lead from the case's seed to each of its
\* addresses, each of them leads on to one of them, and together they bring at least the
\* amount the draft names (request_export_v2.py, _transfer_ids_for_candidate).
DraftShowsWay ==
  \A d \in drafts :
    LET p == results[d.result]
        s == p.snapshot
        targets == {s.terminals[j].address : j \in d.candidate.terminals}
        Leads(i, j) == i < j /\ s.transfers[i].destination = s.transfers[j].source
        funded(i) == s.transfers[i].source = Evidence(p.by).root \/ \E j \in d.transfers : Leads(j, i)
        final == {i \in d.transfers : s.transfers[i].destination \in targets}
    IN  /\ \A a \in targets : \E i \in final : s.transfers[i].destination = a
        /\ \A i \in d.transfers : funded(i) /\ (i \in final \/ \E j \in d.transfers : Leads(i, j))
        /\ Total(final, AmountsOf(s.transfers)) >= d.candidate.amount
=============================================================================
