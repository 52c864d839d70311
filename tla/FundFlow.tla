------------------------------ MODULE FundFlow ------------------------------
(***************************************************************************)
(* The v2 fund-flow engine (backend/flow_v2.py, FundFlowEngineV2.trace)    *)
(* over the evidence repositories and the observed balances of             *)
(* backend/investigation_v2.py.  A disputed amount arrives at a seed       *)
(* wallet; the engine pops timestamped events from a heap, books each      *)
(* arrival at a wallet, schedules the wallet's outgoing transfers and      *)
(* splits the wallet's balance over them (proportional haircut), until     *)
(* every disputed quantum is at a terminal or retained in a wallet.        *)
(*                                                                         *)
(* Amounts are whole quanta.  A Decimal product of a quotient is a quantum *)
(* next to the exact one (Near); sums are exact, unlike the 28-digit sums  *)
(* of the code.  Transfers are numbered in the order of the engine's sort  *)
(* key (block, transaction, log, time, id).                                *)
(***************************************************************************)
EXTENDS Amounts, Sequences

CONSTANTS
  Address,      \* wallets of the case's chain and asset
  Transfer,     \* transfers of the asset, numbered in the engine's sort order
  Ledgers,      \* the transfer histories considered
  Policies,     \* the trace policies considered
  Modes,        \* how the evidence is collected, see AllModes
  Endpoint,     \* the stop reason of a wallet with a reviewed assertion, or "NONE"
  SeedAddress, SeedAmount, SeedTime

AllModes == {"RECORDED", "LIVE_WALLET", "LIVE_TRANSACTION"}

EndpointReasons ==
  {"VERIFIED_VASP", "MIXER_BOUNDARY", "BRIDGE_UNRESOLVED", "DEX_UNRESOLVED"}

TerminalReason ==
  EndpointReasons \cup {"MAX_HOPS", "MAX_NODES", "TIME_BOUNDARY",
                        "AMOUNT_THRESHOLD", "NO_OUTGOING", "UNKNOWN"}

TransferRecord == [source : Address, destination : Address, amount : Nat, at : Nat]

\* "No end time" and "no time delta" are bounds past the last transfer; floor
\* is the larger of min_attributed_amount and seed amount * min_attributed_share.
TracePolicy == [max_hops : Nat \ {0}, max_nodes : Nat \ {0}, max_edges : Nat \ {0},
                floor : Nat, end_time : Nat, max_delta : Nat \ {0}]

ASSUME FlowAssumption ==
  /\ Transfer \subseteq Nat /\ IsFiniteSet(Transfer)
  /\ Ledgers \subseteq [Transfer -> TransferRecord]
  /\ Policies \subseteq TracePolicy
  /\ Modes \subseteq AllModes
  /\ Endpoint \in [Address -> EndpointReasons \cup {"NONE"}]
  /\ SeedAddress \in Address
  /\ SeedAmount \in Nat \ {0}
  /\ SeedTime \in Nat

VARIABLES
  ledger, policy,      \* the request: never changed
  retained,            \* transfers in the repository (_transfers)
  loaded,              \* addresses the repository will not ask for again
  failed,              \* addresses whose retrieval raised (history)
  queue, sequence,     \* the heap and its tie-breaking counter
  opened,              \* wallets with a WalletState
  tainted, clean,      \* the balances of those states
  nodes,               \* node_addresses
  scheduled, parents,  \* scheduled_transfers, scheduled_parent_ids
  processed,           \* processed_transfers
  allocations, terminals,
  status               \* "running", "done", "failed" (assertion), "cancelled"

request  == <<ledger, policy>>
evidence == <<retained, loaded, failed>>
heap     == <<queue, sequence>>
wallets  == <<opened, tainted, clean, nodes>>
schedule == <<scheduled, parents>>
output   == <<allocations, terminals>>
vars == <<request, evidence, heap, wallets, schedule, processed, output, status>>

ArrivalEvent == [kind : {"arrival"}, at : Nat, seq : Nat, address : Address,
                 amount : Nat, depth : Nat, parents : SUBSET Transfer]

TransferEvent == [kind : {"transfer"}, at : Nat, seq : Nat, transfer : Transfer,
                  amount : {0}, depth : Nat]

Allocation == [transfer : Transfer, depth : Nat, before : Nat, covered : Nat,
               attributed : Nat, parents : SUBSET Transfer]

\* detail tells the two limits apart that share the reason MAX_NODES.
Terminal == [address : Address, amount : Nat, reason : TerminalReason, depth : Nat,
             parents : SUBSET Transfer, detail : {"none", "node limit", "edge limit"}]

-----------------------------------------------------------------------------
(* Evidence and balances *)

Amount == [t \in Transfer |-> ledger[t].amount]

SentBy(a) == {t \in Transfer : ledger[t].source = a}

EffectiveEnd(now) == Least(policy.end_time, now + policy.max_delta)

\* Slip: transfers older than the arrival are not filtered out.
OutgoingOfAnyAge(a, now, pool) ==
  {t \in pool : ledger[t].source = a /\ ledger[t].at <= EffectiveEnd(now)}

Outgoing(a, now, pool) ==
  {t \in pool : /\ ledger[t].source = a
                /\ now <= ledger[t].at /\ ledger[t].at <= EffectiveEnd(now)}

\* ObservedLedgerBalances: received less sent, strictly before the arrival, in
\* what the repository holds at that moment.
ObservedBalance(a, now) ==
  LET received == {t \in retained : ledger[t].destination = a /\ ledger[t].at < now}
      sent     == {t \in retained : ledger[t].source = a /\ ledger[t].at < now}
  IN  AtLeastZero(Total(received, Amount) - Total(sent, Amount))

\* What a retrieval may add: nothing for an address already asked for, else
\* whatever bounded page set the provider returns.
Answers(a) == IF a \in loaded THEN {{}} ELSE SUBSET SentBy(a)

\* The repository a trace starts from, one of three.  The seed transfer comes from
\* a wallet outside the model; it is never strictly before its own arrival, so it
\* adds to no balance the seed wallet is opened with.
Init ==
  /\ ledger \in Ledgers
  /\ policy \in Policies
  /\ failed = {}
  /\ \E mode \in Modes :
       \/ mode = "RECORDED" /\ retained = Transfer /\ loaded = Address
       \/ /\ mode = "LIVE_WALLET" /\ loaded = {SeedAddress}
          /\ retained \in SUBSET SentBy(SeedAddress)
       \/ /\ mode = "LIVE_TRANSACTION" /\ loaded = {}
          /\ retained \in SUBSET {t \in Transfer : ledger[t].at = SeedTime}
  /\ queue = {[kind |-> "arrival", at |-> SeedTime, seq |-> 0, address |-> SeedAddress,
               amount |-> SeedAmount, depth |-> 0, parents |-> {}]}
  /\ sequence = 1
  /\ opened = {} /\ nodes = {}
  /\ tainted = [a \in Address |-> 0]
  /\ clean = [a \in Address |-> 0]
  /\ scheduled = {} /\ processed = {}
  /\ parents = [t \in Transfer |-> {}]
  /\ allocations = <<>> /\ terminals = <<>>
  /\ status = "running"

-----------------------------------------------------------------------------
(* The event loop *)

\* heapq order: timestamp, then insertion sequence.
IsNext(e) ==
  /\ e \in queue
  /\ \A f \in queue : e.at < f.at \/ (e.at = f.at /\ e.seq <= f.seq)

Pop(e) == status = "running" /\ IsNext(e)

Drop(e) == queue' = queue \ {e} /\ UNCHANGED sequence

Stop(address, amount, reason, depth, lineage, detail) ==
  terminals' = Append(terminals,
    [address |-> address, amount |-> amount, reason |-> reason, depth |-> depth,
     parents |-> lineage, detail |-> detail])

\* should_cancel() is polled before each event.
CancelTrace ==
  /\ status = "running" /\ queue # {}
  /\ status' = "cancelled"
  /\ UNCHANGED <<request, evidence, heap, wallets, schedule, processed, output>>

PastEnd(e) ==
  /\ Pop(e) /\ e.at > policy.end_time
  /\ Drop(e)
  /\ IF e.kind = "arrival"
     THEN Stop(e.address, e.amount, "TIME_BOUNDARY", e.depth, e.parents, "none")
     ELSE UNCHANGED terminals
  /\ UNCHANGED <<request, evidence, wallets, schedule, processed, allocations, status>>

(* Arrivals *)

Arrives(e) ==
  /\ Pop(e) /\ e.kind = "arrival" /\ e.at <= policy.end_time
  /\ nodes' = nodes \cup {e.address}
  /\ UNCHANGED <<request, processed, allocations, status>>

\* Slip: the limit is compared before the wallet is counted.
WithinNodesLate(e) == Cardinality(nodes) <= policy.max_nodes

WithinNodes(e) == Cardinality(nodes \cup {e.address}) <= policy.max_nodes

\* states.get(address_key), created from the observed balance when missing.
OpenWallet(e) ==
  /\ opened' = opened \cup {e.address}
  /\ clean' = IF e.address \in opened THEN clean
              ELSE [clean EXCEPT ![e.address] = ObservedBalance(e.address, e.at)]

ArriveOverNodeLimit(e) ==
  /\ Arrives(e) /\ ~WithinNodes(e)
  /\ Drop(e)
  /\ Stop(e.address, e.amount, "MAX_NODES", e.depth, e.parents, "node limit")
  /\ UNCHANGED <<evidence, opened, tainted, clean, schedule>>

\* Slip: the booked amount is not taken back when the provider raises.
ArriveProviderFailsBooked(e) ==
  /\ Arrives(e) /\ WithinNodes(e) /\ e.address \notin loaded
  /\ OpenWallet(e)
  /\ tainted' = [tainted EXCEPT ![e.address] = @ + e.amount]
  /\ loaded' = loaded \cup {e.address}
  /\ failed' = failed \cup {e.address}
  /\ Drop(e)
  /\ Stop(e.address, e.amount, "UNKNOWN", e.depth, e.parents, "none")
  /\ UNCHANGED <<retained, schedule>>

\* The address is marked as loaded before the provider is awaited, and stays so
\* when the provider raises; the amount just booked is taken back.
ArriveProviderFails(e) ==
  /\ Arrives(e) /\ WithinNodes(e) /\ e.address \notin loaded
  /\ OpenWallet(e)
  /\ loaded' = loaded \cup {e.address}
  /\ failed' = failed \cup {e.address}
  /\ Drop(e)
  /\ Stop(e.address, e.amount, "UNKNOWN", e.depth, e.parents, "none")
  /\ UNCHANGED <<retained, tainted, schedule>>

Retrieve(e, answer) ==
  /\ Arrives(e) /\ WithinNodes(e) /\ answer \in Answers(e.address)
  /\ OpenWallet(e)
  /\ retained' = retained \cup answer
  /\ loaded' = loaded \cup {e.address}
  /\ UNCHANGED failed

\* Slip: the booked amount is not taken back from a wallet that spent nothing.
ArriveNoOutgoingBooked(e, answer) ==
  /\ Retrieve(e, answer)
  /\ Outgoing(e.address, e.at, retained \cup answer) = {}
  /\ tainted' = [tainted EXCEPT ![e.address] = @ + e.amount]
  /\ Drop(e)
  /\ Stop(e.address, e.amount, "NO_OUTGOING", e.depth, e.parents, "none")
  /\ UNCHANGED schedule

ArriveNoOutgoing(e, answer) ==
  /\ Retrieve(e, answer)
  /\ Outgoing(e.address, e.at, retained \cup answer) = {}
  /\ Drop(e)
  /\ Stop(e.address, e.amount, "NO_OUTGOING", e.depth, e.parents, "none")
  /\ UNCHANGED <<tainted, schedule>>

\* The transfers of out that find max_edges used up when the loop reaches them.
OverEdgeLimit(out) ==
  {t \in out \ scheduled :
     Cardinality(scheduled) + Cardinality({u \in out \ scheduled : u < t}) >= policy.max_edges}

\* The loop breaks at the first of them.
Visited(out) == {t \in out : \A u \in OverEdgeLimit(out) : t < u}

\* Heap entries for newly scheduled transfers, numbered in sort order.
Departures(e, new) ==
  {[kind |-> "transfer", at |-> ledger[t].at, transfer |-> t, amount |-> 0,
    seq |-> sequence + Cardinality({u \in new : u < t}), depth |-> e.depth + 1] : t \in new}

\* Slip: a transfer that is scheduled already does not get the new parents.
ArriveScheduleUnmerged(e, answer) ==
  LET out == Outgoing(e.address, e.at, retained \cup answer)
      new == Visited(out) \ scheduled
  IN  /\ Retrieve(e, answer)
      /\ out # {}
      /\ tainted' = [tainted EXCEPT ![e.address] = @ + e.amount]
      /\ scheduled' = scheduled \cup new
      /\ parents' = [t \in Transfer |-> IF t \in new THEN e.parents ELSE parents[t]]
      /\ queue' = (queue \ {e}) \cup Departures(e, new)
      /\ sequence' = sequence + Cardinality(new)
      /\ IF OverEdgeLimit(out) = {}
         THEN UNCHANGED terminals
         ELSE Stop(e.address, e.amount, "MAX_NODES", e.depth, e.parents, "edge limit")

ArriveSchedule(e, answer) ==
  LET out == Outgoing(e.address, e.at, retained \cup answer)
      new == Visited(out) \ scheduled
  IN  /\ Retrieve(e, answer)
      /\ out # {}
      /\ tainted' = [tainted EXCEPT ![e.address] = @ + e.amount]
      /\ scheduled' = scheduled \cup new
      /\ parents' = [t \in Transfer |->
                       IF t \in Visited(out) THEN parents[t] \cup e.parents ELSE parents[t]]
      /\ queue' = (queue \ {e}) \cup Departures(e, new)
      /\ sequence' = sequence + Cardinality(new)
      /\ IF OverEdgeLimit(out) = {}
         THEN UNCHANGED terminals
         ELSE Stop(e.address, e.amount, "MAX_NODES", e.depth, e.parents, "edge limit")

(* Transfers *)

\* The quanta that n / d may come to, rounded as a quotient and again as a product.
Near(n, d) ==
  LET q == n \div d
  IN  IF n = 0 THEN {0} ELSE IF n % d = 0 THEN q - 1 .. q + 1 ELSE q .. q + 1

Balance(a) == tainted[a] + clean[a]

\* Slip: the whole balance is spent, whatever the transfer moved.
CoveredByBalance(t) == Balance(ledger[t].source)

Covered(t) == Least(ledger[t].amount, Balance(ledger[t].source))

\* covered * (part / total), or nothing from an empty wallet; the whole of it is exact.
Share(t, part) ==
  IF Balance(ledger[t].source) = 0 THEN {0}
  ELSE IF part = Balance(ledger[t].source) THEN {Covered(t)}
  ELSE Near(Covered(t) * part, Balance(ledger[t].source))

Departs(e) ==
  /\ Pop(e) /\ e.kind = "transfer" /\ e.at <= policy.end_time
  /\ UNCHANGED <<request, evidence, opened, nodes, schedule, status>>

\* The events the engine discards before it touches a balance.
Stale(e) == e.transfer \in processed \/ ledger[e.transfer].source \notin opened

\* ProportionalHaircutPolicy.allocate: attributed and haircut are what the
\* tainted and the clean balance give up.
Allocate(e, attributed, haircut) ==
  LET a == ledger[e.transfer].source
  IN  /\ tainted' = [tainted EXCEPT ![a] = AtLeastZero(@ - attributed)]
      /\ clean' = [clean EXCEPT ![a] = AtLeastZero(@ - haircut)]
      /\ processed' = processed \cup {e.transfer}

Attributed(e) ==
  LET before == tainted[ledger[e.transfer].source]
  IN  {Least(before, share) : share \in Share(e.transfer, before)}

Haircut(e) == Share(e.transfer, clean[ledger[e.transfer].source])

Record(e, attributed) ==
  allocations' = Append(allocations,
    [transfer |-> e.transfer, depth |-> e.depth, parents |-> parents[e.transfer],
     before |-> tainted[ledger[e.transfer].source], covered |-> Covered(e.transfer),
     attributed |-> attributed])

\* Why an attributed amount goes no further, in the order the engine asks.
StopReason(e, attributed) ==
  IF Endpoint[ledger[e.transfer].destination] # "NONE"
  THEN Endpoint[ledger[e.transfer].destination]
  ELSE IF e.depth >= policy.max_hops THEN "MAX_HOPS"
  ELSE IF attributed < policy.floor THEN "AMOUNT_THRESHOLD" ELSE "NONE"

\* Slip: the event is read but not taken out of the heap.
SkipTransferPeeks(e, haircut) ==
  /\ Departs(e) /\ haircut \in Haircut(e)
  /\ IF Stale(e)
     THEN processed' = processed \cup {e.transfer} /\ UNCHANGED <<tainted, clean>>
     ELSE 0 \in Attributed(e) /\ Allocate(e, 0, haircut)
  /\ UNCHANGED <<heap, output>>

\* Stale events are dropped; an allocation of nothing still spends clean balance.
SkipTransfer(e, haircut) ==
  /\ Departs(e) /\ haircut \in Haircut(e)
  /\ IF Stale(e)
     THEN processed' = processed \cup {e.transfer} /\ UNCHANGED <<tainted, clean>>
     ELSE 0 \in Attributed(e) /\ Allocate(e, 0, haircut)
  /\ Drop(e)
  /\ UNCHANGED output

\* Slip: the terminal names the wallet that sent.
StopTransferAtSender(e, attributed, haircut) ==
  /\ Departs(e) /\ ~Stale(e) /\ haircut \in Haircut(e)
  /\ attributed \in Attributed(e) /\ attributed > 0
  /\ StopReason(e, attributed) # "NONE"
  /\ Allocate(e, attributed, haircut)
  /\ Record(e, attributed)
  /\ Drop(e)
  /\ Stop(ledger[e.transfer].source, attributed, StopReason(e, attributed),
          e.depth, {e.transfer}, "none")

StopTransfer(e, attributed, haircut) ==
  /\ Departs(e) /\ ~Stale(e) /\ haircut \in Haircut(e)
  /\ attributed \in Attributed(e) /\ attributed > 0
  /\ StopReason(e, attributed) # "NONE"
  /\ Allocate(e, attributed, haircut)
  /\ Record(e, attributed)
  /\ Drop(e)
  /\ Stop(ledger[e.transfer].destination, attributed, StopReason(e, attributed),
          e.depth, {e.transfer}, "none")

ForwardTransfer(e, attributed, haircut) ==
  /\ Departs(e) /\ ~Stale(e) /\ haircut \in Haircut(e)
  /\ attributed \in Attributed(e) /\ attributed > 0
  /\ StopReason(e, attributed) = "NONE"
  /\ Allocate(e, attributed, haircut)
  /\ Record(e, attributed)
  /\ queue' = (queue \ {e}) \cup
       {[kind |-> "arrival", at |-> ledger[e.transfer].at, seq |-> sequence,
         address |-> ledger[e.transfer].destination, amount |-> attributed,
         depth |-> e.depth, parents |-> {e.transfer}]}
  /\ sequence' = sequence + 1
  /\ UNCHANGED terminals

(* The totals of the result *)

TerminalAmount == Total(DOMAIN terminals, [i \in DOMAIN terminals |-> terminals[i].amount])
RetainedAmount == Total(Address, tainted)
InFlightAmount == Total(queue, [e \in queue |-> e.amount])

Finish ==
  /\ status = "running" /\ queue = {}
  /\ status' = IF TerminalAmount + RetainedAmount > SeedAmount THEN "failed" ELSE "done"
  /\ UNCHANGED <<request, evidence, heap, wallets, schedule, processed, output>>

Arrive(e) ==
  \/ ArriveOverNodeLimit(e)
  \/ ArriveProviderFails(e)
  \/ \E answer \in Answers(e.address) : ArriveNoOutgoing(e, answer)
  \/ \E answer \in Answers(e.address) : ArriveSchedule(e, answer)

Depart(e) ==
  \E haircut \in Haircut(e) :
    \/ SkipTransfer(e, haircut)
    \/ \E attributed \in Attributed(e) : StopTransfer(e, attributed, haircut)
    \/ \E attributed \in Attributed(e) : ForwardTransfer(e, attributed, haircut)

Step(e) ==
  \/ PastEnd(e)
  \/ e.kind = "arrival" /\ Arrive(e)
  \/ e.kind = "transfer" /\ Depart(e)

Next == CancelTrace \/ Finish \/ \E e \in queue : Step(e)

Spec == Init /\ [][Next]_vars

\* The trace coroutine is resumed whenever it can continue.
FairSpec == Spec /\ WF_vars(Finish \/ \E e \in queue : Step(e))

-----------------------------------------------------------------------------
(* Properties *)

TypeOK ==
  /\ ledger \in [Transfer -> TransferRecord]
  /\ policy \in TracePolicy
  /\ retained \subseteq Transfer /\ loaded \subseteq Address /\ failed \subseteq loaded
  /\ queue \subseteq ArrivalEvent \cup TransferEvent
  /\ sequence \in Nat
  /\ opened \subseteq Address /\ nodes \subseteq Address
  /\ tainted \in [Address -> Nat]
  /\ clean \in [Address -> Nat]
  /\ scheduled \subseteq Transfer /\ processed \subseteq Transfer
  /\ parents \in [Transfer -> SUBSET Transfer]
  /\ allocations \in Seq(Allocation)
  /\ terminals \in Seq(Terminal)
  /\ status \in {"running", "done", "failed", "cancelled"}

EdgeLimitReached == \E i \in DOMAIN terminals : terminals[i].detail = "edge limit"

\* Unless max_edges cut a wallet's transfers off, every disputed quantum is at
\* each moment in exactly one place: reported by a terminal, retained by a
\* wallet, or in an arrival still in the heap (trace, lines 192-258).
Conservation ==
  EdgeLimitReached \/
  TerminalAmount + RetainedAmount + InFlightAmount = SeedAmount

\* The value a wallet received is the value it still holds, passed on, or
\* reports in terminals: balances of different wallets never mix (the states
\* dictionary and its clamps, lines 183-222).
WalletLedger ==
  LET toTerminals(a) == {i \in DOMAIN terminals : terminals[i].address = a}
      into(a) == {i \in DOMAIN allocations : ledger[allocations[i].transfer].destination = a}
      outOf(a) == {i \in DOMAIN allocations : ledger[allocations[i].transfer].source = a}
      inFlight(a) == {e \in queue : e.kind = "arrival" /\ e.address = a}
      attributed == [i \in DOMAIN allocations |-> allocations[i].attributed]
  IN  EdgeLimitReached \/ \A a \in Address :
        (IF a = SeedAddress THEN SeedAmount ELSE 0) + Total(into(a), attributed)
          = tainted[a] + Total(outOf(a), attributed)
            + Total(toTerminals(a), [i \in DOMAIN terminals |-> terminals[i].amount])
            + Total(inFlight(a), [e \in queue |-> e.amount])

\* An allocation is never larger than what the allocations named as its parents
\* brought to the wallet, the seed amount included at the seed wallet: the
\* lineage explains the whole amount (scheduled_parent_ids, lines 211-222, 236).
\* At max_edges the loop breaks before it merges the parents, and a transfer
\* that max_delta keeps out of an arrival's window is not told of that arrival,
\* although its value is in the balance the transfer spends.
LineageCovers ==
  EdgeLimitReached \/ \A i \in DOMAIN allocations :
    LET a == ledger[allocations[i].transfer].source
        brought == {j \in DOMAIN allocations :
                      j < i /\ allocations[j].transfer \in allocations[i].parents}
    IN  ledger[allocations[i].transfer].at <= SeedTime + policy.max_delta =>
          allocations[i].attributed <=
            (IF a = SeedAddress THEN SeedAmount ELSE 0)
            + Total(brought, [j \in DOMAIN allocations |-> allocations[j].attributed])

\* A parent of an allocation was itself allocated earlier in the run, arrived
\* at the wallet that is spent, and is not later than the transfer: lineage is
\* acyclic and follows time even when the transfers form cycles.
LineageCausal ==
  \A i \in DOMAIN allocations : \A t \in allocations[i].parents :
    \E j \in 1 .. (i - 1) :
      /\ allocations[j].transfer = t
      /\ ledger[t].destination = ledger[allocations[i].transfer].source
      /\ ledger[t].at <= ledger[allocations[i].transfer].at

\* The wallets opened, transfers scheduled, hops walked and times visited stay
\* inside the trace policy, however arrivals and transfers interleave.
WithinPolicy ==
  /\ Cardinality(opened) <= policy.max_nodes
  /\ Cardinality(scheduled) <= policy.max_edges
  /\ \A i \in DOMAIN allocations :
       /\ allocations[i].depth <= policy.max_hops
       /\ ledger[allocations[i].transfer].at \in SeedTime .. policy.end_time

\* A transfer gives away no more disputed value than it moved, and the books of
\* one transfer are written at most once (processed_transfers, lines 229-246).
TransferBookedOnce ==
  /\ \A i, j \in DOMAIN allocations :
       allocations[i].transfer = allocations[j].transfer => i = j
  /\ \A i \in DOMAIN allocations :
       allocations[i].attributed <= ledger[allocations[i].transfer].amount

\* The conservation_rule of the result's methodology and of the final
\* assertion (lines 257-268): the trace never ends by failing it.
NeverOverspends == status # "failed"

\* The assertion at the end of trace fails only where max_edges cut a wallet's
\* transfers off (lines 216-218, 253-257).
OverspendsOnlyAtEdgeLimit == status = "failed" => EdgeLimitReached

\* A wallet whose retrieval failed is never reported as having had no outgoing
\* transfer (lines 191-209 with ProviderSnapshotRepository.load, 54-65).
FailureNotHidden ==
  \A i \in DOMAIN terminals :
    terminals[i].reason = "NO_OUTGOING" => terminals[i].address \notin failed

\* The trace ends on every ledger, cyclic ones included: each pop is paid for by
\* a transfer that is never scheduled again.
Terminates == <>(status # "running")
=============================================================================
