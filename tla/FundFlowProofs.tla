--------------------------- MODULE FundFlowProofs ---------------------------
(***************************************************************************)
(* Type correctness, conservation, the books and the lineage of FundFlow,  *)
(* for every set of wallets, every finite set of transfers, every ledger,  *)
(* policy and seed.                                                        *)
(***************************************************************************)
EXTENDS FundFlow, AmountsProofs, SequenceTheorems

-----------------------------------------------------------------------------
(* What the operators return *)

\* Any part of the finite transfer history has a sum.
LEMMA AmountsSummable ==
  ASSUME TypeOK, NEW S \in SUBSET Transfer
  PROVE  Total(S, Amount) \in Nat
<1>1. IsFiniteSet(S)
  BY FlowAssumption, FS_Subset
<1>2. \A t \in S : Amount[t] \in Nat
  BY DEF TypeOK, TransferRecord, Amount
<1> QED BY <1>1, <1>2, FiniteSummable, TotalType

\* The clean balance read for a new wallet is a natural number of quanta.
LEMMA ObservedBalanceType ==
  ASSUME TypeOK, NEW a, NEW now
  PROVE  ObservedBalance(a, now) \in Nat
<1> DEFINE received == {t \in retained : ledger[t].destination = a /\ ledger[t].at < now}
           sent     == {t \in retained : ledger[t].source = a /\ ledger[t].at < now}
<1>1. received \in SUBSET Transfer /\ sent \in SUBSET Transfer
  BY DEF TypeOK
<1> HIDE DEF received, sent
<1>2. Total(received, Amount) \in Nat /\ Total(sent, Amount) \in Nat
  BY <1>1, AmountsSummable
<1>3. AtLeastZero(Total(received, Amount) - Total(sent, Amount)) \in Nat
  BY <1>2 DEF AtLeastZero
<1> QED BY <1>3 DEF ObservedBalance, received, sent

\* A rounded quotient is a natural number.
LEMMA NearType ==
  ASSUME NEW n \in Nat, NEW d \in Nat \ {0}
  PROVE  Near(n, d) \in SUBSET Nat
<1> DEFINE q == n \div d
           r == n % d
<1>1. q \in Nat /\ r \in Nat /\ d * q + r = n
  OBVIOUS
<1>2. r = 0 /\ n # 0 => q # 0
  <2> SUFFICES ASSUME r = 0, q = 0 PROVE n = 0
    OBVIOUS
  <2> HIDE DEF q, r
  <2>1. d * q = 0
    BY <1>1
  <2> QED BY <1>1, <2>1
<1>3. Near(n, d) = IF n = 0 THEN {0} ELSE IF r = 0 THEN q - 1 .. q + 1 ELSE q .. q + 1
  BY DEF Near
<1> HIDE DEF q, r
<1> QED BY <1>1, <1>2, <1>3

\* Both balances of a wallet give up natural shares.
LEMMA ShareType ==
  ASSUME TypeOK, NEW t \in Transfer, NEW part \in Nat
  PROVE  Covered(t) \in Nat /\ Share(t, part) \in SUBSET Nat
<1> DEFINE a == ledger[t].source
<1>1. a \in Address /\ ledger[t].amount \in Nat
  BY DEF TypeOK, TransferRecord
<1>2. Balance(a) \in Nat
  BY <1>1 DEF TypeOK, Balance
<1>3. Covered(t) \in Nat
  BY <1>1, <1>2 DEF Covered, Least
<1>4. CASE Balance(a) = 0
  BY <1>3, <1>4 DEF Share
<1>5. CASE Balance(a) # 0
  <2>1. Covered(t) * part \in Nat
    BY <1>3
  <2>2. Near(Covered(t) * part, Balance(a)) \in SUBSET Nat
    BY <2>1, <1>2, <1>5, NearType
  <2> QED BY <2>2, <1>3, <1>5 DEF Share
<1> QED BY <1>4, <1>5

\* The attributed amount never exceeds what is tainted, and the clean balance
\* loses a natural amount: the clamp of the ledger is never needed for the
\* tainted balance.
LEMMA AttributedType ==
  ASSUME TypeOK, NEW e \in queue, e.kind = "transfer"
  PROVE  /\ ledger[e.transfer].source \in Address
         /\ Covered(e.transfer) \in Nat
         /\ \A n \in Attributed(e) : n \in Nat /\ n <= tainted[ledger[e.transfer].source]
         /\ Haircut(e) \in SUBSET Nat
<1> DEFINE a == ledger[e.transfer].source
<1>1. e.transfer \in Transfer
  BY DEF TypeOK, ArrivalEvent, TransferEvent
<1>2. a \in Address /\ tainted[a] \in Nat /\ clean[a] \in Nat
  BY <1>1 DEF TypeOK, TransferRecord
<1>3. Covered(e.transfer) \in Nat /\ Share(e.transfer, tainted[a]) \in SUBSET Nat
      /\ Share(e.transfer, clean[a]) \in SUBSET Nat
  BY <1>1, <1>2, ShareType
<1>4. \A n \in Attributed(e) : n \in Nat /\ n <= tainted[a]
  BY <1>2, <1>3 DEF Attributed, Least
<1> QED BY <1>2, <1>3, <1>4 DEF Haircut

-----------------------------------------------------------------------------
(* Type correctness *)

\* The first arrival and the collected evidence are well-typed.
LEMMA TypeInit == Init => TypeOK
<1> SUFFICES ASSUME Init PROVE TypeOK
  OBVIOUS
<1>1. retained \subseteq Transfer /\ loaded \subseteq Address
  BY FlowAssumption DEF Init, SentBy
<1>2. queue \subseteq ArrivalEvent
  BY FlowAssumption DEF Init, ArrivalEvent
<1>3. ledger \in [Transfer -> TransferRecord] /\ policy \in TracePolicy
  BY FlowAssumption DEF Init
<1>4. allocations \in Seq(Allocation) /\ terminals \in Seq(Terminal)
  BY DEF Init
<1>5. /\ tainted \in [Address -> Nat] /\ clean \in [Address -> Nat]
      /\ parents \in [Transfer -> SUBSET Transfer]
  BY DEF Init
<1>6. /\ failed \subseteq loaded /\ sequence \in Nat /\ opened \subseteq Address
      /\ nodes \subseteq Address /\ scheduled \subseteq Transfer
      /\ processed \subseteq Transfer /\ status \in {"running", "done", "failed", "cancelled"}
  BY DEF Init
<1> QED
  BY <1>1, <1>2, <1>3, <1>4, <1>5, <1>6, Zenon DEF TypeOK

\* Reporting a well-formed terminal keeps the list well-formed.
LEMMA StopType ==
  ASSUME terminals \in Seq(Terminal),
         NEW address \in Address, NEW amount \in Nat, NEW reason \in TerminalReason,
         NEW depth \in Nat, NEW lineage \in SUBSET Transfer,
         NEW detail \in {"none", "node limit", "edge limit"},
         Stop(address, amount, reason, depth, lineage, detail)
  PROVE  terminals' \in Seq(Terminal)
<1> DEFINE new == [address |-> address, amount |-> amount, reason |-> reason,
                   depth |-> depth, parents |-> lineage, detail |-> detail]
<1>1. new \in Terminal
  BY DEF Terminal
<1> HIDE DEF new
<1>2. Append(terminals, new) \in Seq(Terminal)
  BY <1>1, AppendProperties
<1> QED BY <1>2 DEF Stop, new

\* What an event of the heap is, by its kind.
LEMMA EventType ==
  ASSUME TypeOK, NEW e \in queue
  PROVE  /\ e.seq \in Nat /\ e.amount \in Nat /\ e.depth \in Nat
         /\ e.kind \in {"arrival", "transfer"}
         /\ e.kind = "arrival" => e \in ArrivalEvent /\ e.address \in Address
                                   /\ e.parents \in SUBSET Transfer
         /\ e.kind = "transfer" => e \in TransferEvent /\ e.transfer \in Transfer
                                    /\ e.amount = 0
BY DEF TypeOK, ArrivalEvent, TransferEvent

\* A transfer is allocated within the types.
LEMMA AllocateType ==
  ASSUME TypeOK, NEW e \in queue, e.kind = "transfer",
         NEW attributed \in Nat, NEW haircut \in Nat, Allocate(e, attributed, haircut)
  PROVE  /\ tainted' \in [Address -> Nat] /\ clean' \in [Address -> Nat]
         /\ processed' \subseteq Transfer
<1>1. e.transfer \in Transfer
  BY EventType
<1>2. \A n \in Int : AtLeastZero(n) \in Nat
  BY DEF AtLeastZero
<1>3. \A a \in Address : tainted[a] - attributed \in Int /\ clean[a] - haircut \in Int
  BY DEF TypeOK
<1> QED BY <1>1, <1>2, <1>3 DEF TypeOK, Allocate

\* Recording an allocation keeps the list well-formed.
LEMMA RecordType ==
  ASSUME TypeOK, NEW e \in queue, e.kind = "transfer",
         NEW attributed \in Nat, Record(e, attributed)
  PROVE  allocations' \in Seq(Allocation)
<1> DEFINE new == [transfer |-> e.transfer, depth |-> e.depth, parents |-> parents[e.transfer],
                   before |-> tainted[ledger[e.transfer].source],
                   covered |-> Covered(e.transfer), attributed |-> attributed]
<1>1. e.transfer \in Transfer /\ e.depth \in Nat
  BY EventType
<1>2. parents[e.transfer] \in SUBSET Transfer
  BY <1>1 DEF TypeOK
<1>3. tainted[ledger[e.transfer].source] \in Nat /\ Covered(e.transfer) \in Nat
  BY AttributedType DEF TypeOK
<1>4. new \in Allocation
  BY <1>1, <1>2, <1>3 DEF Allocation
<1> HIDE DEF new
<1>5. Append(allocations, new) \in Seq(Allocation)
  BY <1>4, AppendProperties DEF TypeOK
<1> QED BY <1>5 DEF Record, new

\* Opening a wallet and marking its transfers as loaded.
LEMMA ArrivesType ==
  ASSUME TypeOK, NEW e \in queue, Arrives(e)
  PROVE  /\ nodes' \subseteq Address
         /\ OpenWallet(e) => opened' \subseteq Address /\ clean' \in [Address -> Nat]
<1>1. e.address \in Address
  BY EventType DEF Arrives
<1>2. ObservedBalance(e.address, e.at) \in Nat
  BY ObservedBalanceType
<1> QED BY <1>1, <1>2 DEF TypeOK, Arrives, OpenWallet

\* A retrieval, whatever the provider answers.
LEMMA RetrieveType ==
  ASSUME TypeOK, NEW e \in queue, NEW answer \in Answers(e.address), Retrieve(e, answer)
  PROVE  /\ retained' \subseteq Transfer /\ loaded' \subseteq Address /\ failed' \subseteq loaded'
         /\ opened' \subseteq Address /\ nodes' \subseteq Address
         /\ clean' \in [Address -> Nat]
<1>1. Arrives(e) /\ OpenWallet(e)
  BY DEF Retrieve
<1>2. e.address \in Address
  BY <1>1, EventType DEF Arrives
<1>3. answer \subseteq Transfer
  BY DEF Answers, SentBy
<1>4. retained' \subseteq Transfer /\ loaded' \subseteq Address /\ failed' \subseteq loaded'
  BY <1>2, <1>3 DEF TypeOK, Retrieve
<1> QED BY <1>1, <1>4, ArrivesType

\* The heap entries of newly scheduled transfers are transfer events.
LEMMA DeparturesType ==
  ASSUME TypeOK, NEW e \in queue, NEW new \in SUBSET Transfer
  PROVE  Departures(e, new) \subseteq TransferEvent /\ Cardinality(new) \in Nat
<1>1. IsFiniteSet(new)
  BY FlowAssumption, FS_Subset
<1>2. \A t \in new : Cardinality({u \in new : u < t}) \in Nat
  <2> TAKE t \in new
  <2>1. {u \in new : u < t} \in SUBSET new
    OBVIOUS
  <2>2. IsFiniteSet({u \in new : u < t})
    BY <1>1, <2>1, FS_Subset
  <2> QED BY <2>2, FS_CardinalityType
<1>3. e.depth \in Nat
  BY EventType
<1>4. ASSUME NEW t \in new
      PROVE  [kind |-> "transfer", at |-> ledger[t].at, transfer |-> t, amount |-> 0,
              seq |-> sequence + Cardinality({u \in new : u < t}), depth |-> e.depth + 1]
               \in TransferEvent
  <2>1. ledger[t].at \in Nat
    BY DEF TypeOK, TransferRecord
  <2>2. sequence + Cardinality({u \in new : u < t}) \in Nat
    BY <1>2 DEF TypeOK
  <2> QED BY <1>3, <2>1, <2>2 DEF TransferEvent
<1> QED BY <1>1, <1>4, FS_CardinalityType, Zenon DEF Departures

\* Every step of the engine keeps the types: one case per action.
LEMMA TypeNext == TypeOK /\ [Next]_vars => TypeOK'
<1> SUFFICES ASSUME TypeOK, [Next]_vars PROVE TypeOK'
  OBVIOUS
<1>1. CASE UNCHANGED vars
  BY <1>1 DEF TypeOK, vars, request, evidence, heap, wallets, schedule, output
<1>2. CASE CancelTrace
  BY <1>2 DEF CancelTrace, TypeOK, request, evidence, heap, wallets, schedule, output
<1>3. CASE Finish
  BY <1>3 DEF Finish, TypeOK, request, evidence, heap, wallets, schedule, output
<1>4. ASSUME NEW e \in queue, PastEnd(e) PROVE TypeOK'
  <2>1. e.amount \in Nat /\ e.depth \in Nat
    BY EventType
  <2>2. terminals' \in Seq(Terminal)
    <3>1. CASE e.kind = "arrival"
      <4>1. Stop(e.address, e.amount, "TIME_BOUNDARY", e.depth, e.parents, "none")
        BY <1>4, <3>1 DEF PastEnd
      <4> QED BY <2>1, <3>1, <4>1, EventType, StopType DEF TerminalReason, TypeOK
    <3>2. CASE e.kind # "arrival"
      BY <1>4, <3>2 DEF PastEnd, TypeOK
    <3> QED BY <3>1, <3>2
  <2>3. queue' \subseteq queue /\ sequence' = sequence
    BY <1>4 DEF PastEnd, Drop
  <2> QED
    BY <1>4, <2>2, <2>3 DEF PastEnd, TypeOK, request, evidence, wallets, schedule
<1>5. ASSUME NEW e \in queue, ArriveOverNodeLimit(e) PROVE TypeOK'
  <2>1. e.kind = "arrival" /\ nodes' \subseteq Address
    BY <1>5, ArrivesType DEF ArriveOverNodeLimit, Arrives
  <2>2. terminals' \in Seq(Terminal)
    BY <1>5, <2>1, EventType, StopType DEF ArriveOverNodeLimit, TerminalReason, TypeOK
  <2>3. queue' \subseteq queue /\ sequence' = sequence
    BY <1>5 DEF ArriveOverNodeLimit, Drop
  <2> QED
    BY <1>5, <2>1, <2>2, <2>3
    DEF ArriveOverNodeLimit, Arrives, TypeOK, request, evidence, schedule
<1>6. ASSUME NEW e \in queue, ArriveProviderFails(e) PROVE TypeOK'
  <2>1. /\ e.kind = "arrival" /\ nodes' \subseteq Address
        /\ opened' \subseteq Address /\ clean' \in [Address -> Nat]
    BY <1>6, ArrivesType DEF ArriveProviderFails, Arrives
  <2>2. terminals' \in Seq(Terminal)
    BY <1>6, <2>1, EventType, StopType DEF ArriveProviderFails, TerminalReason, TypeOK
  <2>3. queue' \subseteq queue /\ sequence' = sequence
    BY <1>6 DEF ArriveProviderFails, Drop
  <2>4. loaded' \subseteq Address /\ failed' \subseteq loaded'
    BY <1>6, <2>1, EventType DEF ArriveProviderFails, TypeOK
  <2> QED
    BY <1>6, <2>1, <2>2, <2>3, <2>4
    DEF ArriveProviderFails, Arrives, TypeOK, request, schedule
<1>7. ASSUME NEW e \in queue, NEW answer \in Answers(e.address), ArriveNoOutgoing(e, answer)
      PROVE  TypeOK'
  <2>1. Retrieve(e, answer) /\ e.kind = "arrival"
    BY <1>7 DEF ArriveNoOutgoing, Retrieve, Arrives
  <2>2. terminals' \in Seq(Terminal)
    BY <1>7, <2>1, EventType, StopType DEF ArriveNoOutgoing, TerminalReason, TypeOK
  <2>3. queue' \subseteq queue /\ sequence' = sequence
    BY <1>7 DEF ArriveNoOutgoing, Drop
  <2> QED
    BY <1>7, <2>1, <2>2, <2>3, RetrieveType
    DEF ArriveNoOutgoing, Retrieve, Arrives, TypeOK, request, schedule
<1>8. ASSUME NEW e \in queue, NEW answer \in Answers(e.address), ArriveSchedule(e, answer)
      PROVE  TypeOK'
  <2> DEFINE out == Outgoing(e.address, e.at, retained \cup answer)
             new == Visited(out) \ scheduled
  <2>1. Retrieve(e, answer) /\ e.kind = "arrival"
    BY <1>8 DEF ArriveSchedule, Retrieve, Arrives
  <2>2. out \subseteq Transfer
    BY DEF Outgoing, Answers, SentBy, TypeOK
  <2>3. Visited(out) \subseteq Transfer /\ new \in SUBSET Transfer
    BY <2>2 DEF Visited
  <2>4. Departures(e, new) \subseteq TransferEvent /\ Cardinality(new) \in Nat
    BY <2>3, DeparturesType
  <2>5. /\ tainted' = [tainted EXCEPT ![e.address] = @ + e.amount]
        /\ scheduled' = scheduled \cup new
        /\ parents' = [t \in Transfer |->
                         IF t \in Visited(out) THEN parents[t] \cup e.parents ELSE parents[t]]
        /\ queue' = (queue \ {e}) \cup Departures(e, new)
        /\ sequence' = sequence + Cardinality(new)
        /\ terminals' = terminals
           \/ Stop(e.address, e.amount, "MAX_NODES", e.depth, e.parents, "edge limit")
    BY <1>8 DEF ArriveSchedule
  <2> HIDE DEF out, new
  <2>6. terminals' \in Seq(Terminal)
    BY <2>1, <2>5, EventType, StopType DEF TerminalReason, TypeOK
  <2>7. tainted' \in [Address -> Nat]
    <3>1. e.address \in Address /\ e.amount \in Nat /\ tainted \in [Address -> Nat]
      BY <2>1, EventType DEF TypeOK
    <3>2. tainted[e.address] + e.amount \in Nat
      BY <3>1
    <3> QED BY <2>5, <3>1, <3>2
  <2>8. parents' \in [Transfer -> SUBSET Transfer]
    BY <2>1, <2>5, EventType DEF TypeOK
  <2>9. queue' \subseteq ArrivalEvent \cup TransferEvent /\ sequence' \in Nat
    <3>1. queue \subseteq ArrivalEvent \cup TransferEvent /\ sequence \in Nat
      BY DEF TypeOK
    <3>2. queue' = (queue \ {e}) \cup Departures(e, new) /\ sequence' = sequence + Cardinality(new)
      BY <2>5
    <3>3. queue' \subseteq ArrivalEvent \cup TransferEvent
      BY <2>4, <3>1, <3>2, Zenon
    <3>4. sequence' \in Nat
      BY <2>4, <3>1, <3>2, SMT
    <3> QED BY <3>3, <3>4
  <2>10. scheduled' \subseteq Transfer
    BY <2>3, <2>5 DEF TypeOK
  <2> QED
    BY <2>1, <2>6, <2>7, <2>8, <2>9, <2>10, RetrieveType
    DEF Retrieve, Arrives, TypeOK, request
<1>9. ASSUME NEW e \in queue, e.kind = "transfer", NEW haircut \in Haircut(e),
             SkipTransfer(e, haircut)
      PROVE  TypeOK'
  <2>1. /\ tainted' \in [Address -> Nat] /\ clean' \in [Address -> Nat]
        /\ processed' \subseteq Transfer
    <3>1. CASE Stale(e)
      BY <1>9, <3>1, EventType, SMTT(20) DEF SkipTransfer, TypeOK
    <3>2. CASE ~Stale(e)
      <4>1. Allocate(e, 0, haircut)
        BY <1>9, <3>2 DEF SkipTransfer
      <4>2. haircut \in Nat
        BY <1>9, AttributedType
      <4> QED BY <1>9, <4>1, <4>2, AllocateType
    <3> QED BY <3>1, <3>2
  <2>2. queue' \subseteq queue /\ sequence' = sequence
    BY <1>9 DEF SkipTransfer, Drop
  <2> QED
    BY <1>9, <2>1, <2>2
    DEF SkipTransfer, Departs, TypeOK, request, evidence, schedule, output
<1>10. ASSUME NEW e \in queue, e.kind = "transfer", NEW haircut \in Haircut(e),
              NEW attributed \in Attributed(e), StopTransfer(e, attributed, haircut)
       PROVE  TypeOK'
  <2>1. haircut \in Nat /\ attributed \in Nat
    BY <1>10, AttributedType
  <2>2. /\ tainted' \in [Address -> Nat] /\ clean' \in [Address -> Nat]
        /\ processed' \subseteq Transfer
    BY <1>10, <2>1, AllocateType DEF StopTransfer
  <2>3. allocations' \in Seq(Allocation)
    BY <1>10, <2>1, RecordType DEF StopTransfer
  <2>4. /\ ledger[e.transfer].destination \in Address
        /\ e.depth \in Nat /\ {e.transfer} \in SUBSET Transfer
    BY <1>10, EventType DEF TypeOK, TransferRecord
  <2>5. StopReason(e, attributed) \in TerminalReason
    <3>1. Endpoint[ledger[e.transfer].destination] \in EndpointReasons \cup {"NONE"}
      BY <2>4, FlowAssumption
    <3> QED BY <1>10, <3>1 DEF StopTransfer, StopReason, TerminalReason
  <2>6. terminals' \in Seq(Terminal)
    BY <1>10, <2>1, <2>4, <2>5, StopType DEF StopTransfer, TypeOK
  <2>7. queue' \subseteq queue /\ sequence' = sequence
    BY <1>10 DEF StopTransfer, Drop
  <2> QED
    BY <1>10, <2>2, <2>3, <2>6, <2>7
    DEF StopTransfer, Departs, TypeOK, request, evidence, schedule
<1>11. ASSUME NEW e \in queue, e.kind = "transfer", NEW haircut \in Haircut(e),
              NEW attributed \in Attributed(e), ForwardTransfer(e, attributed, haircut)
       PROVE  TypeOK'
  <2>1. haircut \in Nat /\ attributed \in Nat
    BY <1>11, AttributedType
  <2>2. /\ tainted' \in [Address -> Nat] /\ clean' \in [Address -> Nat]
        /\ processed' \subseteq Transfer
    BY <1>11, <2>1, AllocateType DEF ForwardTransfer
  <2>3. allocations' \in Seq(Allocation)
    BY <1>11, <2>1, RecordType DEF ForwardTransfer
  <2>4. /\ ledger[e.transfer].destination \in Address /\ ledger[e.transfer].at \in Nat
        /\ e.depth \in Nat /\ {e.transfer} \in SUBSET Transfer
    BY <1>11, EventType DEF TypeOK, TransferRecord
  <2>5. queue' \subseteq ArrivalEvent \cup TransferEvent /\ sequence' \in Nat
    <3>1. [kind |-> "arrival", at |-> ledger[e.transfer].at, seq |-> sequence,
           address |-> ledger[e.transfer].destination, amount |-> attributed,
           depth |-> e.depth, parents |-> {e.transfer}] \in ArrivalEvent
      BY <2>1, <2>4 DEF ArrivalEvent, TypeOK
    <3> DEFINE arrival == [kind |-> "arrival", at |-> ledger[e.transfer].at, seq |-> sequence,
                           address |-> ledger[e.transfer].destination, amount |-> attributed,
                           depth |-> e.depth, parents |-> {e.transfer}]
    <3>2. queue' = (queue \ {e}) \cup {arrival} /\ sequence' = sequence + 1
      BY <1>11 DEF ForwardTransfer
    <3>3. queue \subseteq ArrivalEvent \cup TransferEvent /\ sequence \in Nat
      BY DEF TypeOK
    <3> HIDE DEF arrival
    <3>4. arrival \in ArrivalEvent
      BY <3>1 DEF arrival
    <3> QED BY <3>2, <3>3, <3>4
  <2> QED
    BY <1>11, <2>2, <2>3, <2>5
    DEF ForwardTransfer, Departs, TypeOK, request, evidence, schedule
<1> QED
  BY <1>1, <1>2, <1>3, <1>4, <1>5, <1>6, <1>7, <1>8, <1>9, <1>10, <1>11
  DEF Next, Step, Arrive, Depart

\* Every state of every trace is well-typed; in particular no wallet's balance
\* ever goes below zero (the clamps of ProportionalHaircutPolicy.allocate).
THEOREM TypeCorrect == Spec => []TypeOK
<1>1. Init => TypeOK
  BY TypeInit
<1>2. TypeOK /\ [Next]_vars => TypeOK'
  BY TypeNext
<1> QED BY <1>1, <1>2, PTL DEF Spec

-----------------------------------------------------------------------------
(* The three sums of Conservation, as functions of the heap and of the list of
   terminals, and how the steps of the engine change them *)

HeapAmounts(Q) == [e \in Q |-> e.amount]
ReportAmounts(T) == [i \in DOMAIN T |-> T[i].amount]

\* Taking an event out of the heap.
LEMMA HeapPop ==
  ASSUME NEW Q, NEW e \in Q, e.amount \in Nat, Summable(Q, HeapAmounts(Q))
  PROVE  /\ Summable(Q \ {e}, HeapAmounts(Q \ {e}))
         /\ Total(Q, HeapAmounts(Q)) = Total(Q \ {e}, HeapAmounts(Q \ {e})) + e.amount
<1> DEFINE f == HeapAmounts(Q)
           g == HeapAmounts(Q \ {e})
<1>1. f[e] = e.amount /\ \A x \in Q \ {e} : f[x] = g[x]
  BY DEF HeapAmounts
<1> HIDE DEF f, g
<1>2. Units(Q \ {e}, f) = Units(Q \ {e}, g) /\ Total(Q \ {e}, f) = Total(Q \ {e}, g)
  BY <1>1, TotalSame
<1>3. Summable(Q, f)
  BY DEF f
<1>4. Summable(Q \ {e}, f) /\ Total(Q, f) = Total(Q \ {e}, f) + f[e]
  BY <1>1, <1>3, TotalSplit
<1>5. Summable(Q \ {e}, g) /\ Total(Q, f) = Total(Q \ {e}, g) + e.amount
  BY <1>1, <1>2, <1>4 DEF Summable
<1> QED BY <1>5 DEF f, g

\* Pushing a new event.
LEMMA HeapPush ==
  ASSUME NEW Q, NEW e, e \notin Q, e.amount \in Nat, Summable(Q, HeapAmounts(Q))
  PROVE  /\ Summable(Q \cup {e}, HeapAmounts(Q \cup {e}))
         /\ Total(Q \cup {e}, HeapAmounts(Q \cup {e})) = Total(Q, HeapAmounts(Q)) + e.amount
<1> DEFINE f == HeapAmounts(Q)
           g == HeapAmounts(Q \cup {e})
<1>1. g[e] = e.amount /\ \A x \in Q : f[x] = g[x]
  BY DEF HeapAmounts
<1>2. Summable(Q, f)
  OBVIOUS
<1> HIDE DEF f, g
<1>3. Units(Q, f) = Units(Q, g) /\ Total(Q, f) = Total(Q, g)
  BY <1>1, TotalSame
<1>4. Summable(Q, g)
  BY <1>2, <1>3 DEF Summable
<1>5. g[e] \in Nat
  BY <1>1
<1>6. Summable(Q \cup {e}, g) /\ Total(Q \cup {e}, g) = Total(Q, g) + g[e]
  BY <1>4, <1>5, TotalAdd, Zenon
<1> QED BY <1>1, <1>3, <1>6 DEF f, g

\* Pushing events that carry no amount.
LEMMA HeapIdle ==
  ASSUME NEW Q, NEW Z, \A z \in Z : z.amount = 0, Summable(Q, HeapAmounts(Q))
  PROVE  /\ Summable(Q \cup Z, HeapAmounts(Q \cup Z))
         /\ Total(Q \cup Z, HeapAmounts(Q \cup Z)) = Total(Q, HeapAmounts(Q))
<1> DEFINE f == HeapAmounts(Q)
           g == HeapAmounts(Q \cup Z)
<1>1. (\A z \in Z : g[z] = 0) /\ \A x \in Q : f[x] = g[x]
  BY DEF HeapAmounts
<1> HIDE DEF f, g
<1>2. Units(Q, f) = Units(Q, g) /\ Total(Q, f) = Total(Q, g)
  BY <1>1, TotalSame
<1>3. Units(Q \cup Z, g) = Units(Q, g) /\ Total(Q \cup Z, g) = Total(Q, g)
  BY <1>1, TotalIdle
<1> QED BY <1>2, <1>3 DEF f, g, Summable

\* Reporting one more terminal.
LEMMA ReportOne ==
  ASSUME NEW T \in Seq(Terminal), NEW t \in Terminal,
         Summable(DOMAIN T, ReportAmounts(T))
  PROVE  LET U == Append(T, t)
         IN  /\ Summable(DOMAIN U, ReportAmounts(U))
             /\ Total(DOMAIN U, ReportAmounts(U)) = Total(DOMAIN T, ReportAmounts(T)) + t.amount
             /\ \A i \in DOMAIN T : i \in DOMAIN U /\ U[i] = T[i]
             /\ \E i \in DOMAIN U : U[i] = t
<1> DEFINE U == Append(T, t)
           n == Len(T) + 1
           f == ReportAmounts(T)
           g == ReportAmounts(U)
<1>1. /\ U \in Seq(Terminal) /\ Len(U) = n /\ U[n] = t
      /\ \A i \in 1 .. Len(T) : U[i] = T[i]
  BY AppendProperties
<1>2. Len(T) \in Nat /\ DOMAIN T = 1 .. Len(T) /\ DOMAIN U = 1 .. n
  BY <1>1, LenProperties
<1>3. n \notin DOMAIN T /\ DOMAIN U = DOMAIN T \cup {n}
  BY <1>2
<1> HIDE DEF U, n
<1>4. g[n] = t.amount /\ \A i \in DOMAIN T : f[i] = g[i]
  BY <1>1, <1>2, <1>3 DEF ReportAmounts
<1>5. t.amount \in Nat
  BY DEF Terminal
<1> HIDE DEF f, g
<1>6. Units(DOMAIN T, f) = Units(DOMAIN T, g) /\ Total(DOMAIN T, f) = Total(DOMAIN T, g)
  BY <1>4, TotalSame
<1>7. Summable(DOMAIN T, g)
  BY <1>6 DEF f, Summable
<1>8. g[n] \in Nat
  BY <1>4, <1>5
<1>9. /\ Summable(DOMAIN T \cup {n}, g)
      /\ Total(DOMAIN T \cup {n}, g) = Total(DOMAIN T, g) + g[n]
  BY <1>3, <1>7, <1>8, TotalAdd, Zenon
<1>10. \A i \in DOMAIN T : i \in DOMAIN U /\ U[i] = T[i]
  BY <1>1, <1>2, <1>3
<1>11. n \in DOMAIN U /\ U[n] = t
  BY <1>1, <1>3
<1> QED BY <1>3, <1>4, <1>6, <1>9, <1>10, <1>11 DEF f, g, U

-----------------------------------------------------------------------------
(* Conservation *)

\* Conservation is not inductive as it stands: the sums must be finite, and a
\* pushed event must be a new member of the heap, which its number makes it.
Accounts ==
  /\ Summable(Address, tainted)
  /\ Summable(queue, HeapAmounts(queue))
  /\ Summable(DOMAIN terminals, ReportAmounts(terminals))

Numbered == \A e \in queue : e.seq < sequence

IInv == TypeOK /\ Accounts /\ Numbered /\ Conservation

\* The three places of Conservation hold natural amounts.
LEMMA SumsAreNatural ==
  ASSUME Accounts
  PROVE  TerminalAmount \in Nat /\ RetainedAmount \in Nat /\ InFlightAmount \in Nat
BY TotalType
DEF Accounts, TerminalAmount, RetainedAmount, InFlightAmount, HeapAmounts, ReportAmounts

\* At first the heap holds the whole seed amount.
LEMMA IInit == Init => IInv
<1> SUFFICES ASSUME Init PROVE IInv
  OBVIOUS
<1>1. TypeOK
  BY TypeInit
<1>2. Summable(Address, tainted) /\ RetainedAmount = 0
  BY TotalZero DEF Init, RetainedAmount
<1>3. Summable(DOMAIN terminals, ReportAmounts(terminals)) /\ TerminalAmount = 0
  <2>1. DOMAIN terminals = {}
    BY DEF Init
  <2>2. \A i \in DOMAIN terminals : ReportAmounts(terminals)[i] = 0
    BY <2>1
  <2> QED BY <2>2, TotalZero DEF TerminalAmount, ReportAmounts
<1>4. Summable(queue, HeapAmounts(queue)) /\ InFlightAmount = SeedAmount
  <2> DEFINE seed == [kind |-> "arrival", at |-> SeedTime, seq |-> 0, address |-> SeedAddress,
                      amount |-> SeedAmount, depth |-> 0, parents |-> {}]
  <2>1. queue = {} \cup {seed}
    BY DEF Init
  <2>2. seed.amount = SeedAmount /\ SeedAmount \in Nat
    BY FlowAssumption
  <2> HIDE DEF seed
  <2>3. Summable({}, HeapAmounts({})) /\ Total({}, HeapAmounts({})) = 0
    BY TotalZero
  <2>4. Summable(queue, HeapAmounts(queue)) /\ Total(queue, HeapAmounts(queue)) = 0 + seed.amount
    BY <2>1, <2>2, <2>3, HeapPush
  <2> QED BY <2>2, <2>4 DEF InFlightAmount, HeapAmounts
<1>5. Numbered
  BY DEF Init, Numbered
<1>6. Conservation
  BY <1>2, <1>3, <1>4, FlowAssumption DEF Conservation
<1> QED BY <1>1, <1>2, <1>3, <1>4, <1>5, <1>6 DEF IInv, Accounts

\* A terminal reports its amount, and no report is ever withdrawn.
LEMMA StopReports ==
  ASSUME TypeOK, Accounts,
         NEW address \in Address, NEW amount \in Nat, NEW reason \in TerminalReason,
         NEW depth \in Nat, NEW lineage \in SUBSET Transfer,
         NEW detail \in {"none", "node limit", "edge limit"},
         Stop(address, amount, reason, depth, lineage, detail)
  PROVE  /\ Summable(DOMAIN terminals', ReportAmounts(terminals'))
         /\ TerminalAmount' = TerminalAmount + amount
         /\ EdgeLimitReached => EdgeLimitReached'
         /\ detail = "edge limit" => EdgeLimitReached'
<1> DEFINE new == [address |-> address, amount |-> amount, reason |-> reason,
                   depth |-> depth, parents |-> lineage, detail |-> detail]
<1>1. new \in Terminal /\ new.amount = amount /\ new.detail = detail
  BY DEF Terminal
<1>2. terminals' = Append(terminals, new)
  BY DEF Stop
<1> HIDE DEF new
<1>3. terminals \in Seq(Terminal) /\ Summable(DOMAIN terminals, ReportAmounts(terminals))
  BY DEF TypeOK, Accounts
<1>4. /\ Summable(DOMAIN terminals', ReportAmounts(terminals'))
      /\ Total(DOMAIN terminals', ReportAmounts(terminals'))
           = Total(DOMAIN terminals, ReportAmounts(terminals)) + amount
      /\ \A i \in DOMAIN terminals : i \in DOMAIN terminals' /\ terminals'[i] = terminals[i]
      /\ \E i \in DOMAIN terminals' : terminals'[i] = new
  BY <1>1, <1>2, <1>3, ReportOne
<1> QED BY <1>1, <1>4 DEF TerminalAmount, ReportAmounts, EdgeLimitReached

\* A dropped event takes its amount out of the heap.
LEMMA DropPops ==
  ASSUME TypeOK, Accounts, Numbered, NEW e \in queue, Drop(e)
  PROVE  /\ Summable(queue', HeapAmounts(queue'))
         /\ InFlightAmount = InFlightAmount' + e.amount
         /\ Numbered'
<1>1. e.amount \in Nat
  BY EventType
<1>2. queue' = queue \ {e} /\ sequence' = sequence
  BY DEF Drop
<1>3. /\ Summable(queue', HeapAmounts(queue'))
      /\ Total(queue, HeapAmounts(queue)) = Total(queue', HeapAmounts(queue')) + e.amount
  BY <1>1, <1>2, HeapPop DEF Accounts
<1> QED BY <1>2, <1>3 DEF InFlightAmount, HeapAmounts, Numbered

\* An allocation takes exactly the attributed amount from its wallet.
LEMMA AllocateSpends ==
  ASSUME TypeOK, Accounts, NEW e \in queue, e.kind = "transfer",
         NEW attributed \in Attributed(e), NEW haircut, Allocate(e, attributed, haircut)
  PROVE  /\ Summable(Address, tainted')
         /\ RetainedAmount = RetainedAmount' + attributed
<1> DEFINE a == ledger[e.transfer].source
<1>1. a \in Address /\ attributed \in Nat /\ attributed <= tainted[a]
  BY AttributedType
<1>2. tainted \in [Address -> Nat] /\ Summable(Address, tainted)
  BY DEF TypeOK, Accounts
<1>3. tainted[a] \in Nat
  BY <1>1, <1>2
<1>4. /\ tainted'[a] = tainted[a] - attributed
      /\ \A y \in Address \ {a} : tainted[y] = tainted'[y]
  <2>1. AtLeastZero(tainted[a] - attributed) = tainted[a] - attributed
    BY <1>1, <1>3, SMT DEF AtLeastZero
  <2>2. tainted' = [tainted EXCEPT ![a] = AtLeastZero(tainted[a] - attributed)]
    BY DEF Allocate
  <2> QED BY <1>1, <1>2, <2>1, <2>2
<1>5. tainted'[a] \in Nat
  BY <1>1, <1>3, <1>4
<1> HIDE DEF a
<1>6. /\ Summable(Address, tainted')
      /\ Total(Address, tainted') + tainted[a] = Total(Address, tainted) + tainted'[a]
  <2>1. a \in Address /\ Summable(Address, tainted) /\ \A y \in Address \ {a} : tainted[y] = tainted'[y]
    BY <1>1, <1>2, <1>4
  <2> QED BY <1>3, <1>5, <2>1, TotalChange
<1>7. Total(Address, tainted) \in Nat /\ Total(Address, tainted') \in Nat
  BY <1>2, <1>6, TotalType
<1>8. Total(Address, tainted') + attributed = Total(Address, tainted)
  BY <1>1, <1>3, <1>4, <1>6, <1>7
<1> QED BY <1>6, <1>8 DEF RetainedAmount

\* Kept apart from the sums, whose definitions hide the arithmetic from the provers.
LEMMA PlusZero == \A n \in Nat : n + 0 = n
OBVIOUS

\* An amount n that moves from one of the three places to another keeps
\* Conservation.
LEMMA Balanced ==
  ASSUME Accounts, Accounts', Conservation, EdgeLimitReached => EdgeLimitReached',
         NEW n \in Nat,
         \/ /\ TerminalAmount' = TerminalAmount + n /\ RetainedAmount' = RetainedAmount
            /\ InFlightAmount = InFlightAmount' + n
         \/ /\ TerminalAmount' = TerminalAmount /\ RetainedAmount' = RetainedAmount + n
            /\ InFlightAmount = InFlightAmount' + n
         \/ /\ TerminalAmount' = TerminalAmount + n /\ RetainedAmount = RetainedAmount' + n
            /\ InFlightAmount' = InFlightAmount
         \/ /\ TerminalAmount' = TerminalAmount /\ RetainedAmount = RetainedAmount' + n
            /\ InFlightAmount' = InFlightAmount + n
  PROVE  Conservation'
<1>1. TerminalAmount \in Nat /\ RetainedAmount \in Nat /\ InFlightAmount \in Nat
  BY SumsAreNatural
<1>2. TerminalAmount' \in Nat /\ RetainedAmount' \in Nat /\ InFlightAmount' \in Nat
  BY TotalType
  DEF Accounts, TerminalAmount, RetainedAmount, InFlightAmount, HeapAmounts, ReportAmounts
<1>3. TerminalAmount' + RetainedAmount' + InFlightAmount'
        = TerminalAmount + RetainedAmount + InFlightAmount
  <2>1. CASE /\ TerminalAmount' = TerminalAmount + n /\ RetainedAmount' = RetainedAmount
             /\ InFlightAmount = InFlightAmount' + n
    <3>1. (TerminalAmount + n) + RetainedAmount + InFlightAmount'
            = TerminalAmount + RetainedAmount + (InFlightAmount' + n)
      BY <1>1, <1>2, Shift
    <3> QED BY <2>1, <3>1
  <2>2. CASE /\ TerminalAmount' = TerminalAmount /\ RetainedAmount' = RetainedAmount + n
             /\ InFlightAmount = InFlightAmount' + n
    <3>1. TerminalAmount + (RetainedAmount + n) + InFlightAmount'
            = TerminalAmount + RetainedAmount + (InFlightAmount' + n)
      BY <1>1, <1>2, Shift
    <3> QED BY <2>2, <3>1
  <2>3. CASE /\ TerminalAmount' = TerminalAmount + n /\ RetainedAmount = RetainedAmount' + n
             /\ InFlightAmount' = InFlightAmount
    <3>1. (TerminalAmount + n) + RetainedAmount' + InFlightAmount
            = TerminalAmount + (RetainedAmount' + n) + InFlightAmount
      BY <1>1, <1>2, Shift
    <3> QED BY <2>3, <3>1
  <2>4. CASE /\ TerminalAmount' = TerminalAmount /\ RetainedAmount = RetainedAmount' + n
             /\ InFlightAmount' = InFlightAmount + n
    <3>1. TerminalAmount + RetainedAmount' + (InFlightAmount + n)
            = TerminalAmount + (RetainedAmount' + n) + InFlightAmount
      BY <1>1, <1>2, Shift
    <3> QED BY <2>4, <3>1
  <2> QED BY <2>1, <2>2, <2>3, <2>4
<1> QED BY <1>3 DEF Conservation

\* A step that leaves tainted, terminals and the heap alone.
LEMMA Unmoved ==
  ASSUME Accounts, Conservation, Numbered,
         UNCHANGED <<tainted, terminals, queue, sequence>>
  PROVE  Accounts' /\ Conservation' /\ Numbered'
BY DEF Accounts, Conservation, Numbered, EdgeLimitReached, TerminalAmount, RetainedAmount,
       InFlightAmount, HeapAmounts, ReportAmounts

\* An arrival that ends in a terminal: its amount goes from the heap to the report.
LEMMA ArrivalReported ==
  ASSUME TypeOK, Accounts, Conservation, Numbered, NEW e \in queue, e.kind = "arrival",
         NEW reason \in TerminalReason, NEW detail \in {"none", "node limit", "edge limit"},
         Drop(e), Stop(e.address, e.amount, reason, e.depth, e.parents, detail),
         tainted' = tainted
  PROVE  Accounts' /\ Conservation' /\ Numbered'
<1>1. e.amount \in Nat /\ e.depth \in Nat /\ e.address \in Address /\ e.parents \in SUBSET Transfer
  BY EventType
<1>2. /\ Summable(DOMAIN terminals', ReportAmounts(terminals'))
      /\ TerminalAmount' = TerminalAmount + e.amount
      /\ EdgeLimitReached => EdgeLimitReached'
  BY <1>1, StopReports
<1>3. /\ Summable(queue', HeapAmounts(queue'))
      /\ InFlightAmount = InFlightAmount' + e.amount
      /\ Numbered'
  BY DropPops
<1>4. Summable(Address, tainted') /\ RetainedAmount' = RetainedAmount
  BY DEF Accounts, RetainedAmount
<1>5. Accounts'
  BY <1>2, <1>3, <1>4 DEF Accounts
<1> QED BY <1>1, <1>2, <1>3, <1>4, <1>5, Balanced

\* A scheduled arrival: its amount goes from the heap to the wallet, and unless
\* the edge limit is reported nothing else moves.
LEMMA ArrivalScheduled ==
  ASSUME TypeOK, Accounts, Conservation, Numbered, NEW e \in queue,
         NEW answer \in Answers(e.address), ArriveSchedule(e, answer)
  PROVE  Accounts' /\ Conservation' /\ Numbered'
<1> DEFINE out == Outgoing(e.address, e.at, retained \cup answer)
           new == Visited(out) \ scheduled
           a == e.address
<1>1. e.kind = "arrival"
  BY DEF ArriveSchedule, Retrieve, Arrives
<1>2. a \in Address /\ e.amount \in Nat /\ e.depth \in Nat /\ e.parents \in SUBSET Transfer
  BY <1>1, EventType
<1>3. new \in SUBSET Transfer
  BY DEF Visited, Outgoing, Answers, SentBy, TypeOK
<1>4. /\ tainted' = [tainted EXCEPT ![a] = tainted[a] + e.amount]
      /\ queue' = (queue \ {e}) \cup Departures(e, new)
      /\ sequence' = sequence + Cardinality(new)
      /\ \/ terminals' = terminals
         \/ Stop(e.address, e.amount, "MAX_NODES", e.depth, e.parents, "edge limit")
  BY DEF ArriveSchedule
<1> HIDE DEF new, out
<1>5. Summable(Address, tainted') /\ RetainedAmount' = RetainedAmount + e.amount
  <2>1. tainted \in [Address -> Nat] /\ Summable(Address, tainted)
    BY DEF TypeOK, Accounts
  <2>2. /\ tainted[a] \in Nat /\ tainted'[a] = tainted[a] + e.amount /\ tainted'[a] \in Nat
        /\ \A y \in Address \ {a} : tainted[y] = tainted'[y]
    <3>1. tainted' = [tainted EXCEPT ![a] = tainted[a] + e.amount]
      BY <1>4
    <3>2. a \in Address /\ e.amount \in Nat
      BY <1>2
    <3> HIDE DEF a
    <3>3. tainted[a] \in Nat /\ tainted[a] + e.amount \in Nat
      BY <2>1, <3>2
    <3> QED BY <2>1, <3>1, <3>2, <3>3
  <2> HIDE DEF a
  <2>3. /\ Summable(Address, tainted')
        /\ Total(Address, tainted') + tainted[a] = Total(Address, tainted) + tainted'[a]
    BY <1>2, <2>1, <2>2, TotalChange
  <2>4. Total(Address, tainted) \in Nat /\ Total(Address, tainted') \in Nat
    BY <2>1, <2>3, TotalType
  <2>5. Total(Address, tainted') = Total(Address, tainted) + e.amount
    BY <1>2, <2>2, <2>3, <2>4
  <2> QED BY <2>3, <2>5 DEF RetainedAmount
<1>6. /\ Summable(queue', HeapAmounts(queue'))
      /\ InFlightAmount = InFlightAmount' + e.amount
  <2> DEFINE rest == queue \ {e}
             entries == Departures(e, new)
  <2>1. \A z \in entries : z.amount = 0
    BY <1>3, DeparturesType DEF TransferEvent
  <2>2. /\ Summable(rest, HeapAmounts(rest))
        /\ Total(queue, HeapAmounts(queue)) = Total(rest, HeapAmounts(rest)) + e.amount
    BY <1>2, HeapPop DEF Accounts
  <2> HIDE DEF rest, entries
  <2>3. /\ Summable(rest \cup entries, HeapAmounts(rest \cup entries))
        /\ Total(rest \cup entries, HeapAmounts(rest \cup entries)) = Total(rest, HeapAmounts(rest))
    BY <2>1, <2>2, HeapIdle
  <2>4. queue' = rest \cup entries
    BY <1>4 DEF rest, entries
  <2> QED BY <2>2, <2>3, <2>4 DEF InFlightAmount, HeapAmounts
<1>7. Numbered'
  <2>1. Cardinality(new) \in Nat /\ sequence \in Nat /\ IsFiniteSet(new)
    BY <1>3, FlowAssumption, DeparturesType, FS_Subset DEF TypeOK
  <2>2. \A t \in new : Cardinality({u \in new : u < t}) < Cardinality(new)
    <3> TAKE t \in new
    <3> DEFINE below == {u \in new : u < t}
    <3>1. below \in SUBSET new /\ below # new
      BY <1>3, FlowAssumption
    <3> HIDE DEF below
    <3>2. /\ IsFiniteSet(below) /\ Cardinality(below) <= Cardinality(new)
          /\ Cardinality(below) # Cardinality(new)
      BY <2>1, <3>1, FS_Subset
    <3>3. Cardinality(below) \in Nat
      BY <3>2, FS_CardinalityType
    <3>4. Cardinality(below) < Cardinality(new)
      BY <2>1, <3>2, <3>3
    <3> QED BY <3>4 DEF below
  <2>3. \A t \in new : Cardinality({u \in new : u < t}) \in Nat
    <3> TAKE t \in new
    <3>1. {u \in new : u < t} \in SUBSET new
      OBVIOUS
    <3> QED BY <2>1, <3>1, FS_Subset, FS_CardinalityType
  <2>4. \A z \in Departures(e, new) : z.seq < sequence + Cardinality(new)
    <3> TAKE z \in Departures(e, new)
    <3>1. PICK t \in new : z.seq = sequence + Cardinality({u \in new : u < t})
      <4>1. PICK t \in new :
              z = [kind |-> "transfer", at |-> ledger[t].at, transfer |-> t, amount |-> 0,
                   seq |-> sequence + Cardinality({u \in new : u < t}), depth |-> e.depth + 1]
        BY Zenon DEF Departures
      <4> QED BY <4>1
    <3> QED BY <2>1, <2>2, <2>3, <3>1
  <2>5. \A z \in queue : z.seq < sequence + Cardinality(new)
    <3>1. \A z \in queue : z.seq \in Nat /\ z.seq < sequence
      BY EventType DEF Numbered
    <3> QED BY <2>1, <3>1
  <2> QED BY <1>4, <2>4, <2>5 DEF Numbered
<1>8. CASE terminals' = terminals
  <2>1. /\ Summable(DOMAIN terminals', ReportAmounts(terminals'))
        /\ TerminalAmount' = TerminalAmount /\ EdgeLimitReached' = EdgeLimitReached
    BY <1>8 DEF Accounts, TerminalAmount, EdgeLimitReached
  <2>2. Accounts'
    BY <1>5, <1>6, <2>1 DEF Accounts
  <2> QED BY <1>2, <1>5, <1>6, <1>7, <2>1, <2>2, Balanced
<1>9. CASE Stop(e.address, e.amount, "MAX_NODES", e.depth, e.parents, "edge limit")
  <2>1. Summable(DOMAIN terminals', ReportAmounts(terminals')) /\ EdgeLimitReached'
    BY <1>2, <1>9, StopReports DEF TerminalReason
  <2> QED BY <1>5, <1>6, <1>7, <2>1 DEF Accounts, Conservation
<1> QED BY <1>4, <1>8, <1>9

\* An attributed amount that stops: from the wallet to the report.
LEMMA TransferStopped ==
  ASSUME TypeOK, Accounts, Conservation, Numbered, NEW e \in queue, e.kind = "transfer",
         NEW haircut \in Haircut(e), NEW attributed \in Attributed(e),
         StopTransfer(e, attributed, haircut)
  PROVE  Accounts' /\ Conservation' /\ Numbered'
<1>1. attributed \in Nat
  BY AttributedType
<1>2. /\ ledger[e.transfer].destination \in Address /\ e.depth \in Nat
      /\ {e.transfer} \in SUBSET Transfer /\ e.amount = 0
  BY EventType DEF TypeOK, TransferRecord
<1>3. StopReason(e, attributed) \in TerminalReason
  <2>1. Endpoint[ledger[e.transfer].destination] \in EndpointReasons \cup {"NONE"}
    BY <1>2, FlowAssumption
  <2> QED BY <2>1 DEF StopTransfer, StopReason, TerminalReason
<1>4. /\ Summable(DOMAIN terminals', ReportAmounts(terminals'))
      /\ TerminalAmount' = TerminalAmount + attributed
      /\ EdgeLimitReached => EdgeLimitReached'
  BY <1>1, <1>2, <1>3, StopReports DEF StopTransfer
<1>5. Summable(Address, tainted') /\ RetainedAmount = RetainedAmount' + attributed
  BY AllocateSpends DEF StopTransfer
<1>6. /\ Summable(queue', HeapAmounts(queue')) /\ InFlightAmount' = InFlightAmount
      /\ Numbered'
  <2>1. /\ Summable(queue', HeapAmounts(queue')) /\ InFlightAmount = InFlightAmount' + 0
        /\ Numbered'
    BY <1>2, DropPops DEF StopTransfer
  <2>2. Total(queue', HeapAmounts(queue')) \in Nat
    BY <2>1, TotalType
  <2>3. InFlightAmount' \in Nat
    BY <2>2 DEF InFlightAmount, HeapAmounts
  <2>4. InFlightAmount' = InFlightAmount
    BY <2>1, <2>3, PlusZero, Zenon
  <2> QED BY <2>1, <2>4
<1>7. Accounts'
  BY <1>4, <1>5, <1>6 DEF Accounts
<1> QED BY <1>1, <1>4, <1>5, <1>6, <1>7, Balanced

\* An attributed amount that goes on: from the wallet to a new arrival.
LEMMA TransferForwarded ==
  ASSUME TypeOK, Accounts, Conservation, Numbered, NEW e \in queue, e.kind = "transfer",
         NEW haircut \in Haircut(e), NEW attributed \in Attributed(e),
         ForwardTransfer(e, attributed, haircut)
  PROVE  Accounts' /\ Conservation' /\ Numbered'
<1> DEFINE arrival == [kind |-> "arrival", at |-> ledger[e.transfer].at, seq |-> sequence,
                       address |-> ledger[e.transfer].destination, amount |-> attributed,
                       depth |-> e.depth, parents |-> {e.transfer}]
           rest == queue \ {e}
<1>1. attributed \in Nat /\ e.amount = 0 /\ sequence \in Nat
  BY AttributedType, EventType DEF TypeOK
<1>2. /\ queue' = rest \cup {arrival} /\ sequence' = sequence + 1
      /\ terminals' = terminals
  BY DEF ForwardTransfer
<1>3. arrival.amount = attributed /\ arrival.seq = sequence
  OBVIOUS
<1>4. \A x \in queue : x.seq \in Nat /\ x.seq < sequence
  BY EventType DEF Numbered
<1>5. Summable(Address, tainted') /\ RetainedAmount = RetainedAmount' + attributed
  BY AllocateSpends DEF ForwardTransfer
<1>6. /\ Summable(rest, HeapAmounts(rest))
      /\ Total(queue, HeapAmounts(queue)) = Total(rest, HeapAmounts(rest)) + 0
  BY <1>1, HeapPop DEF Accounts
<1> HIDE DEF arrival
<1>7. arrival \notin rest
  BY <1>1, <1>3, <1>4
<1> HIDE DEF rest
<1>8. /\ Summable(queue', HeapAmounts(queue'))
      /\ Total(queue', HeapAmounts(queue')) = Total(rest, HeapAmounts(rest)) + attributed
  <2>1. arrival.amount \in Nat
    BY <1>1, <1>3
  <2> DEFINE after == rest \cup {arrival}
  <2>2. /\ Summable(after, HeapAmounts(after))
        /\ Total(after, HeapAmounts(after)) = Total(rest, HeapAmounts(rest)) + arrival.amount
    BY <1>6, <1>7, <2>1, HeapPush, Zenon
  <2>3. queue' = after
    BY <1>2
  <2> HIDE DEF after
  <2>4. Summable(queue', HeapAmounts(queue'))
    BY <2>2, <2>3
  <2>5. Total(queue', HeapAmounts(queue')) = Total(rest, HeapAmounts(rest)) + arrival.amount
    BY <2>2, <2>3
  <2> QED BY <1>3, <2>4, <2>5
<1>9. InFlightAmount' = InFlightAmount + attributed
  <2>1. Total(rest, HeapAmounts(rest)) \in Nat
    BY <1>6, TotalType
  <2>2. Total(queue, HeapAmounts(queue)) = Total(rest, HeapAmounts(rest))
    BY <1>6, <2>1
  <2> QED BY <1>8, <2>2 DEF InFlightAmount, HeapAmounts
<1>10. Numbered'
  <2>1. \A x \in rest : x.seq < sequence + 1
    BY <1>1, <1>4 DEF rest
  <2>2. arrival.seq < sequence + 1
    BY <1>1, <1>3
  <2> QED BY <1>2, <2>1, <2>2 DEF Numbered
<1>11. /\ Accounts' /\ TerminalAmount' = TerminalAmount
       /\ EdgeLimitReached => EdgeLimitReached'
  BY <1>2, <1>5, <1>8 DEF Accounts, TerminalAmount, EdgeLimitReached
<1> QED BY <1>1, <1>5, <1>9, <1>10, <1>11, Balanced

\* A discarded event, or an allocation of nothing.
LEMMA TransferSkipped ==
  ASSUME TypeOK, Accounts, Conservation, Numbered, NEW e \in queue, e.kind = "transfer",
         NEW haircut \in Haircut(e), SkipTransfer(e, haircut)
  PROVE  Accounts' /\ Conservation' /\ Numbered'
<1>1. e.amount = 0
  BY EventType
<1>2. /\ Summable(queue', HeapAmounts(queue')) /\ InFlightAmount = InFlightAmount' + 0
      /\ Numbered'
  BY <1>1, DropPops DEF SkipTransfer
<1>3. Summable(Address, tainted') /\ RetainedAmount = RetainedAmount' + 0
  <2>1. CASE Stale(e)
    <3>1. tainted' = tainted
      BY <2>1 DEF SkipTransfer
    <3>2. RetainedAmount \in Nat
      BY SumsAreNatural
    <3> QED BY <3>1, <3>2 DEF Accounts, RetainedAmount
  <2>2. CASE ~Stale(e)
    BY <2>2, AllocateSpends DEF SkipTransfer
  <2> QED BY <2>1, <2>2
<1>4. TerminalAmount' = TerminalAmount + 0 /\ (EdgeLimitReached => EdgeLimitReached')
  <2>1. terminals' = terminals
    BY DEF SkipTransfer, output
  <2>2. TerminalAmount \in Nat
    BY SumsAreNatural
  <2>3. TerminalAmount + 0 = TerminalAmount
    BY <2>2, PlusZero, Zenon
  <2>4. TerminalAmount' = TerminalAmount /\ EdgeLimitReached' = EdgeLimitReached
    BY <2>1 DEF TerminalAmount, EdgeLimitReached
  <2> QED BY <2>3, <2>4, Zenon
<1>5. Accounts'
  BY <1>2, <1>3 DEF Accounts, SkipTransfer, output
<1>6. InFlightAmount' = InFlightAmount
  <2>1. Total(queue', HeapAmounts(queue')) \in Nat
    BY <1>2, TotalType
  <2>2. InFlightAmount' \in Nat
    BY <2>1 DEF InFlightAmount, HeapAmounts
  <2> QED BY <1>2, <2>2, PlusZero, Zenon
<1> QED BY <1>2, <1>3, <1>4, <1>5, <1>6, Balanced

\* Every step keeps the invariant: one case per action.
LEMMA INext == IInv /\ [Next]_vars => IInv'
<1> SUFFICES ASSUME IInv, [Next]_vars PROVE IInv'
  OBVIOUS
<1> USE DEF IInv
<1>1. TypeOK'
  BY TypeNext
<1>2. CASE UNCHANGED vars
  BY <1>1, <1>2, Unmoved DEF vars, wallets, heap, output
<1>3. CASE CancelTrace
  BY <1>1, <1>3, Unmoved DEF CancelTrace, wallets, heap, output
<1>4. CASE Finish
  BY <1>1, <1>4, Unmoved DEF Finish, wallets, heap, output
<1>5. ASSUME NEW e \in queue, PastEnd(e) PROVE IInv'
  <2>1. Drop(e) /\ tainted' = tainted
    BY <1>5 DEF PastEnd, wallets
  <2>2. CASE e.kind = "arrival"
    <3>1. Stop(e.address, e.amount, "TIME_BOUNDARY", e.depth, e.parents, "none")
      BY <1>5, <2>2 DEF PastEnd
    <3> QED BY <1>1, <2>1, <2>2, <3>1, ArrivalReported DEF TerminalReason
  <2>3. CASE e.kind = "transfer"
    <3>1. e.amount = 0
      BY <2>3, EventType
    <3>2. /\ Summable(queue', HeapAmounts(queue')) /\ InFlightAmount = InFlightAmount' + 0
          /\ Numbered'
      BY <2>1, <3>1, DropPops
    <3>3. terminals' = terminals
      BY <1>5, <2>3 DEF PastEnd
    <3>4. Accounts'
      BY <2>1, <3>2, <3>3 DEF Accounts
    <3>5. RetainedAmount' = RetainedAmount + 0
      BY <2>1, SumsAreNatural DEF RetainedAmount
    <3>6. TerminalAmount' = TerminalAmount /\ (EdgeLimitReached => EdgeLimitReached')
      BY <3>3 DEF TerminalAmount, EdgeLimitReached
    <3> QED BY <1>1, <3>2, <3>4, <3>5, <3>6, Balanced
  <2> QED BY <2>2, <2>3, EventType
<1>6. ASSUME NEW e \in queue, ArriveOverNodeLimit(e) PROVE IInv'
  <2>1. /\ e.kind = "arrival" /\ Drop(e) /\ tainted' = tainted
        /\ Stop(e.address, e.amount, "MAX_NODES", e.depth, e.parents, "node limit")
    BY <1>6 DEF ArriveOverNodeLimit, Arrives
  <2> QED BY <1>1, <2>1, ArrivalReported DEF TerminalReason
<1>7. ASSUME NEW e \in queue, ArriveProviderFails(e) PROVE IInv'
  <2>1. /\ e.kind = "arrival" /\ Drop(e) /\ tainted' = tainted
        /\ Stop(e.address, e.amount, "UNKNOWN", e.depth, e.parents, "none")
    BY <1>7 DEF ArriveProviderFails, Arrives
  <2> QED BY <1>1, <2>1, ArrivalReported DEF TerminalReason
<1>8. ASSUME NEW e \in queue, NEW answer \in Answers(e.address), ArriveNoOutgoing(e, answer)
      PROVE  IInv'
  <2>1. /\ e.kind = "arrival" /\ Drop(e) /\ tainted' = tainted
        /\ Stop(e.address, e.amount, "NO_OUTGOING", e.depth, e.parents, "none")
    BY <1>8 DEF ArriveNoOutgoing, Retrieve, Arrives
  <2> QED BY <1>1, <2>1, ArrivalReported DEF TerminalReason
<1>9. ASSUME NEW e \in queue, NEW answer \in Answers(e.address), ArriveSchedule(e, answer)
      PROVE  IInv'
  BY <1>1, <1>9, ArrivalScheduled
<1>10. ASSUME NEW e \in queue, e.kind = "transfer", NEW haircut \in Haircut(e),
              SkipTransfer(e, haircut)
       PROVE  IInv'
  BY <1>1, <1>10, TransferSkipped
<1>11. ASSUME NEW e \in queue, e.kind = "transfer", NEW haircut \in Haircut(e),
              NEW attributed \in Attributed(e), StopTransfer(e, attributed, haircut)
       PROVE  IInv'
  BY <1>1, <1>11, TransferStopped
<1>12. ASSUME NEW e \in queue, e.kind = "transfer", NEW haircut \in Haircut(e),
              NEW attributed \in Attributed(e), ForwardTransfer(e, attributed, haircut)
       PROVE  IInv'
  BY <1>1, <1>12, TransferForwarded
<1> QED
  BY <1>2, <1>3, <1>4, <1>5, <1>6, <1>7, <1>8, <1>9, <1>10, <1>11, <1>12
  DEF Next, Step, Arrive, Depart

\* Value is conserved in every trace, on every ledger and under every policy:
\* unless max_edges cut a wallet off, the seed amount is the sum of what the
\* terminals report, what the wallets retain and what is still in the heap
\* (flow_v2.py, trace, lines 192-258).
THEOREM ValueConserved == Spec => []Conservation
<1>1. Init => IInv
  BY IInit
<1>2. IInv /\ [Next]_vars => IInv'
  BY INext
<1>3. IInv => Conservation
  BY DEF IInv
<1> QED BY <1>1, <1>2, <1>3, PTL DEF Spec

\* In exact arithmetic the conservation assertion at the end of trace can fail
\* only where max_edges cut a wallet's transfers off: with an empty heap the
\* terminals and the wallets hold the seed amount, no more (lines 253-257).
THEOREM AssertionHolds == Spec => []OverspendsOnlyAtEdgeLimit
<1>1. Init => OverspendsOnlyAtEdgeLimit
  BY DEF Init, OverspendsOnlyAtEdgeLimit
<1>2. ASSUME IInv, OverspendsOnlyAtEdgeLimit, [Next]_vars
      PROVE  OverspendsOnlyAtEdgeLimit'
  <2>1. CASE Finish
    <3>1. CASE EdgeLimitReached
      BY <2>1, <3>1 DEF Finish, OverspendsOnlyAtEdgeLimit, EdgeLimitReached, output
    <3>2. CASE ~EdgeLimitReached
      <4>1. InFlightAmount = 0
        BY <2>1, TotalZero DEF Finish, InFlightAmount
      <4>2. TerminalAmount + RetainedAmount + InFlightAmount = SeedAmount
        BY <1>2, <3>2 DEF IInv, Conservation
      <4>3. TerminalAmount \in Nat /\ RetainedAmount \in Nat
        BY <1>2, SumsAreNatural DEF IInv
      <4>4. SeedAmount \in Nat
        BY FlowAssumption
      <4> HIDE DEF TerminalAmount, RetainedAmount, InFlightAmount
      <4>5. ~(TerminalAmount + RetainedAmount > SeedAmount)
        BY <4>1, <4>2, <4>3, <4>4
      <4> QED BY <2>1, <4>5 DEF Finish, OverspendsOnlyAtEdgeLimit
    <3> QED BY <3>1, <3>2
  <2>2. CASE status' = status /\ status # "failed"
    BY <2>2 DEF OverspendsOnlyAtEdgeLimit
  <2>3. CASE status' = "cancelled"
    BY <2>3 DEF OverspendsOnlyAtEdgeLimit
  <2>4. CASE UNCHANGED vars
    BY <1>2, <2>4 DEF vars, output, OverspendsOnlyAtEdgeLimit, EdgeLimitReached
  <2>5. ASSUME NEW e \in queue, Step(e)
        PROVE  status' = status /\ status # "failed"
    BY <2>5 DEF Step, PastEnd, Pop, Arrive, Arrives, ArriveOverNodeLimit, ArriveProviderFails,
      Retrieve, ArriveNoOutgoing, ArriveSchedule, Depart, Departs, SkipTransfer, StopTransfer,
      ForwardTransfer
  <2> QED BY <1>2, <2>1, <2>2, <2>3, <2>4, <2>5 DEF Next, CancelTrace
<1>3. Init => IInv
  BY IInit
<1>4. IInv /\ [Next]_vars => IInv'
  BY INext
<1> QED BY <1>1, <1>2, <1>3, <1>4, PTL DEF Spec

-----------------------------------------------------------------------------
(* Arithmetic and counting *)

\* A quotient is within its dividend.
LEMMA QuotientBounds ==
  ASSUME NEW m \in Nat, NEW d \in Nat \ {0}
  PROVE  /\ m \div d \in Nat /\ m % d \in Nat
         /\ d * (m \div d) + (m % d) = m
OBVIOUS

\* Of c quanta, less than the whole of a balance b is charged with at most c, rounded or not.
LEMMA NearBounded ==
  ASSUME NEW c \in Nat, NEW b \in Nat \ {0}, NEW p \in Nat, p < b
  PROVE  \A share \in Near(c * p, b) : share <= c
<1> DEFINE m == c * p
           q == m \div b
           r == m % b
<1>1. m \in Nat /\ (m # 0 => m < b * c)
  <2>1. m \in Nat /\ (c # 0 => c >= 1)
    OBVIOUS
  <2>2. c = 0 => m = 0
    OBVIOUS
  <2>3. c >= 1 => c * p < c * b
    OBVIOUS
  <2>4. c * b = b * c
    OBVIOUS
  <2> QED BY <2>1, <2>2, <2>3, <2>4
<1> HIDE DEF m
<1>2. q \in Nat /\ r \in Nat /\ b * q + r = m
  BY <1>1, QuotientBounds
<1>3. Near(m, b) = IF m = 0 THEN {0} ELSE IF r = 0 THEN q - 1 .. q + 1 ELSE q .. q + 1
  BY DEF Near
<1> HIDE DEF q, r
<1>4. m # 0 => q + 1 <= c
  <2> SUFFICES ASSUME m # 0, q >= c PROVE FALSE
    BY <1>2
  <2>1. b * q >= b * c
    BY <1>2
  <2>2. b * q \in Nat /\ b * c \in Nat
    BY <1>2
  <2> QED BY <1>1, <1>2, <2>1, <2>2
<1>5. \A share \in Near(m, b) : share <= c
  BY <1>1, <1>2, <1>3, <1>4
<1> QED BY <1>5 DEF m

\* A transfer gives away no more disputed value than it moved: its share of the
\* tainted balance is a part of the amount the whole balance covers.
LEMMA AttributedBounded ==
  ASSUME TypeOK, NEW e \in queue, e.kind = "transfer", NEW attributed \in Attributed(e)
  PROVE  attributed <= ledger[e.transfer].amount
<1> DEFINE a == ledger[e.transfer].source
           amount == ledger[e.transfer].amount
           before == tainted[a]
           covered == Covered(e.transfer)
<1>1. e.transfer \in Transfer
  BY EventType
<1>2. a \in Address /\ amount \in Nat
  BY <1>1 DEF TypeOK, TransferRecord
<1>3. before \in Nat /\ clean[a] \in Nat /\ Balance(a) = before + clean[a]
  BY <1>2 DEF TypeOK, Balance
<1>4. covered = Least(amount, Balance(a))
  BY DEF Covered
<1>5. PICK share \in Share(e.transfer, before) : attributed = Least(before, share)
  BY DEF Attributed
<1>6. Share(e.transfer, before) =
        IF Balance(a) = 0 THEN {0}
        ELSE IF before = Balance(a) THEN {covered} ELSE Near(covered * before, Balance(a))
  BY DEF Share
<1> HIDE DEF a, amount, before, covered
<1>7. Balance(a) \in Nat /\ before <= Balance(a)
  BY <1>3
<1>8. covered \in Nat /\ covered <= amount
  BY <1>2, <1>4, <1>7 DEF Least
<1>9. share \in Nat /\ share <= covered
  <2>1. CASE Balance(a) = 0
    BY <1>5, <1>6, <1>8, <2>1
  <2>3. CASE Balance(a) # 0 /\ before = Balance(a)
    BY <1>5, <1>6, <1>8, <2>3
  <2>2. CASE Balance(a) # 0 /\ before # Balance(a)
    <3>1. Balance(a) \in Nat \ {0} /\ share \in Near(covered * before, Balance(a))
      BY <1>5, <1>6, <1>7, <2>2
    <3>2. covered * before \in Nat
      BY <1>3, <1>8
    <3>3. share \in Nat
      BY <3>1, <3>2, NearType
    <3>4. before < Balance(a)
      BY <1>3, <1>7, <2>2
    <3> QED BY <1>3, <1>8, <3>1, <3>3, <3>4, NearBounded
  <2> QED BY <2>1, <2>2, <2>3
<1>10. attributed \in Nat /\ attributed <= share
  BY <1>3, <1>5, <1>9 DEF Least
<1>11. attributed <= amount
  BY <1>2, <1>8, <1>9, <1>10
<1> QED BY <1>11 DEF amount

\* A finite set of numbers has a greatest member.
LEMMA GreatestExists ==
  ASSUME NEW S \in SUBSET Nat, IsFiniteSet(S), S # {}
  PROVE  \E m \in S : \A s \in S : s <= m
<1> DEFINE above == [s \in S |-> {u \in S : u > s}]
           family == {above[s] : s \in S}
<1>1. family \subseteq FiniteSubsetsOf(S) /\ family # {}
  <2>1. \A s \in S : above[s] \in SUBSET S /\ IsFiniteSet(above[s])
    BY FS_Subset
  <2> QED BY <2>1 DEF FiniteSubsetsOf
<1>2. IsWellFoundedOn(StrictSubsetOrdering(S), FiniteSubsetsOf(S))
  BY FS_StrictSubsetOrderingWellFounded
<1> HIDE DEF family
<1>3. PICK T \in family : \A U \in family : ~(<<U, T>> \in StrictSubsetOrdering(S))
  BY <1>1, <1>2, WFMin
<1>4. PICK m \in S : T = above[m]
  BY DEF family
<1>5. \A s \in S : ~(s > m)
  <2> SUFFICES ASSUME NEW s \in S, s > m PROVE FALSE
    OBVIOUS
  <2>1. above[s] \subseteq above[m] /\ s \in above[m] /\ s \notin above[s]
    <3>1. \A u \in S : u > s => u > m
      OBVIOUS
    <3>2. ~(s > s)
      OBVIOUS
    <3> QED BY <3>1, <3>2
  <2>2. above[s] \in family
    BY DEF family
  <2>3. <<above[s], T>> \in StrictSubsetOrdering(S)
    BY <1>4, <2>1 DEF StrictSubsetOrdering
  <2> QED BY <1>3, <2>2, <2>3
<1> QED BY <1>5

\* The loop over a wallet's transfers schedules a new one only while fewer than
\* max_edges are scheduled (lines 210-222).
LEMMA EdgesCounted ==
  ASSUME TypeOK, NEW out \in SUBSET Transfer, Cardinality(scheduled) <= policy.max_edges
  PROVE  Cardinality(scheduled \cup (Visited(out) \ scheduled)) <= policy.max_edges
<1> DEFINE new == Visited(out) \ scheduled
           limit == policy.max_edges
<1>1. /\ scheduled \in SUBSET Transfer /\ limit \in Nat /\ new \in SUBSET Transfer
      /\ new \subseteq out \ scheduled /\ IsFiniteSet(Transfer) /\ Transfer \subseteq Nat
  BY FlowAssumption DEF TypeOK, TracePolicy, Visited
<1>2. IsFiniteSet(scheduled) /\ IsFiniteSet(new)
  BY <1>1, FS_Subset
<1>3. CASE new = {}
  BY <1>3
<1>4. CASE new # {}
  <2>1. PICK m \in new : \A t \in new : t <= m
    <3> HIDE DEF new
    <3> QED BY <1>1, <1>2, <1>4, GreatestExists
  <2> DEFINE before == {u \in out \ scheduled : u < m}
  <2>2. m \notin OverEdgeLimit(out) /\ m \in out \ scheduled
    <3>1. m \in Nat /\ \A u \in OverEdgeLimit(out) : m < u
      BY <1>1, <2>1 DEF Visited
    <3>2. ~(m < m)
      BY <3>1
    <3> QED BY <1>1, <3>1, <3>2
  <2>3. IsFiniteSet(before) /\ Cardinality(before) \in Nat /\ Cardinality(scheduled) \in Nat
    <3>1. before \in SUBSET Transfer
      OBVIOUS
    <3> QED BY <1>1, <1>2, <3>1, FS_Subset, FS_CardinalityType
  <2>4. Cardinality(scheduled) + Cardinality(before) < limit
    <3>1. ~(Cardinality(scheduled) + Cardinality(before) >= limit)
      BY <2>2 DEF OverEdgeLimit
    <3> HIDE DEF before, limit
    <3> QED BY <1>1, <2>3, <3>1
  <2>5. new \subseteq before \cup {m}
    <3>1. \A t \in new : t = m \/ t < m
      <4> HIDE DEF new
      <4>1. \A t \in new : t \in Nat /\ t <= m
        BY <1>1, <2>1
      <4> QED BY <4>1
    <3> QED BY <1>1, <3>1
  <2> DEFINE all == (scheduled \cup before) \cup {m}
  <2>6. /\ IsFiniteSet(scheduled \cup before)
        /\ Cardinality(scheduled \cup before) = Cardinality(scheduled) + Cardinality(before)
    <3>1. scheduled \cap before = {}
      OBVIOUS
    <3> HIDE DEF before
    <3>2. /\ IsFiniteSet(scheduled \cup before)
          /\ Cardinality(scheduled \cup before) =
               Cardinality(scheduled) + Cardinality(before) - Cardinality(scheduled \cap before)
      BY <1>2, <2>3, FS_Union
    <3>3. Cardinality(scheduled \cap before) = 0
      BY <3>1, FS_EmptySet
    <3> QED BY <2>3, <3>2, <3>3
  <2> HIDE DEF before
  <2>7. /\ IsFiniteSet(all)
        /\ Cardinality(all) <= Cardinality(scheduled) + Cardinality(before) + 1
    <3>1. /\ IsFiniteSet(all)
          /\ Cardinality(all) = IF m \in scheduled \cup before THEN Cardinality(scheduled \cup before)
                                ELSE Cardinality(scheduled \cup before) + 1
      BY <2>6, FS_AddElement
    <3> HIDE DEF all
    <3> QED BY <2>3, <2>6, <3>1
  <2>8. scheduled \cup new \in SUBSET all
    BY <2>5
  <2> HIDE DEF all, new
  <2>9. /\ Cardinality(scheduled \cup new) <= Cardinality(all)
        /\ Cardinality(scheduled \cup new) \in Nat /\ Cardinality(all) \in Nat
    BY <2>7, <2>8, FS_Subset, FS_CardinalityType
  <2>10. Cardinality(scheduled \cup new) <= limit
    <3> HIDE DEF limit
    <3> QED BY <1>1, <2>3, <2>4, <2>7, <2>9
  <2> QED BY <2>10 DEF new, limit
<1> QED BY <1>3, <1>4

-----------------------------------------------------------------------------
(* The books and the lineage *)

Booked(t) == \E j \in DOMAIN allocations : allocations[j].transfer = t

\* t was booked and brought its value to wallet a, no later than now.
CameTo(t, a, now) == Booked(t) /\ ledger[t].destination = a /\ ledger[t].at <= now

\* An arrival in the heap may still be forwarded, and its parents brought it.
Arrivals ==
  \A e \in queue : e.kind = "arrival" =>
    /\ e.at >= SeedTime /\ e.depth < policy.max_hops
    /\ \A t \in e.parents : CameTo(t, e.address, e.at)

Departing ==
  \A e \in queue : e.kind = "transfer" =>
    /\ e.at = ledger[e.transfer].at /\ e.at >= SeedTime
    /\ e.depth <= policy.max_hops /\ e.transfer \in scheduled

Parentage ==
  \A t \in Transfer : \A p \in parents[t] : CameTo(p, ledger[t].source, ledger[t].at)

Lineage == Arrivals /\ Departing /\ Parentage

\* The limits, one by one: wallets opened, transfers scheduled, steps booked.
NodesWithin ==
  /\ IsFiniteSet(nodes) /\ opened \subseteq nodes
  /\ Cardinality(opened) <= policy.max_nodes

EdgesWithin == Cardinality(scheduled) <= policy.max_edges

StepsWithin ==
  \A i \in DOMAIN allocations :
    /\ allocations[i].depth <= policy.max_hops
    /\ ledger[allocations[i].transfer].at \in SeedTime .. policy.end_time

\* An allocation's transfer is marked as processed: why none is booked twice.
Spent == \A i \in DOMAIN allocations : allocations[i].transfer \in processed

Books == Spent /\ StepsWithin /\ TransferBookedOnce /\ LineageCausal

LInv == TypeOK /\ Lineage /\ NodesWithin /\ EdgesWithin /\ Books

\* At first there is nothing in the books, and the heap holds the seed.
LEMMA LInit == Init => LInv
<1> SUFFICES ASSUME Init PROVE LInv
  OBVIOUS
<1>1. TypeOK
  BY TypeInit
<1>2. policy \in TracePolicy /\ SeedTime \in Nat
  BY <1>1, FlowAssumption DEF TypeOK
<1>3. Lineage
  BY <1>2 DEF Init, Lineage, Arrivals, Departing, Parentage, TracePolicy
<1>4. NodesWithin /\ EdgesWithin
  <2>1. IsFiniteSet({}) /\ Cardinality({}) = 0
    BY FS_EmptySet
  <2> QED BY <1>2, <2>1 DEF Init, NodesWithin, EdgesWithin, TracePolicy
<1>5. Books
  <2>1. DOMAIN allocations = {}
    BY DEF Init
  <2> QED BY <2>1 DEF Books, Spent, StepsWithin, TransferBookedOnce, LineageCausal
<1> QED BY <1>1, <1>3, <1>4, <1>5 DEF LInv

\* A step that books nothing leaves the books in order.
LEMMA BooksKept ==
  ASSUME Books, UNCHANGED <<ledger, policy, allocations>>, processed \subseteq processed'
  PROVE  Books' /\ \A t \in Transfer : Booked(t) => Booked(t)'
BY DEF Books, Spent, StepsWithin, TransferBookedOnce, LineageCausal, Booked

\* A step that pushes nothing leaves the lineage of what is in the heap.
LEMMA LineageKept ==
  ASSUME TypeOK, Lineage, queue' \subseteq queue, UNCHANGED <<ledger, policy, schedule>>,
         \A t \in Transfer : Booked(t) => Booked(t)'
  PROVE  Lineage'
<1>1. UNCHANGED <<ledger, policy, scheduled, parents>>
  BY DEF schedule
<1>2. \A t \in Transfer : \A a, now : CameTo(t, a, now) => CameTo(t, a, now)'
  BY <1>1 DEF CameTo
<1>3. ASSUME NEW e \in queue', e.kind = "arrival"
      PROVE  /\ e.at >= SeedTime /\ e.depth < policy'.max_hops
             /\ \A t \in e.parents : CameTo(t, e.address, e.at)'
  <2>1. e \in queue /\ e.parents \subseteq Transfer
    BY <1>3, EventType
  <2> QED BY <1>1, <1>2, <1>3, <2>1 DEF Lineage, Arrivals
<1>4. Arrivals'
  BY <1>3 DEF Arrivals
<1>5. Departing'
  BY <1>1 DEF Lineage, Departing
<1>6. Parentage'
  <2>1. \A t \in Transfer : parents[t] \subseteq Transfer
    BY DEF TypeOK
  <2> QED BY <1>1, <1>2, <2>1 DEF Lineage, Parentage
<1> QED BY <1>4, <1>5, <1>6 DEF Lineage

\* A wallet is opened only after it was counted.
LEMMA NodesKept ==
  ASSUME TypeOK, NodesWithin, UNCHANGED policy, NEW a \in Address,
         nodes' = nodes \cup {a},
         \/ opened' = opened
         \/ opened' = opened \cup {a} /\ Cardinality(nodes \cup {a}) <= policy.max_nodes
  PROVE  NodesWithin'
<1>1. IsFiniteSet(nodes')
  BY FS_AddElement DEF NodesWithin
<1>2. CASE opened' = opened
  BY <1>1, <1>2 DEF NodesWithin
<1>3. CASE opened' = opened \cup {a} /\ Cardinality(nodes \cup {a}) <= policy.max_nodes
  <2>1. opened' \in SUBSET nodes'
    BY <1>3 DEF NodesWithin
  <2>2. /\ Cardinality(opened') <= Cardinality(nodes') /\ Cardinality(opened') \in Nat
        /\ Cardinality(nodes') \in Nat
    BY <1>1, <2>1, FS_Subset, FS_CardinalityType
  <2>3. policy.max_nodes \in Nat
    BY DEF TypeOK, TracePolicy
  <2> QED BY <1>1, <1>3, <2>1, <2>2, <2>3 DEF NodesWithin
<1> QED BY <1>2, <1>3

\* A transfer is booked once, within the policy, and after its parents.
LEMMA BookOne ==
  ASSUME TypeOK, Lineage, Books, NEW e \in queue, e.kind = "transfer", Departs(e), ~Stale(e),
         NEW attributed \in Attributed(e), NEW haircut,
         Allocate(e, attributed, haircut), Record(e, attributed)
  PROVE  /\ Books' /\ Booked(e.transfer)' /\ ~Booked(e.transfer)
         /\ \A t \in Transfer : Booked(t) => Booked(t)'
<1> DEFINE row == [transfer |-> e.transfer, depth |-> e.depth, parents |-> parents[e.transfer],
                   before |-> tainted[ledger[e.transfer].source],
                   covered |-> Covered(e.transfer), attributed |-> attributed]
           n == Len(allocations) + 1
<1>1. e.transfer \in Transfer /\ e.at \in Nat /\ parents[e.transfer] \subseteq Transfer
  BY EventType DEF TypeOK, TransferEvent
<1>2. /\ row.transfer = e.transfer /\ row.depth = e.depth
      /\ row.parents = parents[e.transfer] /\ row.attributed = attributed
  OBVIOUS
<1>3. allocations' = Append(allocations, row)
  BY DEF Record
<1>4. /\ UNCHANGED <<ledger, policy, parents>> /\ e.at <= policy.end_time
      /\ processed' = processed \cup {e.transfer} /\ e.transfer \notin processed
  BY DEF Departs, Allocate, Stale, request, schedule
<1>5. row \in Allocation
  <2>1. tainted[ledger[e.transfer].source] \in Nat /\ Covered(e.transfer) \in Nat /\ attributed \in Nat
    BY AttributedType DEF TypeOK
  <2> QED BY <1>1, <2>1, EventType DEF Allocation
<1> HIDE DEF row
<1>6. /\ DOMAIN allocations = 1 .. n - 1 /\ DOMAIN allocations' = 1 .. n /\ n \in Nat \ {0}
      /\ allocations'[n] = row /\ \A i \in 1 .. n - 1 : allocations'[i] = allocations[i]
  <2>1. allocations \in Seq(Allocation)
    BY DEF TypeOK
  <2> QED BY <1>3, <1>5, <2>1, AppendProperties
<1> HIDE DEF n
<1>7. \A i \in 1 .. n : i # n => i \in DOMAIN allocations /\ i \in 1 .. n - 1
  BY <1>6
<1>8. \A t \in Transfer : Booked(t) => Booked(t)'
  BY <1>6, <1>7 DEF Booked
<1>9. Booked(e.transfer)' /\ ~Booked(e.transfer)
  BY <1>2, <1>4, <1>6 DEF Booked, Books, Spent
<1>10. Spent'
  BY <1>2, <1>4, <1>6, <1>7 DEF Books, Spent
<1>11. StepsWithin'
  <2>1. row.depth <= policy.max_hops /\ ledger[e.transfer].at \in SeedTime .. policy.end_time
    <3>1. /\ e.at = ledger[e.transfer].at /\ e.at >= SeedTime /\ e.depth <= policy.max_hops
      BY DEF Lineage, Departing
    <3>2. SeedTime \in Nat /\ policy.end_time \in Nat
      BY FlowAssumption DEF TypeOK, TracePolicy
    <3> QED BY <1>1, <1>2, <1>4, <3>1, <3>2
  <2> QED BY <1>2, <1>4, <1>6, <1>7, <2>1 DEF Books, StepsWithin
<1>12. TransferBookedOnce'
  <2>1. attributed <= ledger[e.transfer].amount
    BY AttributedBounded
  <2>2. \A i \in 1 .. n - 1 : allocations[i].transfer # e.transfer
    BY <1>4, <1>6 DEF Books, Spent
  <2>3. \A i, j \in 1 .. n : allocations'[i].transfer = allocations'[j].transfer => i = j
    BY <1>2, <1>6, <1>7, <2>2 DEF Books, TransferBookedOnce
  <2>4. \A i \in 1 .. n : allocations'[i].attributed <= ledger'[allocations'[i].transfer].amount
    BY <1>2, <1>4, <1>6, <1>7, <2>1 DEF Books, TransferBookedOnce
  <2> QED BY <1>6, <2>3, <2>4 DEF TransferBookedOnce
<1>13. LineageCausal'
  <2>1. ASSUME NEW t \in parents[e.transfer]
        PROVE  \E j \in 1 .. n - 1 :
                 /\ allocations[j].transfer = t
                 /\ ledger[t].destination = ledger[e.transfer].source
                 /\ ledger[t].at <= ledger[e.transfer].at
    <3>1. CameTo(t, ledger[e.transfer].source, ledger[e.transfer].at)
      BY <1>1, <2>1 DEF Lineage, Parentage
    <3> QED BY <1>6, <3>1 DEF CameTo, Booked
  <2>2. ASSUME NEW i \in 1 .. n, NEW t \in allocations'[i].parents
        PROVE  \E j \in 1 .. i - 1 :
                 /\ allocations'[j].transfer = t
                 /\ ledger'[t].destination = ledger'[allocations'[i].transfer].source
                 /\ ledger'[t].at <= ledger'[allocations'[i].transfer].at
    <3>1. CASE i = n
      <4>1. PICK j \in 1 .. n - 1 :
                 /\ allocations[j].transfer = t
                 /\ ledger[t].destination = ledger[e.transfer].source
                 /\ ledger[t].at <= ledger[e.transfer].at
        BY <1>2, <1>6, <2>1, <2>2, <3>1
      <4> QED BY <1>2, <1>4, <1>6, <3>1, <4>1
    <3>2. CASE i # n
      <4>1. i \in DOMAIN allocations /\ allocations'[i] = allocations[i]
        BY <1>6, <1>7, <3>2
      <4>2. PICK j \in 1 .. i - 1 :
                 /\ allocations[j].transfer = t
                 /\ ledger[t].destination = ledger[allocations[i].transfer].source
                 /\ ledger[t].at <= ledger[allocations[i].transfer].at
        BY <2>2, <4>1 DEF Books, LineageCausal
      <4>3. j \in 1 .. n - 1
        BY <1>6, <4>1, <4>2
      <4> QED BY <1>4, <1>6, <4>1, <4>2, <4>3
    <3> QED BY <3>1, <3>2
  <2> QED BY <1>6, <2>2 DEF LineageCausal
<1> QED BY <1>8, <1>9, <1>10, <1>11, <1>12, <1>13 DEF Books

\* Scheduled transfers leave the wallet of the arrival no earlier than it came,
\* one hop further, and take over its parents.
LEMMA LineageScheduled ==
  ASSUME TypeOK, Lineage, NEW e \in queue, NEW answer \in Answers(e.address),
         ArriveSchedule(e, answer)
  PROVE  Lineage'
<1> DEFINE out == Outgoing(e.address, e.at, retained \cup answer)
           new == Visited(out) \ scheduled
<1>1. /\ e.kind = "arrival" /\ UNCHANGED <<ledger, policy, allocations>>
      /\ e.parents \subseteq Transfer
  BY EventType DEF ArriveSchedule, Retrieve, Arrives, request
<1>2. /\ scheduled' = scheduled \cup new
      /\ parents' = [t \in Transfer |->
                       IF t \in Visited(out) THEN parents[t] \cup e.parents ELSE parents[t]]
      /\ queue' = (queue \ {e}) \cup Departures(e, new)
  BY DEF ArriveSchedule
<1>3. \A t \in Visited(out) : t \in Transfer /\ ledger[t].source = e.address /\ e.at <= ledger[t].at
  BY DEF Visited, Outgoing, Answers, SentBy, TypeOK
<1>4. /\ \A t, a, now : CameTo(t, a, now)' <=> CameTo(t, a, now)
      /\ e.at >= SeedTime /\ e.depth < policy.max_hops
      /\ \A p \in e.parents : CameTo(p, e.address, e.at)
  BY <1>1 DEF CameTo, Booked, Lineage, Arrivals
<1> HIDE DEF out
<1>5. Arrivals'
  <2>1. \A f \in Departures(e, new) : f.kind # "arrival"
    <3>1. new \in SUBSET Transfer
      BY <1>3
    <3> QED BY <3>1, DeparturesType DEF TransferEvent
  <2> HIDE DEF new
  <2> QED BY <1>1, <1>2, <1>4, <2>1 DEF Lineage, Arrivals
<1>6. Departing'
  <2>1. ASSUME NEW f \in Departures(e, new)
        PROVE  /\ f.at = ledger[f.transfer].at /\ f.at >= SeedTime
               /\ f.depth <= policy.max_hops /\ f.transfer \in scheduled'
    <3>1. PICK t \in new : f = [kind |-> "transfer", at |-> ledger[t].at, transfer |-> t,
                                amount |-> 0, depth |-> e.depth + 1,
                                seq |-> sequence + Cardinality({u \in new : u < t})]
      BY Zenon DEF Departures
    <3>2. f.at = ledger[t].at /\ f.transfer = t /\ f.depth = e.depth + 1
      BY <3>1
    <3>3. e.at <= ledger[t].at /\ t \in scheduled' /\ t \in Transfer
      BY <1>2, <1>3
    <3>4. e.at \in Nat /\ ledger[t].at \in Nat /\ e.depth \in Nat /\ policy.max_hops \in Nat
      BY <1>1, <3>3, EventType DEF TypeOK, TransferRecord, TracePolicy, ArrivalEvent
    <3> QED BY <1>4, <3>2, <3>3, <3>4, FlowAssumption
  <2>2. ASSUME NEW f \in queue', f.kind = "transfer"
        PROVE  /\ f.at = ledger'[f.transfer].at /\ f.at >= SeedTime
               /\ f.depth <= policy'.max_hops /\ f.transfer \in scheduled'
    <3>1. CASE f \in Departures(e, new)
      BY <1>1, <2>1, <3>1
    <3>2. CASE f \in queue
      BY <1>1, <1>2, <2>2, <3>2 DEF Lineage, Departing
    <3> QED BY <1>2, <3>1, <3>2
  <2> QED BY <2>2 DEF Departing
<1>7. Parentage'
  <2>1. ASSUME NEW t \in Transfer, NEW p \in parents'[t]
        PROVE  CameTo(p, ledger[t].source, ledger[t].at)
    <3>1. CASE p \in parents[t]
      BY <3>1 DEF Lineage, Parentage
    <3>2. CASE t \in Visited(out) /\ p \in e.parents
      <4>1. CameTo(p, e.address, e.at) /\ ledger[t].source = e.address /\ e.at <= ledger[t].at
        BY <1>3, <1>4, <3>2
      <4>2. p \in Transfer
        BY <1>1, <3>2
      <4>3. ledger[p].at \in Nat /\ ledger[t].at \in Nat /\ e.at \in Nat
        BY <1>1, <4>2, EventType DEF TypeOK, TransferRecord, ArrivalEvent
      <4> QED BY <4>1, <4>3 DEF CameTo
    <3> QED BY <1>2, <3>1, <3>2
  <2> QED BY <1>1, <1>4, <2>1 DEF Parentage
<1> QED BY <1>5, <1>6, <1>7 DEF Lineage

\* A forwarded amount arrives where and when its transfer did, booked.
LEMMA LineageForwarded ==
  ASSUME TypeOK, Lineage, Books, NEW e \in queue, e.kind = "transfer",
         NEW haircut \in Haircut(e), NEW attributed \in Attributed(e),
         ForwardTransfer(e, attributed, haircut)
  PROVE  Lineage' /\ Books'
<1>0. PICK arrival :
        arrival = [kind |-> "arrival", at |-> ledger[e.transfer].at, seq |-> sequence,
                   address |-> ledger[e.transfer].destination, amount |-> attributed,
                   depth |-> e.depth, parents |-> {e.transfer}]
  OBVIOUS
<1>1. /\ Departs(e) /\ ~Stale(e) /\ Allocate(e, attributed, haircut) /\ Record(e, attributed)
      /\ StopReason(e, attributed) = "NONE" /\ queue' = (queue \ {e}) \cup {arrival}
      /\ UNCHANGED <<ledger, policy, schedule, scheduled, parents>>
  BY <1>0 DEF ForwardTransfer, Departs, request, schedule
<1>2. /\ Books' /\ Booked(e.transfer)' /\ \A t \in Transfer : Booked(t) => Booked(t)'
  BY <1>1, BookOne
<1>3. e.depth \in Nat /\ e.transfer \in Transfer /\ policy.max_hops \in Nat /\ ledger[e.transfer].at \in Nat
  BY EventType DEF TypeOK, TransferRecord, TracePolicy
<1>4. e.at = ledger[e.transfer].at /\ e.at >= SeedTime
  BY DEF Lineage, Departing
<1>5. e.depth < policy.max_hops
  <2>1. Endpoint[ledger[e.transfer].destination] \in EndpointReasons \cup {"NONE"}
    BY <1>3, FlowAssumption DEF TypeOK, TransferRecord
  <2>2. ~(e.depth >= policy.max_hops)
    BY <1>1 DEF StopReason
  <2> QED BY <1>3, <2>2
<1>6. /\ arrival.kind = "arrival" /\ arrival.at = ledger[e.transfer].at
      /\ arrival.depth = e.depth /\ arrival.parents = {e.transfer}
      /\ arrival.address = ledger[e.transfer].destination
  BY <1>0
<1>7. \A t \in Transfer : \A a, now : CameTo(t, a, now) => CameTo(t, a, now)'
  BY <1>1, <1>2 DEF CameTo
<1>8. CameTo(e.transfer, arrival.address, arrival.at)'
  BY <1>1, <1>2, <1>3, <1>6 DEF CameTo
<1>9. ASSUME NEW f \in queue', f.kind = "arrival"
      PROVE  /\ f.at >= SeedTime /\ f.depth < policy'.max_hops
             /\ \A t \in f.parents : CameTo(t, f.address, f.at)'
  <2>1. CASE f \in queue
    <3>1. f.parents \subseteq Transfer
      BY <1>9, <2>1, EventType
    <3> QED BY <1>1, <1>7, <1>9, <2>1, <3>1 DEF Lineage, Arrivals
  <2>2. CASE f = arrival
    BY <1>1, <1>4, <1>5, <1>6, <1>8, <2>2
  <2> QED BY <1>1, <2>1, <2>2
<1>10. Arrivals'
  BY <1>9 DEF Arrivals
<1>11. Departing'
  BY <1>1, <1>6 DEF Lineage, Departing
<1>12. Parentage'
  <2>1. \A t \in Transfer : parents[t] \subseteq Transfer
    BY DEF TypeOK
  <2> QED BY <1>1, <1>7, <2>1 DEF Lineage, Parentage
<1> QED BY <1>2, <1>10, <1>11, <1>12 DEF Lineage

\* Every step keeps the books, the lineage and the limits: one case per action.
LEMMA LNext == LInv /\ [Next]_vars => LInv'
<1> SUFFICES ASSUME LInv, [Next]_vars PROVE LInv'
  OBVIOUS
<1> USE DEF LInv
<1>1. TypeOK'
  BY TypeNext
<1>2. ASSUME queue' \subseteq queue, processed \subseteq processed', NodesWithin',
             UNCHANGED <<ledger, policy, schedule, allocations>>
      PROVE  LInv'
  <2>1. Books' /\ \A t \in Transfer : Booked(t) => Booked(t)'
    BY <1>2, BooksKept
  <2>2. Lineage'
    BY <1>2, <2>1, LineageKept
  <2>3. EdgesWithin'
    BY <1>2 DEF EdgesWithin, schedule
  <2> QED BY <1>1, <1>2, <2>1, <2>2, <2>3
<1>3. ASSUME UNCHANGED <<policy, nodes, opened>> PROVE NodesWithin'
  BY <1>3 DEF NodesWithin
<1>4. CASE UNCHANGED vars
  BY <1>2, <1>3, <1>4 DEF vars, request, heap, wallets, output
<1>5. CASE CancelTrace
  BY <1>2, <1>3, <1>5 DEF CancelTrace, request, heap, wallets, output
<1>6. CASE Finish
  BY <1>2, <1>3, <1>6 DEF Finish, request, heap, wallets, output
<1>7. ASSUME NEW e \in queue, PastEnd(e) PROVE LInv'
  BY <1>2, <1>3, <1>7 DEF PastEnd, Drop, request, wallets
<1>8. ASSUME NEW e \in queue, Arrives(e), UNCHANGED opened \/ (WithinNodes(e) /\ OpenWallet(e))
      PROVE  NodesWithin'
  <2>1. e.address \in Address /\ nodes' = nodes \cup {e.address} /\ UNCHANGED policy
    BY <1>8, EventType DEF Arrives, request
  <2> QED BY <1>8, <2>1, NodesKept DEF WithinNodes, OpenWallet
<1>9. ASSUME NEW e \in queue, ArriveOverNodeLimit(e) PROVE LInv'
  BY <1>2, <1>8, <1>9 DEF ArriveOverNodeLimit, Arrives, Drop, request
<1>10. ASSUME NEW e \in queue, ArriveProviderFails(e) PROVE LInv'
  BY <1>2, <1>8, <1>10 DEF ArriveProviderFails, Arrives, Drop, request
<1>11. ASSUME NEW e \in queue, NEW answer \in Answers(e.address), ArriveNoOutgoing(e, answer)
       PROVE  LInv'
  BY <1>2, <1>8, <1>11 DEF ArriveNoOutgoing, Retrieve, Arrives, Drop, request
<1>12. ASSUME NEW e \in queue, NEW answer \in Answers(e.address), ArriveSchedule(e, answer)
       PROVE  LInv'
  <2>1. Lineage'
    BY <1>12, LineageScheduled
  <2>2. NodesWithin'
    BY <1>8, <1>12 DEF ArriveSchedule, Retrieve
  <2>3. Books'
    BY <1>12, BooksKept DEF ArriveSchedule, Retrieve, Arrives, request
  <2>4. EdgesWithin'
    <3>1. Outgoing(e.address, e.at, retained \cup answer) \in SUBSET Transfer
      BY DEF Outgoing, Answers, SentBy, TypeOK
    <3> QED BY <1>12, <3>1, EdgesCounted DEF EdgesWithin, ArriveSchedule, Retrieve, Arrives, request
  <2> QED BY <1>1, <2>1, <2>2, <2>3, <2>4
<1>13. ASSUME NEW e \in queue, e.kind = "transfer", NEW haircut \in Haircut(e),
              SkipTransfer(e, haircut)
       PROVE  LInv'
  BY <1>2, <1>3, <1>13 DEF SkipTransfer, Departs, Allocate, Drop, request, output
<1>14. ASSUME NEW e \in queue, Departs(e) PROVE NodesWithin' /\ EdgesWithin'
  BY <1>3, <1>14 DEF Departs, EdgesWithin, request, schedule
<1>15. ASSUME NEW e \in queue, e.kind = "transfer", NEW haircut \in Haircut(e),
              NEW attributed \in Attributed(e), StopTransfer(e, attributed, haircut)
       PROVE  LInv'
  <2>1. /\ Departs(e) /\ ~Stale(e) /\ queue' \subseteq queue /\ UNCHANGED <<ledger, policy, schedule>>
        /\ Allocate(e, attributed, haircut) /\ Record(e, attributed)
    BY <1>15 DEF StopTransfer, Departs, Drop, request
  <2>2. Books' /\ \A t \in Transfer : Booked(t) => Booked(t)'
    BY <1>15, <2>1, BookOne
  <2>3. Lineage'
    BY <2>1, <2>2, LineageKept
  <2> QED BY <1>1, <1>14, <2>1, <2>2, <2>3
<1>16. ASSUME NEW e \in queue, e.kind = "transfer", NEW haircut \in Haircut(e),
              NEW attributed \in Attributed(e), ForwardTransfer(e, attributed, haircut)
       PROVE  LInv'
  BY <1>1, <1>14, <1>16, LineageForwarded DEF ForwardTransfer
<1> QED
  BY <1>4, <1>5, <1>6, <1>7, <1>9, <1>10, <1>11, <1>12, <1>13, <1>15, <1>16
  DEF Next, Step, Arrive, Depart

LEMMA LInvariant == Spec => []LInv
<1>1. Init => LInv
  BY LInit
<1>2. LInv /\ [Next]_vars => LInv'
  BY LNext
<1> QED BY <1>1, <1>2, PTL DEF Spec

\* processed_transfers lets a transfer into the books at most once, and the
\* proportional haircut, rounded either way, never attributes to it more than it
\* moved (trace, lines 229-246, and ProportionalHaircutPolicy.allocate).
THEOREM BookedOnce == Spec => []TransferBookedOnce
<1>1. LInv => TransferBookedOnce
  BY DEF LInv, Books
<1> QED BY <1>1, LInvariant, PTL

\* However arrivals and transfers interleave in the heap, the trace opens no more
\* than max_nodes wallets, schedules no more than max_edges transfers, and books
\* none beyond max_hops or outside the time from the seed to end_time.
THEOREM StaysWithinPolicy == Spec => []WithinPolicy
<1>1. LInv => WithinPolicy
  BY DEF LInv, NodesWithin, EdgesWithin, Books, StepsWithin, WithinPolicy
<1> QED BY <1>1, LInvariant, PTL

\* The parents of an allocation were all booked before it, ended at the wallet it
\* spends from and are no later than it: scheduled_parent_ids never names a cycle
\* or a cause after its effect (lines 211-222, 236, 250).
THEOREM LineageIsCausal == Spec => []LineageCausal
<1>1. LInv => LineageCausal
  BY DEF LInv, Books
<1> QED BY <1>1, LInvariant, PTL

-----------------------------------------------------------------------------
(* The ledger of one wallet: its five sums and how the steps change them *)

Attr == [j \in DOMAIN allocations |-> allocations[j].attributed]

SeedPart(a) == IF a = SeedAddress THEN SeedAmount ELSE 0

\* What the booked transfers of a set P moved.
Brought(P) == Total({j \in DOMAIN allocations : allocations[j].transfer \in P}, Attr)

SentTo(a) == {t \in Transfer : ledger[t].destination = a}

Received(a) == Brought(SentTo(a))
PassedOn(a) == Brought(SentBy(a))
Reported(a) ==
  Total({i \in DOMAIN terminals : terminals[i].address = a}, ReportAmounts(terminals))

ArrivalsAt(Q, a) == {e \in Q : e.kind = "arrival" /\ e.address = a}
Flying(a) == Total(ArrivalsAt(queue, a), HeapAmounts(queue))

WalletBalanced(a) ==
  SeedPart(a) + Received(a) = tainted[a] + PassedOn(a) + Reported(a) + Flying(a)

\* n for a member of P, nothing for any other x.
Part(P, x, n) == IF x \in P THEN n ELSE 0

LEMMA LedgerByWallet ==
  ASSUME TypeOK
  PROVE  WalletLedger <=> EdgeLimitReached \/ \A a \in Address : WalletBalanced(a)
<1>1. \A i \in DOMAIN allocations : allocations[i].transfer \in Transfer
  <2>1. \A i \in DOMAIN allocations : allocations[i] \in Allocation
    BY ElementOfSeq, LenProperties DEF TypeOK
  <2> QED BY <2>1 DEF Allocation
<1>2. ASSUME NEW a \in Address
      PROVE  /\ {i \in DOMAIN allocations : ledger[allocations[i].transfer].destination = a}
                  = {i \in DOMAIN allocations : allocations[i].transfer \in SentTo(a)}
             /\ {i \in DOMAIN allocations : ledger[allocations[i].transfer].source = a}
                  = {i \in DOMAIN allocations : allocations[i].transfer \in SentBy(a)}
  BY <1>1 DEF SentTo, SentBy
<1> QED
  BY <1>2, Zenon
  DEF WalletLedger, WalletBalanced, SeedPart, Received, PassedOn, Brought, Reported, Flying,
      ArrivalsAt, Attr, ReportAmounts, HeapAmounts

\* The books are a finite list of natural amounts.
LEMMA BooksSummable ==
  ASSUME allocations \in Seq(Allocation)
  PROVE  Summable(DOMAIN allocations, Attr)
<1>1. DOMAIN allocations = 1 .. Len(allocations) /\ Len(allocations) \in Nat
  BY LenProperties
<1>2. IsFiniteSet(DOMAIN allocations)
  BY <1>1, FS_Interval
<1>3. \A i \in DOMAIN allocations : Attr[i] \in Nat
  <2>1. \A i \in DOMAIN allocations : allocations[i] \in Allocation
    BY <1>1, ElementOfSeq
  <2> QED BY <2>1 DEF Allocation, Attr
<1> QED BY <1>2, <1>3, FiniteSummable

\* The five sums are natural numbers.
LEMMA WalletSums ==
  ASSUME TypeOK, Accounts, NEW a \in Address
  PROVE  /\ Received(a) \in Nat /\ PassedOn(a) \in Nat /\ Reported(a) \in Nat
         /\ Flying(a) \in Nat /\ SeedPart(a) \in Nat /\ tainted[a] \in Nat
<1>1. Summable(DOMAIN allocations, Attr)
  BY BooksSummable DEF TypeOK
<1>2. \A P : Brought(P) \in Nat
  BY <1>1, PartSummable DEF Brought
<1>3. Reported(a) \in Nat /\ Flying(a) \in Nat
  <2>1. {i \in DOMAIN terminals : terminals[i].address = a} \in SUBSET DOMAIN terminals
    OBVIOUS
  <2>2. ArrivalsAt(queue, a) \in SUBSET queue
    BY DEF ArrivalsAt
  <2> QED BY <2>1, <2>2, PartSummable DEF Accounts, Reported, Flying
<1> QED BY <1>2, <1>3, FlowAssumption DEF SeedPart, TypeOK, Received, PassedOn

\* A list grows by one entry at its end.
LEMMA OneMore ==
  ASSUME NEW S, NEW T \in Seq(S), NEW row \in S
  PROVE  LET U == Append(T, row)
             n == Len(T) + 1
         IN  /\ U[n] = row /\ n \notin DOMAIN T /\ DOMAIN U = DOMAIN T \cup {n}
             /\ \A i \in DOMAIN T : U[i] = T[i] /\ T[i] \in S
<1> DEFINE U == Append(T, row)
           n == Len(T) + 1
<1>1. /\ U \in Seq(S) /\ Len(U) = n /\ U[n] = row
      /\ \A i \in 1 .. Len(T) : U[i] = T[i]
  BY AppendProperties
<1>2. Len(T) \in Nat /\ DOMAIN T = 1 .. Len(T) /\ DOMAIN U = 1 .. n
  BY <1>1, LenProperties
<1>3. n \notin DOMAIN T /\ DOMAIN U = DOMAIN T \cup {n}
  BY <1>2
<1>4. \A i \in DOMAIN T : T[i] \in S
  BY <1>2, ElementOfSeq
<1> QED BY <1>1, <1>2, <1>3, <1>4

\* A report is of one wallet.
LEMMA ReportSplit ==
  ASSUME NEW T \in Seq(Terminal), NEW row \in Terminal, NEW a,
         Summable(DOMAIN T, ReportAmounts(T))
  PROVE  LET U == Append(T, row)
         IN  Total({i \in DOMAIN U : U[i].address = a}, ReportAmounts(U))
               = Total({i \in DOMAIN T : T[i].address = a}, ReportAmounts(T))
                 + Part({a}, row.address, row.amount)
<1> DEFINE U == Append(T, row)
           n == Len(T) + 1
           f == ReportAmounts(T)
           g == ReportAmounts(U)
           own == {i \in DOMAIN T : T[i].address = a}
           after == {i \in DOMAIN U : U[i].address = a}
<1>1. /\ U[n] = row /\ n \notin DOMAIN T /\ DOMAIN U = DOMAIN T \cup {n}
      /\ \A i \in DOMAIN T : U[i] = T[i]
  BY OneMore
<1>2. own \in SUBSET DOMAIN T
  OBVIOUS
<1> HIDE DEF U, n
<1>3. after = IF row.address = a THEN own \cup {n} ELSE own
  BY <1>1
<1>4. g[n] = row.amount /\ row.amount \in Nat /\ n \notin own /\ \A y \in own : f[y] = g[y]
  BY <1>1 DEF ReportAmounts, Terminal
<1> HIDE DEF own, after, f, g
<1>5. Summable(own, f) /\ Total(own, f) \in Nat
  BY <1>2, PartSummable DEF f
<1>6. Total(own \cup {n}, g) = Total(own, f) + row.amount /\ Total(own, g) = Total(own, f)
  <2>1. g[n] \in Nat
    BY <1>4
  <2>2. Total(own \cup {n}, g) = Total(own, f) + g[n] /\ Total(own, g) = Total(own, f)
    BY <1>4, <1>5, <2>1, TotalGrows, Zenon
  <2> QED BY <1>4, <2>2
<1>7. Total(after, g) = Total(own, f) + Part({a}, row.address, row.amount)
  BY <1>3, <1>5, <1>6 DEF Part
<1> QED BY <1>7 DEF after, own, f, g, U

\* What was booked is into one wallet and out of one: of the entries that a
\* choice of transfers selects, the new one counts if its transfer is chosen.
LEMMA BookSplit ==
  ASSUME NEW T \in Seq(Allocation), NEW row \in Allocation, NEW chosen
  PROVE  LET U == Append(T, row)
             f == [i \in DOMAIN T |-> T[i].attributed]
             g == [i \in DOMAIN U |-> U[i].attributed]
         IN  Total({i \in DOMAIN U : U[i].transfer \in chosen}, g)
               = Total({i \in DOMAIN T : T[i].transfer \in chosen}, f)
                 + Part(chosen, row.transfer, row.attributed)
<1> DEFINE U == Append(T, row)
           n == Len(T) + 1
           f == [i \in DOMAIN T |-> T[i].attributed]
           g == [i \in DOMAIN U |-> U[i].attributed]
           own == {i \in DOMAIN T : T[i].transfer \in chosen}
           after == {i \in DOMAIN U : U[i].transfer \in chosen}
<1>1. /\ U[n] = row /\ n \notin DOMAIN T /\ DOMAIN U = DOMAIN T \cup {n}
      /\ \A i \in DOMAIN T : U[i] = T[i] /\ T[i] \in Allocation
  BY OneMore
<1>2. own \in SUBSET DOMAIN T
  OBVIOUS
<1>3. Summable(DOMAIN T, f)
  <2>1. DOMAIN T = 1 .. Len(T) /\ Len(T) \in Nat
    BY LenProperties
  <2>2. IsFiniteSet(DOMAIN T)
    BY <2>1, FS_Interval
  <2>3. \A i \in DOMAIN T : f[i] \in Nat
    BY <1>1 DEF Allocation
  <2> QED BY <2>2, <2>3, FiniteSummable
<1> HIDE DEF U, n
<1>4. after = IF row.transfer \in chosen THEN own \cup {n} ELSE own
  BY <1>1
<1>5. g[n] = row.attributed /\ row.attributed \in Nat /\ n \notin own /\ \A y \in own : f[y] = g[y]
  BY <1>1 DEF Allocation
<1> HIDE DEF own, after, f, g
<1>6. Summable(own, f) /\ Total(own, f) \in Nat
  BY <1>2, <1>3, PartSummable
<1>7. Total(own \cup {n}, g) = Total(own, f) + row.attributed /\ Total(own, g) = Total(own, f)
  <2>1. g[n] \in Nat
    BY <1>5
  <2>2. Total(own \cup {n}, g) = Total(own, f) + g[n] /\ Total(own, g) = Total(own, f)
    BY <1>5, <1>6, <2>1, TotalGrows, Zenon
  <2> QED BY <1>5, <2>2
<1>8. Total(after, g) = Total(own, f) + Part(chosen, row.transfer, row.attributed)
  BY <1>4, <1>6, <1>7 DEF Part
<1> QED BY <1>8 DEF after, own, f, g, U

\* An event taken out of the heap counts for the wallet it was to arrive at.
LEMMA FlightPop ==
  ASSUME NEW Q, NEW e \in Q, e.amount \in Nat, Summable(Q, HeapAmounts(Q)), NEW a
  PROVE  Total(ArrivalsAt(Q, a), HeapAmounts(Q))
           = Total(ArrivalsAt(Q \ {e}, a), HeapAmounts(Q \ {e}))
             + Part(ArrivalsAt(Q, a), e, e.amount)
<1> DEFINE f == HeapAmounts(Q)
           g == HeapAmounts(Q \ {e})
           own == ArrivalsAt(Q, a)
           rest == ArrivalsAt(Q \ {e}, a)
<1>1. /\ rest = own \ {e} /\ own \in SUBSET Q /\ rest \in SUBSET Q
  BY DEF ArrivalsAt
<1>2. f[e] = e.amount /\ \A x \in rest : f[x] = g[x]
  BY DEF HeapAmounts, ArrivalsAt
<1>3. Summable(Q, f)
  OBVIOUS
<1> HIDE DEF f, g, own, rest
<1>4. Summable(own, f) /\ Summable(rest, f) /\ Total(rest, f) \in Nat
  BY <1>1, <1>3, PartSummable
<1>5. Total(rest, f) = Total(rest, g)
  BY <1>2, TotalSame
<1>6. Total(own, f) = Total(rest, f) + Part(own, e, e.amount)
  <2>1. CASE e \in own
    <3>1. e \in own /\ f[e] \in Nat
      BY <1>1, <1>2, <2>1
    <3>2. Total(own, f) = Total(own \ {e}, f) + f[e]
      BY <1>4, <3>1, TotalSplit
    <3> QED BY <1>1, <1>2, <2>1, <3>2 DEF Part
  <2>2. CASE e \notin own
    <3>1. rest = own
      BY <1>1, <2>2
    <3>2. Total(rest, f) + 0 = Total(rest, f)
      BY <1>4
    <3> QED BY <2>2, <3>1, <3>2 DEF Part
  <2> QED BY <2>1, <2>2
<1> QED BY <1>5, <1>6 DEF f, g, own, rest

\* The same of a dropped event.
LEMMA FlightsDrop ==
  ASSUME TypeOK, Accounts, NEW e \in queue, Drop(e)
  PROVE  \A a \in Address :
           Flying(a) = Flying(a)' + Part(ArrivalsAt(queue, a), e, e.amount)
<1>1. queue' = queue \ {e} /\ e.amount \in Nat
  BY EventType DEF Drop
<1> QED BY <1>1, FlightPop DEF Flying, Accounts

Details == {"none", "node limit", "edge limit"}

\* A report adds to the wallet it names.
LEMMA ReportsGrow ==
  ASSUME TypeOK, Accounts,
         NEW address \in Address, NEW amount \in Nat, NEW reason \in TerminalReason,
         NEW depth \in Nat, NEW lineage \in SUBSET Transfer,
         NEW detail \in Details,
         Stop(address, amount, reason, depth, lineage, detail)
  PROVE  \A a \in Address : Reported(a)' = Reported(a) + Part({a}, address, amount)
<1> DEFINE row == [address |-> address, amount |-> amount, reason |-> reason,
                   depth |-> depth, parents |-> lineage, detail |-> detail]
<1>1. row \in Terminal /\ row.address = address /\ row.amount = amount
  BY Zenon DEF Terminal, Details
<1>2. terminals' = Append(terminals, row)
  BY DEF Stop
<1> HIDE DEF row
<1>3. terminals \in Seq(Terminal) /\ Summable(DOMAIN terminals, ReportAmounts(terminals))
  BY DEF TypeOK, Accounts
<1> SUFFICES ASSUME NEW a \in Address
             PROVE  Reported(a)' = Reported(a) + Part({a}, address, amount)
  OBVIOUS
<1>4. Total({i \in DOMAIN terminals' : terminals'[i].address = a}, ReportAmounts(terminals'))
        = Total({i \in DOMAIN terminals : terminals[i].address = a}, ReportAmounts(terminals))
          + Part({a}, row.address, row.amount)
  BY <1>1, <1>2, <1>3, ReportSplit
<1> QED BY <1>1, <1>4 DEF Reported

\* A booked allocation adds to every set of transfers its own belongs to.
LEMMA BooksGrow ==
  ASSUME TypeOK, NEW e \in queue, e.kind = "transfer", NEW attributed \in Nat,
         Record(e, attributed)
  PROVE  \A P : Brought(P)' = Brought(P) + Part(P, e.transfer, attributed)
<1> DEFINE row == [transfer |-> e.transfer, depth |-> e.depth, parents |-> parents[e.transfer],
                   before |-> tainted[ledger[e.transfer].source],
                   covered |-> Covered(e.transfer), attributed |-> attributed]
<1>1. row \in Allocation /\ row.transfer = e.transfer /\ row.attributed = attributed
  <2>1. e.transfer \in Transfer /\ parents[e.transfer] \in SUBSET Transfer /\ e.depth \in Nat
    BY EventType DEF TypeOK
  <2>2. tainted[ledger[e.transfer].source] \in Nat /\ Covered(e.transfer) \in Nat
    BY AttributedType DEF TypeOK
  <2> QED BY <2>1, <2>2 DEF Allocation
<1>2. allocations' = Append(allocations, row) /\ allocations \in Seq(Allocation)
  BY DEF Record, TypeOK
<1> HIDE DEF row
<1> SUFFICES ASSUME NEW P
             PROVE  Brought(P)' = Brought(P) + Part(P, e.transfer, attributed)
  OBVIOUS
<1>3. Total({i \in DOMAIN allocations' : allocations'[i].transfer \in P},
            [i \in DOMAIN allocations' |-> allocations'[i].attributed])
        = Total({i \in DOMAIN allocations : allocations[i].transfer \in P},
                [i \in DOMAIN allocations |-> allocations[i].attributed])
          + Part(P, row.transfer, row.attributed)
  BY <1>1, <1>2, BookSplit
<1> QED BY <1>1, <1>3 DEF Brought, Attr

-----------------------------------------------------------------------------
(* Every wallet's ledger balances *)

Sums ==
  \A a \in Address :
    /\ Received(a) \in Nat /\ PassedOn(a) \in Nat /\ Reported(a) \in Nat
    /\ Flying(a) \in Nat /\ SeedPart(a) \in Nat /\ tainted[a] \in Nat

LEMMA SumsNatural == IInv => Sums
BY WalletSums DEF IInv, Sums

LEMMA SumsNaturalNext == IInv' => Sums'
BY SumsNatural, PTL

\* Kept apart from the sums: what the two sides gain together keeps them equal.
LEMMA SidesEqual ==
  ASSUME NEW s \in Nat, NEW i \in Nat, NEW t \in Nat, NEW o \in Nat, NEW r \in Nat, NEW f \in Nat,
         NEW i2 \in Nat, NEW t2 \in Nat, NEW o2 \in Nat, NEW r2 \in Nat, NEW f2 \in Nat,
         s + i = t + o + r + f,
         i2 + t + o + r + f = i + t2 + o2 + r2 + f2
  PROVE  s + i2 = t2 + o2 + r2 + f2
OBVIOUS

Wallets == EdgeLimitReached \/ \A a \in Address : WalletBalanced(a)

\* A step under which both sides of every ledger gain the same keeps the ledgers.
LEMMA WalletsKept ==
  ASSUME IInv, IInv', Wallets, EdgeLimitReached => EdgeLimitReached',
         \A a \in Address :
           Received(a)' + tainted[a] + PassedOn(a) + Reported(a) + Flying(a)
             = Received(a) + tainted'[a] + PassedOn(a)' + Reported(a)' + Flying(a)'
  PROVE  Wallets'
<1>1. Sums /\ Sums'
  BY SumsNatural, SumsNaturalNext
<1>2. ASSUME NEW a \in Address, WalletBalanced(a)
      PROVE  WalletBalanced(a)'
  <2>1. PICK s \in Nat, i \in Nat, t \in Nat, o \in Nat, r \in Nat, f \in Nat :
          /\ s = SeedPart(a) /\ i = Received(a) /\ t = tainted[a]
          /\ o = PassedOn(a) /\ r = Reported(a) /\ f = Flying(a)
    BY <1>1, Zenon DEF Sums
  <2>2. PICK i2 \in Nat, t2 \in Nat, o2 \in Nat, r2 \in Nat, f2 \in Nat :
          /\ i2 = Received(a)' /\ t2 = tainted'[a] /\ o2 = PassedOn(a)'
          /\ r2 = Reported(a)' /\ f2 = Flying(a)'
    BY <1>1, Zenon DEF Sums
  <2>3. i2 + t + o + r + f = i + t2 + o2 + r2 + f2
    BY <2>1, <2>2, Zenon
  <2>4. s + i = t + o + r + f
    BY <1>2, <2>1, Zenon DEF WalletBalanced
  <2>5. s + i2 = t2 + o2 + r2 + f2
    BY <2>3, <2>4, SidesEqual
  <2>6. SeedPart(a) + Received(a)' = tainted'[a] + PassedOn(a)' + Reported(a)' + Flying(a)'
    BY <2>1, <2>2, <2>5, Zenon
  <2> QED BY <2>6 DEF WalletBalanced, SeedPart
<1> QED BY <1>2 DEF Wallets

\* A step that books nothing.
LEMMA NothingBooked ==
  ASSUME UNCHANGED <<ledger, allocations>>
  PROVE  \A a \in Address : Received(a)' = Received(a) /\ PassedOn(a)' = PassedOn(a)
BY DEF Received, PassedOn, Brought, Attr, SentTo, SentBy

\* An arrival that is reported: from the heap to the terminals of its wallet.
LEMMA WalletReports ==
  ASSUME IInv, IInv', Wallets, NEW e \in queue, e.kind = "arrival",
         NEW reason \in TerminalReason, NEW detail \in Details,
         Drop(e), Stop(e.address, e.amount, reason, e.depth, e.parents, detail),
         UNCHANGED <<ledger, allocations, tainted>>
  PROVE  Wallets'
<1>1. /\ e.amount \in Nat /\ e.depth \in Nat /\ e.address \in Address
      /\ e.parents \in SUBSET Transfer /\ TypeOK /\ Accounts
  BY EventType DEF IInv
<1>2. /\ \A a \in Address : Reported(a)' = Reported(a) + Part({a}, e.address, e.amount)
      /\ EdgeLimitReached => EdgeLimitReached'
  <2> USE <1>1
  <2>1. \A a \in Address : Reported(a)' = Reported(a) + Part({a}, e.address, e.amount)
    BY ReportsGrow
  <2>2. EdgeLimitReached => EdgeLimitReached'
    BY StopReports, Zenon DEF Details
  <2> QED BY <2>1, <2>2
<1>3. \A a \in Address : Flying(a) = Flying(a)' + Part(ArrivalsAt(queue, a), e, e.amount)
  BY <1>1, FlightsDrop
<1>4. \A a \in Address : Received(a)' = Received(a) /\ PassedOn(a)' = PassedOn(a)
  BY NothingBooked
<1>5. Sums /\ Sums'
  BY SumsNatural, SumsNaturalNext
<1>6. ASSUME NEW a \in Address
      PROVE  Received(a)' + tainted[a] + PassedOn(a) + Reported(a) + Flying(a)
               = Received(a) + tainted'[a] + PassedOn(a)' + Reported(a)' + Flying(a)'
  <2>1. PICK n \in Nat : n = Part({a}, e.address, e.amount) /\ n = Part(ArrivalsAt(queue, a), e, e.amount)
    BY <1>1 DEF Part, ArrivalsAt
  <2>2. PICK r \in Nat, f2 \in Nat : r = Reported(a) /\ f2 = Flying(a)'
    BY <1>5, Zenon DEF Sums
  <2>3. PICK i \in Nat, t \in Nat, o \in Nat : i = Received(a) /\ t = tainted[a] /\ o = PassedOn(a)
    BY <1>5, Zenon DEF Sums
  <2>4. i + t + o + r + (f2 + n) = i + t + o + (r + n) + f2
    OBVIOUS
  <2>5. Reported(a)' = r + n /\ Flying(a) = f2 + n
    BY <1>2, <1>3, <2>1, <2>2, Zenon
  <2> QED BY <1>4, <2>2, <2>3, <2>4, <2>5, Zenon
<1> QED BY <1>2, <1>6, WalletsKept

\* A scheduled arrival: from the heap to the balance of its wallet.
LEMMA WalletSchedules ==
  ASSUME IInv, IInv', Wallets, NEW e \in queue,
         NEW answer \in Answers(e.address), ArriveSchedule(e, answer)
  PROVE  Wallets'
<1> DEFINE out == Outgoing(e.address, e.at, retained \cup answer)
           new == Visited(out) \ scheduled
<1>1. /\ e.kind = "arrival" /\ UNCHANGED <<ledger, allocations>>
      /\ TypeOK /\ Accounts /\ Accounts'
  BY DEF IInv, ArriveSchedule, Retrieve, Arrives, request
<1>2. e.address \in Address /\ e.amount \in Nat /\ e.depth \in Nat /\ e.parents \in SUBSET Transfer
  BY <1>1, EventType
<1>3. /\ tainted' = [tainted EXCEPT ![e.address] = tainted[e.address] + e.amount]
      /\ queue' = (queue \ {e}) \cup Departures(e, new)
      /\ \/ terminals' = terminals
         \/ Stop(e.address, e.amount, "MAX_NODES", e.depth, e.parents, "edge limit")
  BY DEF ArriveSchedule
<1>4. CASE Stop(e.address, e.amount, "MAX_NODES", e.depth, e.parents, "edge limit")
  <2>1. EdgeLimitReached'
    BY <1>1, <1>2, <1>4, StopReports, Zenon DEF TerminalReason
  <2> QED BY <2>1 DEF Wallets
<1>5. CASE terminals' = terminals
  <2>1. \A a \in Address : Reported(a)' = Reported(a)
    BY <1>5 DEF Reported
  <2>2. \A a \in Address : Received(a)' = Received(a) /\ PassedOn(a)' = PassedOn(a)
    BY <1>1, NothingBooked
  <2>3. ASSUME NEW a \in Address
        PROVE  Flying(a) = Flying(a)' + Part(ArrivalsAt(queue, a), e, e.amount)
    <3>1. \A z \in Departures(e, new) : z.kind # "arrival"
      <4>1. new \in SUBSET Transfer
        BY <1>1 DEF Visited, Outgoing, Answers, SentBy, TypeOK
      <4> QED BY <1>1, <4>1, DeparturesType DEF TransferEvent
    <3>2. ArrivalsAt(queue', a) = ArrivalsAt(queue \ {e}, a)
      BY <1>3, <3>1 DEF ArrivalsAt
    <3>3. \A x \in ArrivalsAt(queue', a) : HeapAmounts(queue')[x] = HeapAmounts(queue \ {e})[x]
      BY <3>2 DEF ArrivalsAt, HeapAmounts
    <3>4. Flying(a)' = Total(ArrivalsAt(queue \ {e}, a), HeapAmounts(queue \ {e}))
      BY <3>2, <3>3, TotalSame DEF Flying
    <3> QED BY <1>1, <1>2, <3>4, FlightPop DEF Flying, Accounts
  <2>4. Sums /\ Sums'
    BY SumsNatural, SumsNaturalNext
  <2>5. ASSUME NEW a \in Address
        PROVE  Received(a)' + tainted[a] + PassedOn(a) + Reported(a) + Flying(a)
                 = Received(a) + tainted'[a] + PassedOn(a)' + Reported(a)' + Flying(a)'
    <3>1. PICK n \in Nat : n = Part(ArrivalsAt(queue, a), e, e.amount)
      BY <1>2 DEF Part
    <3>2. PICK f2 \in Nat, i \in Nat, t \in Nat, o \in Nat, r \in Nat :
            /\ f2 = Flying(a)' /\ i = Received(a) /\ t = tainted[a] /\ o = PassedOn(a)
            /\ r = Reported(a)
      BY <2>4, Zenon DEF Sums
    <3>3. tainted'[a] = t + n
      <4>1. e \in ArrivalsAt(queue, a) <=> e.address = a
        BY <1>1 DEF ArrivalsAt
      <4>2. tainted' = [tainted EXCEPT ![e.address] = tainted[e.address] + e.amount]
        BY <1>3, Zenon
      <4>3. tainted \in [Address -> Nat]
        BY <1>1 DEF TypeOK
      <4> QED BY <1>2, <3>1, <3>2, <4>1, <4>2, <4>3 DEF Part
    <3>4. i + t + o + r + (f2 + n) = i + (t + n) + o + r + f2
      OBVIOUS
    <3>5. Flying(a) = f2 + n
      BY <2>3, <3>1, <3>2, Zenon
    <3> QED BY <2>1, <2>2, <3>2, <3>3, <3>4, <3>5, Zenon
  <2>6. EdgeLimitReached => EdgeLimitReached'
    BY <1>5 DEF EdgeLimitReached
  <2> QED BY <2>5, <2>6, WalletsKept
<1> QED BY <1>3, <1>4, <1>5

\* An allocation takes the attributed amount from the wallet that sends.
LEMMA WalletSpends ==
  ASSUME TypeOK, NEW e \in queue, e.kind = "transfer", NEW attributed \in Attributed(e),
         NEW haircut, Allocate(e, attributed, haircut)
  PROVE  /\ attributed \in Nat
         /\ \A a \in Address : tainted[a] = tainted'[a] + Part(SentBy(a), e.transfer, attributed)
<1> DEFINE s == ledger[e.transfer].source
<1>1. s \in Address /\ attributed \in Nat /\ attributed <= tainted[s] /\ e.transfer \in Transfer
  BY AttributedType, EventType
<1>2. tainted \in [Address -> Nat]
  BY DEF TypeOK
<1>3. tainted' = [tainted EXCEPT ![s] = AtLeastZero(tainted[s] - attributed)]
  BY DEF Allocate
<1>4. \A a \in Address : e.transfer \in SentBy(a) <=> a = s
  BY <1>1 DEF SentBy
<1> HIDE DEF s
<1>5. AtLeastZero(tainted[s] - attributed) = tainted[s] - attributed
  BY <1>1, <1>2 DEF AtLeastZero
<1> QED BY <1>1, <1>2, <1>3, <1>4, <1>5 DEF Part

\* The new entry is into the receiving wallet and out of the sending one.
LEMMA WalletsBook ==
  ASSUME TypeOK, UNCHANGED ledger, NEW e \in queue, e.kind = "transfer",
         NEW attributed \in Nat, Record(e, attributed), NEW a \in Address
  PROVE  /\ Received(a)' = Received(a) + Part(SentTo(a), e.transfer, attributed)
         /\ PassedOn(a)' = PassedOn(a) + Part(SentBy(a), e.transfer, attributed)
<1>1. PICK P, Q : P = SentTo(a) /\ Q = SentBy(a)
  OBVIOUS
<1>2. P = SentTo(a)' /\ Q = SentBy(a)'
  BY <1>1 DEF SentTo, SentBy
<1>3. /\ Brought(P)' = Brought(P) + Part(P, e.transfer, attributed)
      /\ Brought(Q)' = Brought(Q) + Part(Q, e.transfer, attributed)
  BY BooksGrow
<1>4. Received(a)' = Brought(P)' /\ PassedOn(a)' = Brought(Q)'
  BY <1>2 DEF Received, PassedOn
<1> QED BY <1>1, <1>3, <1>4 DEF Received, PassedOn

\* A transfer event carries no amount and arrives nowhere.
LEMMA FlightsIdle ==
  ASSUME TypeOK, Accounts, NEW e \in queue, e.kind = "transfer", NEW Q, Q = queue \ {e}, NEW a
  PROVE  Total(ArrivalsAt(Q, a), HeapAmounts(Q)) = Flying(a)
<1>1. ArrivalsAt(Q, a) = ArrivalsAt(queue, a)
  BY DEF ArrivalsAt
<1>2. \A x \in ArrivalsAt(Q, a) : HeapAmounts(Q)[x] = HeapAmounts(queue)[x]
  BY DEF ArrivalsAt, HeapAmounts
<1> QED BY <1>1, <1>2, TotalSame DEF Flying

\* An attributed amount that stops: out of the wallet that sends, and reported
\* by the one it came to.
LEMMA WalletStops ==
  ASSUME IInv, IInv', Wallets, NEW e \in queue, e.kind = "transfer",
         NEW haircut \in Haircut(e), NEW attributed \in Attributed(e),
         StopTransfer(e, attributed, haircut)
  PROVE  Wallets'
<1>1. /\ TypeOK /\ Accounts /\ UNCHANGED ledger /\ queue' = queue \ {e}
      /\ Allocate(e, attributed, haircut) /\ Record(e, attributed)
  BY DEF IInv, StopTransfer, Departs, Drop, request
<1>2. /\ attributed \in Nat
      /\ \A a \in Address : tainted[a] = tainted'[a] + Part(SentBy(a), e.transfer, attributed)
  BY <1>1, WalletSpends
<1>3. PICK d \in Address : d = ledger[e.transfer].destination
  BY <1>1, EventType DEF TypeOK, TransferRecord
<1>4. /\ e.depth \in Nat /\ {e.transfer} \in SUBSET Transfer /\ "none" \in Details
      /\ StopReason(e, attributed) \in TerminalReason
  <2>1. e.depth \in Nat /\ {e.transfer} \in SUBSET Transfer
    BY <1>1, EventType
  <2>2. Endpoint[d] \in EndpointReasons \cup {"NONE"}
    BY FlowAssumption
  <2>3. StopReason(e, attributed) # "NONE"
    BY DEF StopTransfer
  <2>4. StopReason(e, attributed) \in TerminalReason
    BY <1>3, <2>2, <2>3 DEF StopReason, TerminalReason
  <2>5. "none" \in Details
    BY Zenon DEF Details
  <2> QED BY <2>1, <2>4, <2>5
<1>5. Stop(d, attributed, StopReason(e, attributed), e.depth, {e.transfer}, "none")
  BY <1>3, Zenon DEF StopTransfer
<1>6. /\ \A a \in Address : Reported(a)' = Reported(a) + Part({a}, d, attributed)
      /\ EdgeLimitReached => EdgeLimitReached'
  <2> USE <1>1, <1>2, <1>3, <1>4, <1>5
  <2>1. \A a \in Address : Reported(a)' = Reported(a) + Part({a}, d, attributed)
    BY ReportsGrow
  <2>2. EdgeLimitReached => EdgeLimitReached'
    BY StopReports, Zenon DEF Details
  <2> QED BY <2>1, <2>2
<1>7. \A a \in Address : Flying(a)' = Flying(a)
  BY <1>1, FlightsIdle DEF Flying
<1>8. Sums /\ Sums'
  BY SumsNatural, SumsNaturalNext
<1>9. ASSUME NEW a \in Address
      PROVE  Received(a)' + tainted[a] + PassedOn(a) + Reported(a) + Flying(a)
               = Received(a) + tainted'[a] + PassedOn(a)' + Reported(a)' + Flying(a)'
  <2>1. PICK m \in Nat, n \in Nat :
          /\ m = Part(SentBy(a), e.transfer, attributed)
          /\ n = Part(SentTo(a), e.transfer, attributed) /\ n = Part({a}, d, attributed)
    <3>1. e.transfer \in SentTo(a) <=> d = a
      BY <1>1, <1>3, EventType DEF SentTo
    <3> QED BY <1>2, <3>1 DEF Part
  <2>2. PICK i \in Nat, t2 \in Nat, o \in Nat, r \in Nat, f \in Nat :
          /\ i = Received(a) /\ t2 = tainted'[a] /\ o = PassedOn(a) /\ r = Reported(a)
          /\ f = Flying(a)
    BY <1>8, Zenon DEF Sums
  <2>3. Received(a)' = i + n /\ PassedOn(a)' = o + m
    <3>1. /\ Received(a)' = Received(a) + Part(SentTo(a), e.transfer, attributed)
          /\ PassedOn(a)' = PassedOn(a) + Part(SentBy(a), e.transfer, attributed)
      BY <1>1, <1>2, WalletsBook
    <3> QED BY <2>1, <2>2, <3>1, Zenon
  <2>4. tainted[a] = t2 + m /\ Reported(a)' = r + n
    BY <1>2, <1>6, <2>1, <2>2, Zenon
  <2>5. (i + n) + (t2 + m) + o + r + f = i + t2 + (o + m) + (r + n) + f
    OBVIOUS
  <2> QED BY <1>7, <2>2, <2>3, <2>4, <2>5, Zenon
<1> QED BY <1>6, <1>9, WalletsKept

\* An attributed amount that goes on: out of the wallet that sends, and in the
\* heap for the one it came to.
LEMMA WalletForwards ==
  ASSUME IInv, IInv', Wallets, NEW e \in queue, e.kind = "transfer",
         NEW haircut \in Haircut(e), NEW attributed \in Attributed(e),
         ForwardTransfer(e, attributed, haircut)
  PROVE  Wallets'
<1>0. PICK arrival :
        arrival = [kind |-> "arrival", at |-> ledger[e.transfer].at, seq |-> sequence,
                   address |-> ledger[e.transfer].destination, amount |-> attributed,
                   depth |-> e.depth, parents |-> {e.transfer}]
  OBVIOUS
<1>1. /\ TypeOK /\ Accounts /\ Accounts' /\ Numbered /\ UNCHANGED <<ledger, terminals>>
      /\ queue' = (queue \ {e}) \cup {arrival}
      /\ Allocate(e, attributed, haircut) /\ Record(e, attributed)
  BY <1>0 DEF IInv, ForwardTransfer, Departs, request
<1>2. /\ attributed \in Nat
      /\ \A a \in Address : tainted[a] = tainted'[a] + Part(SentBy(a), e.transfer, attributed)
  BY <1>1, WalletSpends
<1>3. PICK d \in Address : d = ledger[e.transfer].destination
  BY <1>1, EventType DEF TypeOK, TransferRecord
<1>4. /\ arrival.kind = "arrival" /\ arrival.address = d /\ arrival.amount = attributed
      /\ arrival.seq = sequence
  BY <1>0, <1>3
<1>5. queue' \ {arrival} = queue \ {e} /\ arrival \in queue'
  <2>1. \A x \in queue : x.seq \in Nat /\ x.seq < sequence
    BY <1>1, EventType DEF Numbered
  <2>2. sequence \in Nat
    BY <1>1 DEF TypeOK
  <2>3. arrival \notin queue
    BY <1>4, <2>1, <2>2
  <2> QED BY <1>1, <2>3
<1>6. \A a \in Address : Flying(a)' = Flying(a) + Part({a}, d, attributed)
  <2> SUFFICES ASSUME NEW a \in Address
               PROVE  Flying(a)' = Flying(a) + Part({a}, d, attributed)
    OBVIOUS
  <2>1. PICK Q, R : Q = queue' /\ R = queue \ {e}
    OBVIOUS
  <2>2. arrival \in Q /\ arrival.amount \in Nat /\ Summable(Q, HeapAmounts(Q)) /\ Q \ {arrival} = R
    BY <1>1, <1>2, <1>4, <1>5, <2>1 DEF Accounts
  <2>3. Total(ArrivalsAt(Q, a), HeapAmounts(Q))
          = Total(ArrivalsAt(Q \ {arrival}, a), HeapAmounts(Q \ {arrival}))
            + Part(ArrivalsAt(Q, a), arrival, arrival.amount)
    BY <2>2, FlightPop
  <2>4. Total(ArrivalsAt(R, a), HeapAmounts(R)) = Flying(a)
    BY <1>1, <2>1, FlightsIdle
  <2>5. Part(ArrivalsAt(Q, a), arrival, arrival.amount) = Part({a}, d, attributed)
    BY <1>4, <2>2 DEF Part, ArrivalsAt
  <2>6. Flying(a)' = Total(ArrivalsAt(Q, a), HeapAmounts(Q))
    BY <2>1 DEF Flying
  <2> QED BY <2>2, <2>3, <2>4, <2>5, <2>6
<1>7. /\ \A a \in Address : Reported(a)' = Reported(a)
      /\ EdgeLimitReached => EdgeLimitReached'
  BY <1>1 DEF Reported, EdgeLimitReached
<1>8. Sums /\ Sums'
  BY SumsNatural, SumsNaturalNext
<1>9. ASSUME NEW a \in Address
      PROVE  Received(a)' + tainted[a] + PassedOn(a) + Reported(a) + Flying(a)
               = Received(a) + tainted'[a] + PassedOn(a)' + Reported(a)' + Flying(a)'
  <2>1. PICK m \in Nat, n \in Nat :
          /\ m = Part(SentBy(a), e.transfer, attributed)
          /\ n = Part(SentTo(a), e.transfer, attributed) /\ n = Part({a}, d, attributed)
    <3>1. e.transfer \in SentTo(a) <=> d = a
      BY <1>1, <1>3, EventType DEF SentTo
    <3> QED BY <1>2, <3>1 DEF Part
  <2>2. PICK i \in Nat, t2 \in Nat, o \in Nat, r \in Nat, f \in Nat :
          /\ i = Received(a) /\ t2 = tainted'[a] /\ o = PassedOn(a) /\ r = Reported(a)
          /\ f = Flying(a)
    BY <1>8, Zenon DEF Sums
  <2>3. Received(a)' = i + n /\ PassedOn(a)' = o + m
    <3>1. /\ Received(a)' = Received(a) + Part(SentTo(a), e.transfer, attributed)
          /\ PassedOn(a)' = PassedOn(a) + Part(SentBy(a), e.transfer, attributed)
      BY <1>1, <1>2, WalletsBook
    <3> QED BY <2>1, <2>2, <3>1, Zenon
  <2>4. tainted[a] = t2 + m /\ Flying(a)' = f + n
    BY <1>2, <1>6, <2>1, <2>2, Zenon
  <2>5. (i + n) + (t2 + m) + o + r + f = i + t2 + (o + m) + r + (f + n)
    OBVIOUS
  <2> QED BY <1>7, <2>2, <2>3, <2>4, <2>5, Zenon
<1> QED BY <1>7, <1>9, WalletsKept

\* A step that moves no amount, apart from events that carry none.
LEMMA WalletsStill ==
  ASSUME IInv, IInv', Wallets, UNCHANGED <<ledger, allocations, tainted, terminals>>,
         \A a \in Address : Flying(a)' = Flying(a)
  PROVE  Wallets'
<1>1. \A a \in Address : Received(a)' = Received(a) /\ PassedOn(a)' = PassedOn(a)
  BY NothingBooked
<1>2. \A a \in Address : Reported(a)' = Reported(a)
  BY DEF Reported
<1>3. EdgeLimitReached => EdgeLimitReached'
  BY DEF EdgeLimitReached
<1> QED BY <1>1, <1>2, <1>3 DEF Wallets, WalletBalanced, SeedPart

\* A discarded event, or an allocation of nothing.
LEMMA WalletSkips ==
  ASSUME IInv, IInv', Wallets, NEW e \in queue, e.kind = "transfer",
         NEW haircut \in Haircut(e), SkipTransfer(e, haircut)
  PROVE  Wallets'
<1>1. /\ TypeOK /\ Accounts /\ queue' = queue \ {e}
      /\ UNCHANGED <<ledger, allocations, terminals>>
  BY DEF IInv, SkipTransfer, Departs, Drop, request, output
<1>2. \A a \in Address : Flying(a)' = Flying(a)
  BY <1>1, FlightsIdle DEF Flying
<1>3. tainted' = tainted
  <2>1. CASE Stale(e)
    BY <2>1 DEF SkipTransfer
  <2>2. CASE ~Stale(e)
    <3>1. 0 \in Attributed(e) /\ Allocate(e, 0, haircut)
      BY <2>2 DEF SkipTransfer
    <3>2. tainted \in [Address -> Nat] /\ tainted' \in [Address -> Nat]
      BY <1>1 DEF TypeOK, IInv
    <3>3. \A a \in Address : tainted[a] = tainted'[a] + Part(SentBy(a), e.transfer, 0)
      BY <1>1, <3>1, WalletSpends
    <3>4. \A a \in Address : tainted[a] = tainted'[a]
      BY <3>2, <3>3 DEF Part
    <3> QED BY <3>2, <3>4
  <2> QED BY <2>1, <2>2
<1> QED BY <1>1, <1>2, <1>3, WalletsStill

WInv == IInv /\ Wallets

LEMMA WInit == Init => WInv
<1> SUFFICES ASSUME Init PROVE WInv
  OBVIOUS
<1>1. IInv
  BY IInit
<1>2. Sums
  BY <1>1, SumsNatural
<1>3. ASSUME NEW a \in Address PROVE WalletBalanced(a)
  <2>1. DOMAIN allocations = {} /\ DOMAIN terminals = {}
    BY DEF Init
  <2>2. \A P : Brought(P) = 0
    BY <2>1, TotalZero DEF Brought
  <2>3. Reported(a) = 0
    BY <2>1, TotalZero DEF Reported
  <2>4. Flying(a) = SeedPart(a) /\ SeedPart(a) \in Nat
    <3>1. PICK seed : queue = {seed} /\ seed.kind = "arrival" /\ seed.address = SeedAddress
                      /\ seed.amount = SeedAmount
      <4> DEFINE first == [kind |-> "arrival", at |-> SeedTime, seq |-> 0, address |-> SeedAddress,
                           amount |-> SeedAmount, depth |-> 0, parents |-> {}]
      <4>1. queue = {first}
        BY DEF Init
      <4>2. /\ first.kind = "arrival" /\ first.address = SeedAddress
            /\ first.amount = SeedAmount
        OBVIOUS
      <4> HIDE DEF first
      <4> QED BY <4>1, <4>2
    <3>2. Flying(a) = Total(ArrivalsAt({}, a), HeapAmounts({})) + Part(ArrivalsAt(queue, a), seed, SeedAmount)
      <4>1. seed \in queue /\ seed.amount \in Nat /\ queue \ {seed} = {}
        BY <3>1, FlowAssumption
      <4> QED BY <1>1, <3>1, <4>1, FlightPop DEF IInv, Accounts, Flying
    <3>3. Total(ArrivalsAt({}, a), HeapAmounts({})) = 0
      <4>1. ArrivalsAt({}, a) = {}
        BY DEF ArrivalsAt
      <4> QED BY <4>1, TotalZero
    <3>4. seed \in ArrivalsAt(queue, a) <=> a = SeedAddress
      BY <3>1 DEF ArrivalsAt
    <3> QED BY <3>2, <3>3, <3>4, FlowAssumption DEF Part, SeedPart
  <2>5. tainted[a] = 0
    BY DEF Init
  <2>6. \A n \in Nat : n + 0 = 0 + 0 + 0 + n
    OBVIOUS
  <2> QED BY <2>2, <2>3, <2>4, <2>5, <2>6 DEF WalletBalanced, Received, PassedOn
<1> QED BY <1>1, <1>3 DEF WInv, Wallets

\* Every step keeps every wallet's ledger: one case per action.
LEMMA WNext == WInv /\ [Next]_vars => WInv'
<1> SUFFICES ASSUME WInv, [Next]_vars PROVE WInv'
  OBVIOUS
<1> USE DEF WInv
<1>1. IInv' /\ TypeOK
  BY INext DEF IInv
<1>2. ASSUME UNCHANGED <<request, heap, wallets, output>> PROVE WInv'
  <2>1. UNCHANGED <<ledger, allocations, tainted, terminals, queue>>
    BY <1>2 DEF request, heap, wallets, output
  <2>2. \A a \in Address : Flying(a)' = Flying(a)
    BY <2>1 DEF Flying
  <2> QED BY <1>1, <2>1, <2>2, WalletsStill
<1>3. CASE UNCHANGED vars \/ CancelTrace \/ Finish
  BY <1>2, <1>3 DEF vars, CancelTrace, Finish
<1>4. ASSUME NEW e \in queue, PastEnd(e) PROVE WInv'
  <2>1. Drop(e) /\ UNCHANGED <<ledger, allocations, tainted>>
    BY <1>4 DEF PastEnd, request, wallets
  <2>2. CASE e.kind = "arrival"
    <3>1. "TIME_BOUNDARY" \in TerminalReason /\ "none" \in Details
      BY Zenon DEF TerminalReason, Details
    <3>2. Stop(e.address, e.amount, "TIME_BOUNDARY", e.depth, e.parents, "none")
      BY <1>4, <2>2 DEF PastEnd
    <3> QED BY <1>1, <2>1, <2>2, <3>1, <3>2, WalletReports
  <2>3. CASE e.kind = "transfer"
    <3>1. terminals' = terminals /\ queue' = queue \ {e}
      BY <1>4, <2>1, <2>3 DEF PastEnd, Drop
    <3>2. \A a \in Address : Flying(a)' = Flying(a)
      BY <2>3, <3>1, FlightsIdle DEF Flying, IInv
    <3> QED BY <1>1, <2>1, <3>1, <3>2, WalletsStill
  <2> QED BY <1>1, <2>2, <2>3, EventType
<1>5. ASSUME NEW e \in queue, ArriveOverNodeLimit(e) PROVE WInv'
  <2>1. /\ e.kind = "arrival" /\ Drop(e) /\ UNCHANGED <<ledger, allocations, tainted>>
        /\ Stop(e.address, e.amount, "MAX_NODES", e.depth, e.parents, "node limit")
    BY <1>5 DEF ArriveOverNodeLimit, Arrives, request
  <2>2. "MAX_NODES" \in TerminalReason /\ "node limit" \in Details
    BY Zenon DEF TerminalReason, Details
  <2> QED BY <1>1, <2>1, <2>2, WalletReports, Zenon
<1>6. ASSUME NEW e \in queue, ArriveProviderFails(e) PROVE WInv'
  <2>1. /\ e.kind = "arrival" /\ Drop(e) /\ UNCHANGED <<ledger, allocations, tainted>>
        /\ Stop(e.address, e.amount, "UNKNOWN", e.depth, e.parents, "none")
    BY <1>6 DEF ArriveProviderFails, Arrives, request
  <2>2. "UNKNOWN" \in TerminalReason /\ "none" \in Details
    BY Zenon DEF TerminalReason, Details
  <2> QED BY <1>1, <2>1, <2>2, WalletReports
<1>7. ASSUME NEW e \in queue, NEW answer \in Answers(e.address), ArriveNoOutgoing(e, answer)
      PROVE  WInv'
  <2>1. /\ e.kind = "arrival" /\ Drop(e) /\ UNCHANGED <<ledger, allocations, tainted>>
        /\ Stop(e.address, e.amount, "NO_OUTGOING", e.depth, e.parents, "none")
    BY <1>7 DEF ArriveNoOutgoing, Retrieve, Arrives, request
  <2>2. "NO_OUTGOING" \in TerminalReason /\ "none" \in Details
    BY Zenon DEF TerminalReason, Details
  <2> QED BY <1>1, <2>1, <2>2, WalletReports
<1>8. ASSUME NEW e \in queue, NEW answer \in Answers(e.address), ArriveSchedule(e, answer)
      PROVE  WInv'
  BY <1>1, <1>8, WalletSchedules
<1>9. ASSUME NEW e \in queue, e.kind = "transfer", NEW haircut \in Haircut(e),
             SkipTransfer(e, haircut)
      PROVE  WInv'
  BY <1>1, <1>9, WalletSkips
<1>10. ASSUME NEW e \in queue, e.kind = "transfer", NEW haircut \in Haircut(e),
              NEW attributed \in Attributed(e), StopTransfer(e, attributed, haircut)
       PROVE  WInv'
  BY <1>1, <1>10, WalletStops
<1>11. ASSUME NEW e \in queue, e.kind = "transfer", NEW haircut \in Haircut(e),
              NEW attributed \in Attributed(e), ForwardTransfer(e, attributed, haircut)
       PROVE  WInv'
  BY <1>1, <1>11, WalletForwards
<1> QED
  BY <1>3, <1>4, <1>5, <1>6, <1>7, <1>8, <1>9, <1>10, <1>11
  DEF Next, Step, Arrive, Depart

\* Conservation wallet by wallet: what a wallet received, the seed included, is
\* what it still holds, passed on, reports in terminals or is about to receive,
\* so that no wallet spends another's value (the states dictionary and its
\* clamps, lines 183-222), unless max_edges cut a wallet's transfers off.
THEOREM WalletsConserve == Spec => []WalletLedger
<1>1. Init => WInv
  BY WInit
<1>2. WInv /\ [Next]_vars => WInv'
  BY WNext
<1>3. WInv => WalletLedger
  BY LedgerByWallet DEF WInv, IInv, Wallets
<1> QED BY <1>1, <1>2, <1>3, PTL DEF Spec

-----------------------------------------------------------------------------
(* Lineage covers what is attributed *)

\* No report is withdrawn, whatever it says.
LEMMA ReportsStay ==
  ASSUME TypeOK, NEW address, NEW amount, NEW reason, NEW depth, NEW lineage, NEW detail,
         Stop(address, amount, reason, depth, lineage, detail)
  PROVE  EdgeLimitReached => EdgeLimitReached'
<1> DEFINE row == [address |-> address, amount |-> amount, reason |-> reason,
                   depth |-> depth, parents |-> lineage, detail |-> detail]
<1>1. terminals' = Append(terminals, row)
  BY DEF Stop
<1> HIDE DEF row
<1>2. terminals \in Seq(Terminal \cup {row})
  BY DEF TypeOK
<1>3. DOMAIN terminals' = DOMAIN terminals \cup {Len(terminals) + 1}
      /\ \A i \in DOMAIN terminals : terminals'[i] = terminals[i]
  BY <1>1, <1>2, OneMore
<1> QED BY <1>3 DEF EdgeLimitReached

\* A report says what it was made to say.
LEMMA ReportMade ==
  ASSUME TypeOK, NEW address, NEW amount, NEW reason, NEW depth, NEW lineage, NEW detail,
         Stop(address, amount, reason, depth, lineage, detail)
  PROVE  \E n \in DOMAIN terminals' : terminals'[n].detail = detail
<1> DEFINE row == [address |-> address, amount |-> amount, reason |-> reason,
                   depth |-> depth, parents |-> lineage, detail |-> detail]
<1>1. terminals' = Append(terminals, row) /\ row.detail = detail
  BY DEF Stop
<1> HIDE DEF row
<1>2. terminals \in Seq(Terminal \cup {row})
  BY DEF TypeOK
<1>3. /\ DOMAIN terminals' = DOMAIN terminals \cup {Len(terminals) + 1}
      /\ terminals'[Len(terminals) + 1] = row
  BY <1>1, <1>2, OneMore
<1> QED BY <1>1, <1>3

\* Once reported, the edge limit stays reported.
LEMMA EdgeLimitStays ==
  ASSUME TypeOK, [Next]_vars
  PROVE  EdgeLimitReached => EdgeLimitReached'
<1>1. ASSUME terminals' = terminals
      PROVE  EdgeLimitReached => EdgeLimitReached'
  BY <1>1 DEF EdgeLimitReached
<1>2. ASSUME NEW e \in queue, PastEnd(e) PROVE EdgeLimitReached => EdgeLimitReached'
  BY <1>1, <1>2, ReportsStay, Zenon DEF PastEnd
<1>3. ASSUME NEW e \in queue, Arrive(e) PROVE EdgeLimitReached => EdgeLimitReached'
  BY <1>1, <1>3, ReportsStay, Zenon
  DEF Arrive, ArriveOverNodeLimit, ArriveProviderFails, ArriveNoOutgoing, ArriveSchedule
<1>4. ASSUME NEW e \in queue, Depart(e) PROVE EdgeLimitReached => EdgeLimitReached'
  BY <1>1, <1>4, ReportsStay, Zenon
  DEF Depart, SkipTransfer, StopTransfer, ForwardTransfer, output
<1>5. CASE UNCHANGED vars \/ CancelTrace \/ Finish
  BY <1>1, <1>5 DEF vars, CancelTrace, Finish, output
<1> QED BY <1>2, <1>3, <1>4, <1>5 DEF Next, Step

\* What two disjoint sets of transfers brought adds up.
LEMMA BroughtUnion ==
  ASSUME TypeOK
  PROVE  /\ \A P : Brought(P) \in Nat
         /\ \A P, Q : P \cap Q = {} => Brought(P \cup Q) = Brought(P) + Brought(Q)
<1>1. Summable(DOMAIN allocations, Attr)
  BY BooksSummable DEF TypeOK
<1>2. ASSUME NEW P
      PROVE  /\ Summable({j \in DOMAIN allocations : allocations[j].transfer \in P}, Attr)
             /\ Brought(P) \in Nat
  <2>1. {j \in DOMAIN allocations : allocations[j].transfer \in P} \in SUBSET DOMAIN allocations
    OBVIOUS
  <2> QED BY <1>1, <2>1, PartSummable DEF Brought
<1>3. ASSUME NEW P, NEW Q, P \cap Q = {}
      PROVE  Brought(P \cup Q) = Brought(P) + Brought(Q)
  <2> DEFINE S == {j \in DOMAIN allocations : allocations[j].transfer \in P}
             T == {j \in DOMAIN allocations : allocations[j].transfer \in Q}
  <2>1. S \cap T = {} /\ {j \in DOMAIN allocations : allocations[j].transfer \in P \cup Q} = S \cup T
    BY <1>3
  <2>2. Summable(S, Attr) /\ Summable(T, Attr)
    BY <1>2
  <2> HIDE DEF S, T
  <2>3. Total(S \cup T, Attr) = Total(S, Attr) + Total(T, Attr)
    BY <2>1, <2>2, TotalUnion
  <2> QED BY <2>1, <2>3 DEF Brought, S, T
<1> QED BY <1>2, <1>3

\* The seed comes before everything else.
SeedFirst ==
  \A e \in queue : e.kind = "arrival" /\ e.parents = {} =>
    /\ queue = {e} /\ e.address = SeedAddress /\ e.amount = SeedAmount
    /\ \A a \in Address : tainted[a] = 0

\* Every other arrival has one parent, whose allocation it carries on.
Carried ==
  \A e \in queue : e.kind = "arrival" /\ e.parents # {} =>
    \E p \in Transfer : e.parents = {p} /\ Brought({p}) = e.amount

\* What is still to arrive is nobody's parent yet, and arrives once.
Undelivered ==
  \A e \in queue : e.kind = "arrival" =>
    /\ \A t \in Transfer : parents[t] \cap e.parents = {}
    /\ \A f \in queue : f.kind = "arrival" /\ f # e => f.parents \cap e.parents = {}

\* A wallet holds disputed value only once its transfers were asked for.
Asked ==
  /\ \A a \in Address : tainted[a] > 0 => a \in loaded
  /\ scheduled \subseteq retained

Reachable(t) == ledger[t].at <= policy.end_time /\ ledger[t].at <= SeedTime + policy.max_delta

Ahead(t) == \E e \in queue : e.at <= ledger[t].at

\* The disputed balance a transfer may still spend is explained by its parents.
Explained ==
  \A t \in retained : Reachable(t) /\ Ahead(t) /\ tainted[ledger[t].source] > 0 =>
    tainted[ledger[t].source] <= SeedPart(ledger[t].source) + Brought(parents[t])

\* The entries of the parents of entry i that were made before it.
Earlier(i) ==
  {j \in DOMAIN allocations : j < i /\ allocations[j].transfer \in allocations[i].parents}

EntryCovered(i) ==
  LET t == allocations[i].transfer
  IN  ledger[t].at <= SeedTime + policy.max_delta =>
        allocations[i].attributed <= SeedPart(ledger[t].source) + Total(Earlier(i), Attr)

Covers == \A i \in DOMAIN allocations : EntryCovered(i)

Routes == SeedFirst /\ Carried /\ Undelivered /\ Asked

Accounted == EdgeLimitReached \/ (Explained /\ Covers)

CInv == LInv /\ Routes /\ Accounted

-----------------------------------------------------------------------------
(* The routes of the disputed value *)

\* A transfer no allocation names has brought nothing.
LEMMA UnbookedBringsNothing ==
  ASSUME NEW t, ~Booked(t)
  PROVE  Brought({t}) = 0
<1>1. {j \in DOMAIN allocations : allocations[j].transfer \in {t}} = {}
  BY DEF Booked
<1>2. \A x \in {} : Attr[x] = 0
  OBVIOUS
<1> QED BY <1>1, <1>2, TotalZero DEF Brought

\* A step that pushes no arrival keeps the routes: what was booked has brought
\* what it brought, and no wallet gains disputed value.
LEMMA RoutesKept ==
  ASSUME TypeOK, Lineage, Routes, queue' \subseteq queue,
         UNCHANGED <<ledger, parents, scheduled>>,
         retained \subseteq retained', loaded \subseteq loaded',
         \A a \in Address : tainted'[a] \in Nat /\ tainted'[a] <= tainted[a],
         \A p \in Transfer : Booked(p) => Brought({p})' = Brought({p})
  PROVE  Routes'
<1>1. \A a \in Address : tainted[a] \in Nat
  BY DEF TypeOK
<1>2. SeedFirst'
  BY <1>1 DEF Routes, SeedFirst
<1>3. Carried'
  <2>1. ASSUME NEW f \in queue', f.kind = "arrival", f.parents # {}
        PROVE  \E p \in Transfer : f.parents = {p} /\ Brought({p})' = f.amount
    <3>1. PICK p \in Transfer : f.parents = {p} /\ Brought({p}) = f.amount
      BY <2>1 DEF Routes, Carried
    <3>2. Booked(p)
      BY <2>1, <3>1 DEF Lineage, Arrivals, CameTo
    <3> QED BY <3>1, <3>2
  <2> QED BY <2>1 DEF Carried
<1>4. Undelivered'
  BY DEF Routes, Undelivered
<1>5. Asked'
  BY <1>1 DEF Routes, Asked
<1> QED BY <1>2, <1>3, <1>4, <1>5 DEF Routes

\* A scheduled wallet was asked, and took over the parents of one arrival.
LEMMA RoutesScheduled ==
  ASSUME TypeOK, Lineage, Routes, NEW e \in queue, NEW answer \in Answers(e.address),
         ArriveSchedule(e, answer)
  PROVE  Routes'
<1> DEFINE out == Outgoing(e.address, e.at, retained \cup answer)
           new == Visited(out) \ scheduled
<1>1. /\ e.kind = "arrival" /\ UNCHANGED <<ledger, policy, allocations>>
      /\ loaded' = loaded \cup {e.address} /\ retained' = retained \cup answer
      /\ e.address \in Address /\ e.amount \in Nat
  BY EventType DEF ArriveSchedule, Retrieve, Arrives, request
<1>2. /\ scheduled' = scheduled \cup new
      /\ parents' = [t \in Transfer |->
                       IF t \in Visited(out) THEN parents[t] \cup e.parents ELSE parents[t]]
      /\ queue' = (queue \ {e}) \cup Departures(e, new)
      /\ tainted' = [tainted EXCEPT ![e.address] = tainted[e.address] + e.amount]
  BY DEF ArriveSchedule
<1>3. Visited(out) \subseteq retained \cup answer /\ new \in SUBSET Transfer
  BY DEF Visited, Outgoing, Answers, SentBy, TypeOK
<1> HIDE DEF out
<1>4. \A f \in queue' : f.kind = "arrival" => f \in queue /\ f # e
  <2>1. \A f \in Departures(e, new) : f.kind # "arrival"
    BY <1>3, DeparturesType DEF TransferEvent
  <2> HIDE DEF new
  <2> QED BY <1>2, <2>1
<1>5. SeedFirst'
  BY <1>4 DEF Routes, SeedFirst
<1>6. Carried'
  <2>1. \A P : Brought(P)' = Brought(P)
    BY <1>1 DEF Brought, Attr
  <2> HIDE DEF new
  <2> QED BY <1>4, <2>1 DEF Routes, Carried
<1>7. Undelivered'
  BY <1>1, <1>2, <1>4 DEF Routes, Undelivered
<1>8. Asked'
  <2>1. \A a \in Address : a # e.address => tainted'[a] = tainted[a]
    BY <1>2 DEF TypeOK
  <2> QED BY <1>1, <1>2, <1>3, <2>1 DEF Routes, Asked
<1> QED BY <1>5, <1>6, <1>7, <1>8 DEF Routes

\* A forwarded amount has the one transfer behind it that was just booked.
LEMMA RoutesForwarded ==
  ASSUME TypeOK, Lineage, Books, Routes, NEW e \in queue, e.kind = "transfer",
         NEW haircut \in Haircut(e), NEW attributed \in Attributed(e),
         ForwardTransfer(e, attributed, haircut),
         \A a \in Address : tainted'[a] \in Nat /\ tainted'[a] <= tainted[a],
         \A P : Brought(P)' = Brought(P) + Part(P, e.transfer, attributed)
  PROVE  Routes'
<1>0. PICK arrival :
        arrival = [kind |-> "arrival", at |-> ledger[e.transfer].at, seq |-> sequence,
                   address |-> ledger[e.transfer].destination, amount |-> attributed,
                   depth |-> e.depth, parents |-> {e.transfer}]
  OBVIOUS
<1>1. /\ Departs(e) /\ ~Stale(e) /\ Allocate(e, attributed, haircut) /\ Record(e, attributed)
      /\ queue' = (queue \ {e}) \cup {arrival}
      /\ UNCHANGED <<ledger, policy, scheduled, parents, retained, loaded>>
  BY <1>0 DEF ForwardTransfer, Departs, request, schedule, evidence
<1>2. ~Booked(e.transfer)
  BY <1>1, BookOne
<1>3. /\ arrival.kind = "arrival" /\ arrival.amount = attributed
      /\ arrival.parents = {e.transfer}
  BY <1>0
<1>4. e.transfer \in Transfer /\ attributed \in Nat /\ \A a \in Address : tainted[a] \in Nat
  BY EventType, AttributedType DEF TypeOK
<1>5. \A p \in Transfer : Booked(p) => Brought({p})' = Brought({p})
  <2>1. ASSUME NEW p \in Transfer, Booked(p) PROVE Brought({p})' = Brought({p})
    <3>1. p # e.transfer /\ Part({p}, e.transfer, attributed) = 0
      BY <1>2, <2>1 DEF Part
    <3>2. Brought({p})' = Brought({p}) + 0
      BY <3>1, Zenon
    <3>3. Brought({p}) \in Nat
      BY BroughtUnion
    <3> QED BY <3>2, <3>3
  <2> QED BY <2>1
<1>6. Brought({e.transfer})' = attributed
  <2>1. Part({e.transfer}, e.transfer, attributed) = attributed
    BY DEF Part
  <2>2. Brought({e.transfer}) = 0
    BY <1>2, UnbookedBringsNothing
  <2>3. Brought({e.transfer})' = 0 + attributed
    BY <2>1, <2>2, Zenon
  <2> QED BY <1>4, <2>3
<1>7. SeedFirst'
  BY <1>1, <1>3 DEF Routes, SeedFirst
<1>8. Carried'
  <2>1. ASSUME NEW f \in queue', f.kind = "arrival", f.parents # {}
        PROVE  \E p \in Transfer : f.parents = {p} /\ Brought({p})' = f.amount
    <3>1. CASE f = arrival
      BY <1>3, <1>4, <1>6, <3>1
    <3>2. CASE f \in queue
      <4>1. PICK p \in Transfer : f.parents = {p} /\ Brought({p}) = f.amount
        BY <2>1, <3>2 DEF Routes, Carried
      <4>2. Booked(p)
        BY <2>1, <3>2, <4>1 DEF Lineage, Arrivals, CameTo
      <4> QED BY <1>5, <4>1, <4>2
    <3> QED BY <1>1, <3>1, <3>2
  <2> QED BY <2>1 DEF Carried
<1>9. Undelivered'
  <2>1. \A t \in Transfer : e.transfer \notin parents[t]
    BY <1>2 DEF Lineage, Parentage, CameTo
  <2>2. \A f \in queue : f.kind = "arrival" => e.transfer \notin f.parents
    BY <1>2 DEF Lineage, Arrivals, CameTo
  <2>3. ASSUME NEW f \in queue', f.kind = "arrival"
        PROVE  /\ \A t \in Transfer : parents[t] \cap f.parents = {}
               /\ \A g \in queue' : g.kind = "arrival" /\ g # f => g.parents \cap f.parents = {}
    <3>1. CASE f = arrival
      BY <1>1, <1>3, <2>1, <2>2, <3>1
    <3>2. CASE f \in queue
      BY <1>1, <1>3, <2>2, <2>3, <3>2 DEF Routes, Undelivered
    <3> QED BY <1>1, <3>1, <3>2
  <2> QED BY <1>1, <2>3 DEF Undelivered
<1>10. Asked'
  BY <1>1, <1>4 DEF Routes, Asked
<1> QED BY <1>7, <1>8, <1>9, <1>10 DEF Routes

-----------------------------------------------------------------------------
(* Balances and entries explained by lineage *)

\* The event a step takes is the earliest, so nothing falls back behind it.
LEMMA AheadBefore ==
  ASSUME TypeOK, NEW e \in queue, IsNext(e), UNCHANGED ledger,
         \A f \in queue' : f \in queue \/ (f.at \in Nat /\ e.at <= f.at)
  PROVE  \A t \in Transfer : Ahead(t)' => Ahead(t) /\ e.at <= ledger[t].at
<1>1. \A f \in queue : f.at \in Nat /\ e.at <= f.at
  <2>1. \A f \in queue : f.at \in Nat
    BY DEF TypeOK, ArrivalEvent, TransferEvent
  <2> QED BY <2>1 DEF IsNext
<1>2. \A t \in Transfer : ledger[t].at \in Nat
  BY DEF TypeOK, TransferRecord
<1>3. ASSUME NEW t \in Transfer, Ahead(t)'
      PROVE  e.at <= ledger[t].at
  <2>1. PICK f \in queue' : f.at <= ledger[t].at
    BY <1>3 DEF Ahead
  <2> QED BY <1>1, <1>2, <2>1
<1> QED BY <1>3 DEF Ahead

\* A step that gives no wallet disputed value keeps every balance explained: the
\* transfers it retrieves leave wallets that hold none.
LEMMA ExplainedKept ==
  ASSUME TypeOK, Explained, UNCHANGED <<ledger, policy, parents>>, retained' \subseteq Transfer,
         \A a \in Address : tainted'[a] \in Nat /\ tainted'[a] <= tainted[a],
         \A P : Brought(P)' \in Nat /\ Brought(P) <= Brought(P)',
         \A t \in Transfer : Ahead(t)' => Ahead(t),
         \A t \in retained' \ retained : tainted[ledger[t].source] = 0
  PROVE  Explained'
<1>1. \A a \in Address : tainted[a] \in Nat /\ SeedPart(a) \in Nat
  BY FlowAssumption DEF TypeOK, SeedPart
<1>2. ASSUME NEW t \in retained', Reachable(t), Ahead(t)', tainted'[ledger[t].source] > 0
      PROVE  tainted'[ledger[t].source] <= SeedPart(ledger[t].source) + Brought(parents[t])'
  <2>1. PICK a \in Address : a = ledger[t].source
    BY DEF TypeOK, TransferRecord
  <2>2. tainted[a] > 0 /\ tainted'[a] <= tainted[a] /\ tainted'[a] \in Nat
    BY <1>1, <1>2, <2>1
  <2>3. t \in retained /\ Ahead(t)
    BY <1>2, <2>1, <2>2
  <2>4. tainted[a] <= SeedPart(a) + Brought(parents[t])
    BY <1>2, <2>1, <2>2, <2>3 DEF Explained
  <2>5. PICK m, n \in Nat : m = Brought(parents[t]) /\ n = Brought(parents[t])' /\ m <= n
    BY BroughtUnion
  <2>6. tainted'[a] <= SeedPart(a) + n
    BY <1>1, <2>2, <2>4, <2>5
  <2> QED BY <2>1, <2>5, <2>6, Zenon
<1> QED BY <1>2 DEF Explained, Reachable, SeedPart

\* The parents of the transfers in an arrival's window grow with its balance.
LEMMA ExplainedScheduled ==
  ASSUME TypeOK, Lineage, Routes, Explained, NEW e \in queue, NEW answer \in Answers(e.address),
         ArriveSchedule(e, answer),
         OverEdgeLimit(Outgoing(e.address, e.at, retained \cup answer)) = {}
  PROVE  Explained'
<1> DEFINE out == Outgoing(e.address, e.at, retained \cup answer)
           new == Visited(out) \ scheduled
           s == e.address
<1>1. /\ e.kind = "arrival" /\ UNCHANGED <<ledger, policy, allocations>> /\ IsNext(e)
      /\ retained' = retained \cup answer
      /\ s \in Address /\ e.amount \in Nat /\ e.at \in Nat /\ e.parents \in SUBSET Transfer
  BY EventType DEF ArriveSchedule, Retrieve, Arrives, request, Pop, ArrivalEvent
<1>2. /\ parents' = [t \in Transfer |->
                       IF t \in Visited(out) THEN parents[t] \cup e.parents ELSE parents[t]]
      /\ queue' = (queue \ {e}) \cup Departures(e, new)
      /\ tainted' = [tainted EXCEPT ![s] = tainted[s] + e.amount]
  BY DEF ArriveSchedule
<1>3. Visited(out) = out /\ out \in SUBSET Transfer /\ answer \in SUBSET SentBy(s)
  BY DEF Visited, Outgoing, Answers, SentBy, TypeOK
<1>4. /\ \A P : Brought(P) \in Nat
      /\ \A t \in Transfer : \A P : P = parents'[t] => Brought(parents[t])' = Brought(P)
  BY <1>1, BroughtUnion DEF Brought, Attr
<1>5. \A t \in Transfer : Ahead(t)' => Ahead(t) /\ e.at <= ledger[t].at
  <2>1. \A f \in Departures(e, new) : f.at \in Nat /\ e.at <= f.at
    <3>1. \A t \in new : ledger[t].at \in Nat /\ e.at <= ledger[t].at
      BY <1>3 DEF Outgoing, TypeOK, TransferRecord
    <3> HIDE DEF new
    <3>2. ASSUME NEW f \in Departures(e, new) PROVE f.at \in Nat /\ e.at <= f.at
      <4>1. PICK t \in new : f = [kind |-> "transfer", at |-> ledger[t].at, transfer |-> t,
                                amount |-> 0, depth |-> e.depth + 1,
                                seq |-> sequence + Cardinality({u \in new : u < t})]
        BY Zenon DEF Departures
      <4>2. f.at = ledger[t].at
        BY <4>1
      <4> QED BY <3>1, <4>2
    <3> QED BY <3>2
  <2>2. \A f \in queue' : f \in queue \/ (f.at \in Nat /\ e.at <= f.at)
    <3> HIDE DEF new
    <3> QED BY <1>2, <2>1
  <2> QED BY <1>1, <2>2, AheadBefore
<1>6. \A a \in Address : tainted[a] \in Nat /\ SeedPart(a) \in Nat
  BY FlowAssumption DEF TypeOK, SeedPart
<1>7. \A t \in Transfer : ledger[t].source = s <=> t \in SentBy(s)
  BY DEF SentBy
<1>8. ASSUME NEW t \in retained', Reachable(t), Ahead(t)', tainted'[ledger[t].source] > 0
      PROVE  tainted'[ledger[t].source] <= SeedPart(ledger[t].source) + Brought(parents[t])'
  <2>1. t \in Transfer /\ ledger[t].source \in Address /\ ledger[t].at \in Nat
    BY <1>1, <1>3 DEF SentBy, TypeOK, TransferRecord
  <2>2. CASE ledger[t].source # s
    <3>1. t \in retained /\ t \notin out
      BY <1>1, <1>3, <2>2 DEF SentBy, Outgoing
    <3>2. parents'[t] = parents[t] /\ tainted'[ledger[t].source] = tainted[ledger[t].source]
      BY <1>2, <1>3, <2>1, <2>2, <3>1 DEF TypeOK
    <3>3. tainted[ledger[t].source] <= SeedPart(ledger[t].source) + Brought(parents[t])
      BY <1>5, <1>8, <2>1, <3>1, <3>2 DEF Explained
    <3>4. Brought(parents[t])' = Brought(parents[t])
      BY <1>4, <2>1, <3>2
    <3> QED BY <3>2, <3>3, <3>4
  <2>3. CASE ledger[t].source = s
    <3>1. t \in out
      <4>1. e.at <= ledger[t].at /\ ledger[t].at <= policy.end_time
            /\ ledger[t].at <= SeedTime + policy.max_delta /\ SeedTime <= e.at
        BY <1>1, <1>5, <1>8, <2>1 DEF Reachable, Lineage, Arrivals
      <4>2. policy.end_time \in Nat /\ policy.max_delta \in Nat /\ SeedTime \in Nat
        BY FlowAssumption DEF TypeOK, TracePolicy
      <4>3. ledger[t].at <= e.at + policy.max_delta
        BY <1>1, <2>1, <4>1, <4>2
      <4>4. ledger[t].at <= EffectiveEnd(e.at)
        BY <4>1, <4>3 DEF EffectiveEnd, Least
      <4>5. t \in retained \cup answer
        BY <1>1
      <4> QED BY <2>3, <4>1, <4>4, <4>5 DEF Outgoing
    <3>2. parents'[t] = parents[t] \cup e.parents
      BY <1>2, <1>3, <2>1, <3>1
    <3>3. tainted'[s] = tainted[s] + e.amount
      BY <1>1, <1>2 DEF TypeOK
    <3>4. PICK m, n \in Nat : m = Brought(parents[t]) /\ n = Brought(parents'[t])
                              /\ n = Brought(parents[t])'
      BY <1>4, <2>1
    <3>5. PICK d \in Nat : d = SeedPart(s)
      BY <1>1, <1>6
    <3>6. CASE e.parents = {}
      <4>1. s = SeedAddress /\ e.amount = SeedAmount /\ tainted[s] = 0
        BY <1>1, <3>6 DEF Routes, SeedFirst
      <4>2. d = e.amount
        BY <3>5, <4>1 DEF SeedPart
      <4>3. tainted'[s] <= d + n
        BY <1>1, <3>3, <3>4, <4>1, <4>2
      <4> QED BY <2>3, <3>4, <3>5, <4>3
    <3>7. CASE e.parents # {}
      <4>1. PICK p \in Transfer : e.parents = {p} /\ Brought({p}) = e.amount
        BY <1>1, <3>7 DEF Routes, Carried
      <4>2. parents[t] \cap {p} = {}
        BY <1>1, <2>1, <4>1 DEF Routes, Undelivered
      <4>3. n = m + e.amount
        <5>1. Brought(parents[t] \cup {p}) = Brought(parents[t]) + Brought({p})
          BY <4>2, BroughtUnion
        <5> QED BY <3>2, <3>4, <4>1, <5>1
      <4>4. tainted[s] > 0 => tainted[s] <= d + m
        <5>1. ASSUME tainted[s] > 0 PROVE tainted[s] <= d + m
          <6>1. answer = {}
            BY <1>1, <5>1 DEF Routes, Asked, Answers
          <6>2. t \in retained
            BY <1>1, <6>1
          <6> QED BY <1>5, <1>8, <2>1, <2>3, <3>4, <3>5, <5>1, <6>2 DEF Explained
        <5> QED BY <5>1
      <4>5. tainted'[s] <= d + n
        BY <1>1, <1>6, <3>3, <3>4, <4>3, <4>4
      <4> QED BY <2>3, <3>4, <3>5, <4>5
    <3> QED BY <3>6, <3>7
  <2> QED BY <2>2, <2>3
<1> QED BY <1>1, <1>8 DEF Explained, Reachable, SeedPart

\* A new entry gets no more than its wallet held, which its parents explain, and
\* what explained the earlier entries is still in the books.
LEMMA CoversBooked ==
  ASSUME TypeOK, Lineage, Routes, Explained, Covers, NEW e \in queue, e.kind = "transfer",
         Departs(e), NEW attributed \in Attributed(e), attributed > 0, Record(e, attributed)
  PROVE  Covers'
<1> DEFINE row == [transfer |-> e.transfer, depth |-> e.depth, parents |-> parents[e.transfer],
                   before |-> tainted[ledger[e.transfer].source],
                   covered |-> Covered(e.transfer), attributed |-> attributed]
<1>0. PICK n : n = Len(allocations) + 1
  OBVIOUS
<1>1. /\ row.transfer = e.transfer /\ row.attributed = attributed
      /\ row.parents = parents[e.transfer]
  OBVIOUS
<1>2. allocations' = Append(allocations, row) /\ UNCHANGED <<ledger, policy>>
  BY DEF Record, Departs, request
<1>3. /\ e.transfer \in Transfer /\ ledger[e.transfer].source \in Address
      /\ attributed \in Nat /\ attributed <= tainted[ledger[e.transfer].source]
  BY EventType, AttributedType
<1>4. row \in Allocation
  <2>1. tainted[ledger[e.transfer].source] \in Nat /\ Covered(e.transfer) \in Nat
    BY AttributedType DEF TypeOK
  <2>2. parents[e.transfer] \in SUBSET Transfer /\ e.depth \in Nat
    BY <1>3, EventType DEF TypeOK
  <2> QED BY <1>3, <2>1, <2>2 DEF Allocation
<1> HIDE DEF row
<1>5. /\ allocations \in Seq(Allocation) /\ n \in Nat /\ DOMAIN allocations = 1 .. n - 1
  BY <1>0, LenProperties DEF TypeOK
<1>6. /\ DOMAIN allocations' = DOMAIN allocations \cup {n} /\ allocations'[n] = row
      /\ \A i \in DOMAIN allocations : allocations'[i] = allocations[i]
  BY <1>0, <1>2, <1>4, <1>5, OneMore
<1>7. \A i \in DOMAIN allocations : Attr'[i] = Attr[i]
  BY <1>6 DEF Attr
<1>8. ASSUME NEW i \in DOMAIN allocations PROVE EntryCovered(i)'
  <2>1. Earlier(i)' = Earlier(i)
    BY <1>5, <1>6, <1>8 DEF Earlier
  <2>2. \A j \in Earlier(i) : Attr'[j] = Attr[j]
    BY <1>7 DEF Earlier
  <2>3. Total(Earlier(i), Attr') = Total(Earlier(i), Attr)
    BY <2>2, TotalSame
  <2>4. Total(Earlier(i), Attr)' = Total(Earlier(i), Attr)
    BY <2>1, <2>3, Zenon
  <2>5. EntryCovered(i)
    BY <1>8 DEF Covers
  <2> QED BY <1>2, <1>6, <1>8, <2>4, <2>5 DEF EntryCovered, SeedPart
<1>9. ASSUME ledger[e.transfer].at <= SeedTime + policy.max_delta
      PROVE  attributed <= SeedPart(ledger[e.transfer].source) + Total(Earlier(n), Attr)'
  <2>1. Earlier(n)' = {j \in DOMAIN allocations : allocations[j].transfer \in parents[e.transfer]}
    BY <1>1, <1>5, <1>6 DEF Earlier
  <2>2. PICK E : E = {j \in DOMAIN allocations : allocations[j].transfer \in parents[e.transfer]}
    OBVIOUS
  <2>3. Total(E, Attr') = Total(E, Attr)
    BY <1>7, <2>2, TotalSame
  <2>4. Total(Earlier(n), Attr)' = Brought(parents[e.transfer])
    BY <2>1, <2>2, <2>3, Zenon DEF Brought
  <2>5. Reachable(e.transfer) /\ Ahead(e.transfer) /\ e.transfer \in retained
    <3>1. e.at = ledger[e.transfer].at /\ e.transfer \in scheduled /\ e.at \in Nat
      BY DEF Lineage, Departing, TypeOK, ArrivalEvent, TransferEvent
    <3> QED BY <1>9, <3>1 DEF Reachable, Ahead, Departs, Routes, Asked
  <2>6. tainted[ledger[e.transfer].source] > 0
    BY <1>3 DEF TypeOK
  <2>7. tainted[ledger[e.transfer].source]
          <= SeedPart(ledger[e.transfer].source) + Brought(parents[e.transfer])
    BY <2>5, <2>6 DEF Explained
  <2>8. PICK b, d, x \in Nat : /\ b = Brought(parents[e.transfer])
                               /\ d = SeedPart(ledger[e.transfer].source)
                               /\ x = tainted[ledger[e.transfer].source]
    BY <1>3, BroughtUnion, FlowAssumption DEF TypeOK, SeedPart
  <2>9. attributed <= d + b
    BY <1>3, <2>7, <2>8
  <2> QED BY <2>4, <2>8, <2>9
<1>10. EntryCovered(n)'
  BY <1>1, <1>2, <1>6, <1>9 DEF EntryCovered, SeedPart
<1> QED BY <1>6, <1>8, <1>10 DEF Covers

LEMMA CoversKept ==
  ASSUME Covers, UNCHANGED <<ledger, policy, allocations>>
  PROVE  Covers'
BY DEF Covers, EntryCovered, SeedPart, Earlier, Attr

\* Balances never go below what an allocation takes from them.
LEMMA BalancesFall ==
  ASSUME TypeOK, NEW e \in queue, e.kind = "transfer", NEW attributed \in Nat, NEW haircut,
         Allocate(e, attributed, haircut)
  PROVE  \A a \in Address : tainted'[a] \in Nat /\ tainted'[a] <= tainted[a]
<1>1. \A m \in Nat : AtLeastZero(m - attributed) \in Nat /\ AtLeastZero(m - attributed) <= m
  BY DEF AtLeastZero
<1>2. \A a \in Address : tainted[a] \in Nat
  BY DEF TypeOK
<1>3. \A a \in Address : tainted'[a] = tainted[a] \/ tainted'[a] = AtLeastZero(tainted[a] - attributed)
  BY DEF TypeOK, Allocate
<1> QED BY <1>1, <1>2, <1>3

LEMMA CInit == Init => CInv
<1> SUFFICES ASSUME Init PROVE CInv
  OBVIOUS
<1>1. LInv /\ TypeOK
  BY LInit DEF LInv
<1>2. PICK seed : /\ queue = {seed} /\ seed.address = SeedAddress /\ seed.amount = SeedAmount
                  /\ seed.parents = {}
  <2>1. PICK seed : seed = [kind |-> "arrival", at |-> SeedTime, seq |-> 0,
                            address |-> SeedAddress, amount |-> SeedAmount, depth |-> 0,
                            parents |-> {}]
    OBVIOUS
  <2>2. queue = {seed}
    BY <2>1, Zenon DEF Init
  <2>3. seed.address = SeedAddress /\ seed.amount = SeedAmount /\ seed.parents = {}
    BY <2>1
  <2> QED BY <2>2, <2>3, Zenon
<1>3. /\ \A a \in Address : tainted[a] = 0
      /\ scheduled = {} /\ DOMAIN allocations = {}
  BY DEF Init
<1>4. Routes
  BY <1>2, <1>3 DEF Routes, SeedFirst, Carried, Undelivered, Asked
<1>5. Explained
  <2>1. \A t \in Transfer : ledger[t].source \in Address
    BY <1>1 DEF TypeOK, TransferRecord
  <2> QED BY <1>1, <1>3, <2>1 DEF Explained, TypeOK
<1>6. Covers
  BY <1>3 DEF Covers
<1> QED BY <1>1, <1>4, <1>5, <1>6 DEF CInv, Accounted

\* A step that books nothing, pushes nothing and gives no wallet disputed value.
LEMMA CKept ==
  ASSUME CInv, [Next]_vars, queue' \subseteq queue,
         UNCHANGED <<ledger, policy, schedule, allocations>>, loaded \subseteq loaded',
         retained \subseteq retained', \A t \in retained' \ retained : tainted[ledger[t].source] = 0,
         \A a \in Address : tainted'[a] \in Nat /\ tainted'[a] <= tainted[a]
  PROVE  Routes' /\ Accounted'
<1>1. TypeOK /\ Lineage /\ Routes /\ Accounted /\ UNCHANGED <<scheduled, parents>>
  BY DEF CInv, LInv, schedule
<1>2. TypeOK'
  BY <1>1, TypeNext
<1>3. \A P : Brought(P)' = Brought(P) /\ Brought(P) \in Nat
  BY <1>1, BroughtUnion DEF Brought, Attr
<1>4. Routes'
  BY <1>1, <1>3, RoutesKept
<1>5. CASE EdgeLimitReached
  BY <1>1, <1>4, <1>5, EdgeLimitStays DEF Accounted
<1>6. CASE Explained /\ Covers
  <2>1. \A t \in Transfer : Ahead(t)' => Ahead(t)
    BY DEF Ahead
  <2>2. \A P : Brought(P)' \in Nat /\ Brought(P) <= Brought(P)'
    BY <1>3
  <2>3. retained' \subseteq Transfer
    BY <1>2 DEF TypeOK
  <2>4. Explained'
    BY <1>1, <1>6, <2>1, <2>2, <2>3, ExplainedKept
  <2>5. Covers'
    BY <1>6, CoversKept
  <2> QED BY <1>4, <2>4, <2>5 DEF Accounted
<1> QED BY <1>1, <1>4, <1>5, <1>6 DEF Accounted

\* An arrival's window: explained, unless the edge limit cuts it off.
LEMMA CScheduled ==
  ASSUME CInv, [Next]_vars, NEW e \in queue, NEW answer \in Answers(e.address),
         ArriveSchedule(e, answer)
  PROVE  Routes' /\ Accounted'
<1> DEFINE out == Outgoing(e.address, e.at, retained \cup answer)
<1>1. TypeOK /\ Lineage /\ Routes /\ Accounted
  BY DEF CInv, LInv
<1>2. Routes'
  BY <1>1, RoutesScheduled
<1>3. CASE EdgeLimitReached
  BY <1>1, <1>2, <1>3, EdgeLimitStays DEF Accounted
<1>4. CASE Explained /\ Covers /\ OverEdgeLimit(out) = {}
  <2>1. UNCHANGED <<ledger, policy, allocations>>
    BY DEF ArriveSchedule, Retrieve, Arrives, request
  <2>2. Explained'
    BY <1>1, <1>4, ExplainedScheduled
  <2>3. Covers'
    BY <1>4, <2>1, CoversKept
  <2> QED BY <1>2, <2>2, <2>3 DEF Accounted
<1>5. CASE OverEdgeLimit(out) # {}
  <2>1. Stop(e.address, e.amount, "MAX_NODES", e.depth, e.parents, "edge limit")
    BY <1>5, Zenon DEF ArriveSchedule
  <2>2. EdgeLimitReached'
    BY <1>1, <2>1, ReportMade, Zenon DEF EdgeLimitReached
  <2> QED BY <1>2, <2>2 DEF Accounted
<1> QED BY <1>1, <1>3, <1>4, <1>5 DEF Accounted

\* A booked transfer: its entry is covered, and the balance it spends falls.
LEMMA CBooked ==
  ASSUME CInv, [Next]_vars, NEW e \in queue, e.kind = "transfer", NEW haircut \in Haircut(e),
         NEW attributed \in Attributed(e), attributed > 0,
         StopTransfer(e, attributed, haircut) \/ ForwardTransfer(e, attributed, haircut)
  PROVE  Routes' /\ Accounted'
<1>1. TypeOK /\ Lineage /\ Books /\ Routes /\ Accounted /\ attributed \in Nat
  BY AttributedType DEF CInv, LInv
<1>2. /\ Departs(e) /\ ~Stale(e) /\ Allocate(e, attributed, haircut) /\ Record(e, attributed)
  BY DEF StopTransfer, ForwardTransfer
<1>3. UNCHANGED <<ledger, policy, scheduled, parents, retained, loaded>> /\ IsNext(e)
  BY <1>2 DEF Departs, Pop, request, schedule, evidence
<1>4. \A a \in Address : tainted'[a] \in Nat /\ tainted'[a] <= tainted[a]
  BY <1>1, <1>2, BalancesFall
<1>5. \A P : Brought(P)' = Brought(P) + Part(P, e.transfer, attributed)
  BY <1>1, <1>2, BooksGrow
<1>6. ASSUME NEW P PROVE Brought(P)' \in Nat /\ Brought(P) <= Brought(P)'
  <2>1. PICK m, n \in Nat : m = Brought(P) /\ n = Part(P, e.transfer, attributed)
    BY <1>1, BroughtUnion DEF Part
  <2>2. Brought(P)' = m + n
    BY <1>5, <2>1, Zenon
  <2> QED BY <2>1, <2>2
<1>7. Routes'
  <2>1. CASE StopTransfer(e, attributed, haircut)
    <3>1. ~Booked(e.transfer) /\ queue' \subseteq queue
      BY <1>1, <1>2, <2>1, BookOne DEF StopTransfer, Drop
    <3>2. ASSUME NEW p \in Transfer, Booked(p) PROVE Brought({p})' = Brought({p})
      <4>1. Part({p}, e.transfer, attributed) = 0
        BY <3>1, <3>2 DEF Part
      <4>2. Brought({p})' = Brought({p}) + 0
        BY <1>5, <4>1, Zenon
      <4>3. Brought({p}) \in Nat
        BY <1>1, BroughtUnion
      <4> QED BY <4>2, <4>3
    <3> QED BY <1>1, <1>3, <1>4, <3>1, <3>2, RoutesKept
  <2>2. CASE ForwardTransfer(e, attributed, haircut)
    BY <1>1, <1>4, <1>5, <2>2, RoutesForwarded
  <2> QED BY <2>1, <2>2
<1>8. CASE EdgeLimitReached
  BY <1>1, <1>7, <1>8, EdgeLimitStays DEF Accounted
<1>9. CASE Explained /\ Covers
  <2>1. \A f \in queue' : f \in queue \/ (f.at \in Nat /\ e.at <= f.at)
    <3>1. CASE StopTransfer(e, attributed, haircut)
      BY <3>1 DEF StopTransfer, Drop
    <3>2. CASE ForwardTransfer(e, attributed, haircut)
      <4>1. e.at = ledger[e.transfer].at /\ e.at \in Nat
        BY <1>1 DEF Lineage, Departing, TypeOK, ArrivalEvent, TransferEvent
      <4>2. PICK arrival :
              arrival = [kind |-> "arrival", at |-> ledger[e.transfer].at, seq |-> sequence,
                   address |-> ledger[e.transfer].destination, amount |-> attributed,
                   depth |-> e.depth, parents |-> {e.transfer}]
        OBVIOUS
      <4>3. queue' = (queue \ {e}) \cup {arrival} /\ arrival.at = e.at
        BY <3>2, <4>1, <4>2 DEF ForwardTransfer
      <4> QED BY <4>1, <4>3
    <3> QED BY <3>1, <3>2
  <2>2. \A t \in Transfer : Ahead(t)' => Ahead(t)
    BY <1>1, <1>3, <2>1, AheadBefore
  <2>3. retained' \subseteq Transfer /\ retained' \ retained = {}
    BY <1>1, <1>3 DEF TypeOK
  <2>4. Explained'
    BY <1>1, <1>3, <1>4, <1>6, <1>9, <2>2, <2>3, ExplainedKept
  <2>5. Covers'
    BY <1>1, <1>2, <1>9, CoversBooked
  <2> QED BY <1>7, <2>4, <2>5 DEF Accounted
<1> QED BY <1>1, <1>7, <1>8, <1>9 DEF Accounted

\* Every step keeps what explains the balances and the entries.
LEMMA CNext == CInv /\ [Next]_vars => CInv'
<1> SUFFICES ASSUME CInv, [Next]_vars PROVE CInv'
  OBVIOUS
<1>1. TypeOK /\ LInv /\ LInv'
  BY LNext DEF CInv, LInv
<1>2. \A a \in Address : tainted[a] \in Nat /\ tainted[a] <= tainted[a]
  BY <1>1 DEF TypeOK
<1> SUFFICES Routes' /\ Accounted'
  BY <1>1 DEF CInv
<1>3. ASSUME queue' \subseteq queue, UNCHANGED <<ledger, policy, schedule, allocations, tainted>>,
             UNCHANGED <<retained, loaded>>
      PROVE  Routes' /\ Accounted'
  BY <1>2, <1>3, CKept
<1>4. CASE UNCHANGED vars
  BY <1>3, <1>4 DEF vars, request, evidence, heap, wallets, output
<1>5. CASE CancelTrace \/ Finish
  BY <1>3, <1>5 DEF CancelTrace, Finish, request, evidence, heap, wallets, output
<1>6. ASSUME NEW e \in queue, PastEnd(e) PROVE Routes' /\ Accounted'
  BY <1>3, <1>6 DEF PastEnd, Drop, request, evidence, wallets
<1>7. ASSUME NEW e \in queue, ArriveOverNodeLimit(e) PROVE Routes' /\ Accounted'
  BY <1>3, <1>7 DEF ArriveOverNodeLimit, Arrives, Drop, request, evidence
<1>8. ASSUME NEW e \in queue, ArriveProviderFails(e) PROVE Routes' /\ Accounted'
  <2>1. /\ queue' \subseteq queue /\ UNCHANGED <<ledger, policy, schedule, allocations, tainted>>
        /\ loaded \subseteq loaded' /\ retained' = retained
    BY <1>8 DEF ArriveProviderFails, Arrives, Drop, request
  <2> QED BY <1>2, <2>1, CKept
<1>9. ASSUME NEW e \in queue, NEW answer \in Answers(e.address), ArriveNoOutgoing(e, answer)
      PROVE  Routes' /\ Accounted'
  <2>1. /\ queue' \subseteq queue /\ UNCHANGED <<ledger, policy, schedule, allocations, tainted>>
        /\ loaded \subseteq loaded' /\ retained' = retained \cup answer /\ e.address \in Address
    BY <1>1, <1>9, EventType DEF ArriveNoOutgoing, Retrieve, Arrives, Drop, request
  <2>2. \A t \in retained' \ retained : tainted[ledger[t].source] = 0
    <3>1. tainted[e.address] > 0 => answer = {}
      BY <2>1 DEF CInv, Routes, Asked, Answers
    <3>2. \A t \in answer : ledger[t].source = e.address
      BY DEF Answers, SentBy
    <3> QED BY <1>2, <2>1, <3>1, <3>2
  <2> QED BY <1>2, <2>1, <2>2, CKept
<1>10. ASSUME NEW e \in queue, NEW answer \in Answers(e.address), ArriveSchedule(e, answer)
       PROVE  Routes' /\ Accounted'
  BY <1>10, CScheduled
<1>11. ASSUME NEW e \in queue, e.kind = "transfer", NEW haircut \in Haircut(e),
              SkipTransfer(e, haircut)
       PROVE  Routes' /\ Accounted'
  <2>1. /\ queue' \subseteq queue /\ UNCHANGED <<ledger, policy, schedule, allocations, retained, loaded>>
    BY <1>11 DEF SkipTransfer, Departs, Drop, request, evidence, output
  <2>2. \A a \in Address : tainted'[a] \in Nat /\ tainted'[a] <= tainted[a]
    <3>1. CASE tainted' = tainted
      BY <1>2, <3>1
    <3>2. CASE Allocate(e, 0, haircut)
      BY <1>1, <1>11, <3>2, BalancesFall
    <3> QED BY <1>11, <3>1, <3>2 DEF SkipTransfer
  <2> QED BY <2>1, <2>2, CKept
<1>12. ASSUME NEW e \in queue, e.kind = "transfer", NEW haircut \in Haircut(e),
              NEW attributed \in Attributed(e),
              StopTransfer(e, attributed, haircut) \/ ForwardTransfer(e, attributed, haircut)
       PROVE  Routes' /\ Accounted'
  <2>1. attributed > 0
    BY <1>12 DEF StopTransfer, ForwardTransfer
  <2> QED BY <1>12, <2>1, CBooked
<1> QED
  BY <1>4, <1>5, <1>6, <1>7, <1>8, <1>9, <1>10, <1>11, <1>12 DEF Next, Step, Arrive, Depart

\* The allocations named as an allocation's parents brought at least what it gives
\* away, unless max_edges cut a wallet's transfers off or a time delta kept it out
\* of an arrival's window (scheduled_parent_ids, lines 211-222, 236): whatever the
\* providers answer, no disputed value moves on without its origin being named.
THEOREM LineageExplains == Spec => []LineageCovers
<1>1. Init => CInv
  BY CInit
<1>2. CInv /\ [Next]_vars => CInv'
  BY CNext
<1>3. CInv => LineageCovers
  BY Zenon DEF CInv, Accounted, Covers, EntryCovered, SeedPart, Earlier, Attr, LineageCovers
<1> QED BY <1>1, <1>2, <1>3, PTL DEF Spec
=============================================================================
